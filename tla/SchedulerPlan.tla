--------------------------- MODULE SchedulerPlan ---------------------------
(***************************************************************************)
(* Theorems about the scheduler, fifth part: the tasks of a Shared run     *)
(* take turns, no work starts before what it depends on is done, and the   *)
(* daemon left to itself implements the plan.                              *)
(***************************************************************************)
EXTENDS SchedulerBounds, SchedulerLanding
----------------------------------------------------------------------------
(* The tasks of a Shared run take turns.                                   *)

\* The tick's busy set covers the runs of the tasks that run by now.
CoversRunning(busy) == \A t \in WithStatus({"running"}) : RunOf[t] \in busy \cup {NoRun}

\* The tick marked the busy runs once, and claims long after: only its own
\* claims put tasks to work, so the set covers them to the end of the pass,
\* and a Shared task that passed the guard is still free to go.
BusyInv ==
  /\ OneRunsPerSharedTree
  /\ InClaimPass /\ tick.pc # "listRunning" => CoversRunning(tick.busy)
  /\ tick.pc \in {"spawn", "claim"} /\ tick.cur \in SharedTree
       => RunOf[tick.cur] \notin tick.busy

\* The claim loop keeps what it knows to be busy until the pass ends.
LEMMA ClaimingKnowsBusy ==
  ASSUME NEW s \in TickState, NEW todo
  PROVE  \/ Claiming(s, todo) = NoTick
         \/ Claiming(s, todo).pc = "consider" /\ Claiming(s, todo).busy = s.busy
BY DEF Claiming, TickState

\* The tick's own steps, its claim excepted, keep what the busy set says.
LEMMA TickKeepsBusy ==
  ASSUME BoardAssumption, TInv, BudgetInv, BusyInv, TickStep, ~TickClaims, NoneTakesOff
  PROVE  BusyInv'
<1> USE DEF TInv, TypeOK
<1>a. OneRunsPerSharedTree'
  BY DEF BusyInv, OneRunsPerSharedTree, NoneTakesOff, WithStatus, StatusOf
<1> DEFINE CoveredNow(busy) == \A t \in WithStatus({"running"})' : RunOf[t] \in busy \cup {NoRun}
<1>b. \A busy : CoversRunning(busy) => CoveredNow(busy)
  BY DEF CoversRunning, NoneTakesOff, WithStatus, StatusOf
<1>k. CoveredNow(tick'.busy) => CoversRunning(tick.busy)'
  BY DEF CoversRunning
<1> HIDE DEF CoveredNow
<1>c. ASSUME tick'.pc \notin {"consider", "spawn", "claim", "block", "bump", "revive"}
      PROVE  BusyInv'
  BY <1>a, <1>c DEF BusyInv, InClaimPass
<1>d. ASSUME NEW s \in TickState, NEW todo, CoversRunning(s.busy), tick' = Claiming(s, todo)
      PROVE  BusyInv'
  <2>1. \/ tick' = NoTick
        \/ tick'.pc = "consider" /\ tick'.busy = s.busy
    BY <1>d, ClaimingKnowsBusy
  <2>2. CASE tick' = NoTick
    BY <2>2, <1>c DEF NoTick
  <2>3. CASE tick'.pc = "consider" /\ tick'.busy = s.busy
    <3>1. CoversRunning(tick.busy)'
      BY <1>b, <1>d, <1>k, <2>3
    <3> QED BY <2>3, <3>1, <1>a DEF BusyInv
  <2> QED BY <2>1, <2>2, <2>3
<1>e. ASSUME InClaimPass => tick.pc # "listRunning",
             InClaimPass' => InClaimPass, tick'.busy = tick.busy,
             tick'.pc \notin {"spawn", "claim"}
      PROVE  BusyInv'
  <2>1. InClaimPass' => CoversRunning(tick.busy)'
    BY <1>b, <1>e, <1>k DEF BusyInv
  <2> QED BY <2>1, <1>a, <1>e DEF BusyInv
<1>1. CASE TickBegins
  BY <1>1, <1>c DEF TickBegins, TickGoes, TickState
<1>2. CASE TickSweeps \/ TickReclaims
  <2>1. \A todo : Reconciling(todo).pc \in {"reconcile", "sweep", "reap"}
    BY DEF Reconciling, TickState
  <2> QED BY <1>2, <2>1, <1>c DEF TickSweeps, TickReclaims
<1>3. CASE TickKillsWedged
  <2>1. tick'.pc = "block" /\ tick'.pass # "claim"
    BY <1>3 DEF TickKillsWedged, TickAt, BudgetInv, TickState
  <2> QED BY <2>1, <1>a DEF BusyInv, InClaimPass
<1>4. CASE TickReaps \/ TickListsOrphans \/ TickReattaches \/ TickExcludesRuns
           \/ TickFindsReady \/ TickPromotes
  <2>1. tick'.pc \in {"orphans", "reattach", "excluded", "newlyReady",
                     "promote", "countRunning"}
    BY <1>4 DEF TickReaps, TickListsOrphans, TickReattaches, TickExcludesRuns,
                TickFindsReady, TickPromotes, Reattaching, Promoting, TickState
  <2> QED BY <2>1, <1>c
<1>5. CASE TickCountsRunning \/ TickCountsGating \/ TickListsReady
  <2>1. \A n, X : /\ [tick EXCEPT !.pc = "countGating", !.slots = n].pc = "countGating"
                  /\ [tick EXCEPT !.pc = "listReady", !.slots = n].pc = "listReady"
                  /\ [tick EXCEPT !.pc = "listRunning", !.todo = X, !.slots = n].pc = "listRunning"
    BY DEF TickState
  <2>2. tick'.pc \in {"countGating", "listReady", "listRunning", "idle"}
    <3> HIDE DEF TInv, TypeOK
    <3>1. TickCountsRunning => tick'.pc = "countGating"
      BY <2>1 DEF TickCountsRunning
    <3>2. TickCountsGating => tick'.pc \in {"listReady", "idle"}
      BY <2>1 DEF TickCountsGating, NoTick
    <3>3. TickListsReady => tick'.pc = "listRunning"
      BY <2>1 DEF TickListsReady
    <3> QED BY <1>5, <3>1, <3>2, <3>3
  <2> QED BY <2>2, <1>c
<1>6. CASE TickListsRunning
  <2> DEFINE held == {RunOf[t] : t \in WithStatus({"running"})} \ {NoRun}
             s == [tick EXCEPT !.busy = held]
  <2>1. tick' = Claiming(s, tick.todo)
    BY <1>6 DEF TickListsRunning
  <2>2. s \in TickState /\ s.busy = held
    <3>1. held \in SUBSET Runs
      BY DEF BoardAssumption, WithStatus
    <3> QED BY <3>1 DEF TickState
  <2>3. CoversRunning(s.busy)
    BY <2>2 DEF CoversRunning
  <2> HIDE DEF s
  <2> QED BY <2>1, <2>2, <2>3, <1>d
<1>7. CASE TickConsiders
  <2>1. CoversRunning(tick.busy)
    BY <1>7 DEF TickConsiders, TickAt, BusyInv, InClaimPass
  <2>2. PICK t \in tick.todo :
          \/ /\ ~(t \in SharedTree /\ RunOf[t] \in tick.busy)
             /\ tick' = [RunFor(RunOf[t]) EXCEPT !.pc = "spawn", !.cur = t]
          \/ tick' = Claiming(RunFor(RunOf[t]), tick.todo \ {t})
    BY <1>7 DEF TickConsiders
  <2>3. RunFor(RunOf[t]) \in TickState /\ RunFor(RunOf[t]).busy = tick.busy
    BY <2>2 DEF RunFor, TickState, BoardAssumption
  <2>4. CASE /\ ~(t \in SharedTree /\ RunOf[t] \in tick.busy)
             /\ tick' = [RunFor(RunOf[t]) EXCEPT !.pc = "spawn", !.cur = t]
    <3>1. tick'.pc = "spawn" /\ tick'.cur = t /\ tick'.busy = tick.busy
      BY <2>3, <2>4 DEF TickState
    <3>2. CoversRunning(tick.busy)'
      BY <2>1, <3>1, <1>b, <1>k
    <3> QED BY <2>4, <3>1, <3>2, <1>a DEF BusyInv
  <2>5. CASE tick' = Claiming(RunFor(RunOf[t]), tick.todo \ {t})
    BY <2>1, <2>3, <2>5, <1>d
  <2> QED BY <2>2, <2>4, <2>5
<1>8. CASE TickSpawns
  <2>1. /\ tick'.pc \in {"claim", "block"}
        /\ tick'.busy = tick.busy /\ tick'.cur = tick.cur
    BY <1>8 DEF TickSpawns, TickGoes, TickState
  <2>2. InClaimPass /\ tick.pc = "spawn"
    BY <1>8 DEF TickSpawns, TickAt, InClaimPass
  <2>3. CoversRunning(tick.busy)'
    BY <2>1, <2>2, <1>b, <1>k DEF BusyInv
  <2> QED BY <2>1, <2>2, <2>3, <1>a DEF BusyInv
<1>9. CASE TickBlocks \/ TickBumps \/ TickRevives
  <2>1. tick.pc \in {"block", "bump", "revive"}
    BY <1>9 DEF TickBlocks, TickBumps, TickRevives, TickAt
  <2>2. CASE tick' = TickGoesOn
    <3>1. CASE tick.pass = "claim"
      <4>1. CoversRunning(tick.busy)
        BY <2>1, <3>1 DEF InClaimPass, BusyInv
      <4>2. tick' = Claiming(tick, tick.todo \ {tick.cur})
        BY <2>2, <3>1 DEF TickGoesOn
      <4> QED BY <4>1, <4>2, <1>d
    <3>2. CASE tick.pass # "claim"
      <4>1. tick'.pc \in {"reconcile", "sweep", "reap"}
        BY <2>2, <3>2 DEF TickGoesOn, Reconciling, TickState
      <4> QED BY <4>1, <1>c
    <3> QED BY <3>1, <3>2
  <2>3. CASE \E pc \in {"bump", "revive"} : tick' = [tick EXCEPT !.pc = pc]
    <3>1. /\ tick'.pc \in {"bump", "revive"}
          /\ tick'.pass = tick.pass /\ tick'.busy = tick.busy
      BY <2>3 DEF TickState
    <3> QED BY <2>1, <3>1, <1>e DEF InClaimPass
  <2> QED BY <1>9, <2>2, <2>3 DEF TickBlocks, TickBumps, TickRevives, TickGoes
<1> QED BY <1>1, <1>2, <1>3, <1>4, <1>5, <1>6, <1>7, <1>8, <1>9 DEF TickStep

\* A claim marks its run busy along with the task (claim_and_spawn).
LEMMA ClaimKeepsBusy ==
  ASSUME BoardAssumption, TInv, BusyInv, TickClaims
  PROVE  BusyInv'
<1> USE DEF TInv, TypeOK
<1> DEFINE t == tick.cur
           taken == {RunOf[t]} \ {NoRun}
<1>1. t \in Tasks /\ CoversRunning(tick.busy)
  BY DEF TickClaims, TickAt, CurInHand, InHandPc, TickState, InClaimPass, BusyInv
<1>2. /\ \A u \in Tasks \ {t} : task'[u] = task[u]
      /\ CanMove(t, "Claim") => task'[t].status = "running"
      /\ ~CanMove(t, "Claim") => task'[t].status = task[t].status
  BY <1>1, TransitionRow DEF TickClaims, Target, Kind
<1>3. CASE CanMove(t, "Claim")
  <2>1. tick' = Claiming([tick EXCEPT !.busy = @ \cup taken], tick.todo \ {t})
    BY <1>3 DEF TickClaims
  <2>2. tick' = NoTick \/ (tick'.pc = "consider" /\ tick'.busy = tick.busy \cup taken)
    <3> DEFINE s == [tick EXCEPT !.busy = @ \cup taken]
    <3>1. s \in TickState /\ s.busy = tick.busy \cup taken
      BY <1>1 DEF TickState, BoardAssumption
    <3> QED BY <2>1, <3>1, ClaimingKnowsBusy
  <2>3. \A u \in WithStatus({"running"})' : RunOf[u] \in tick.busy \cup taken \cup {NoRun}
    <3>1. \A u \in WithStatus({"running"})' : u = t \/ u \in WithStatus({"running"})
      BY <1>2 DEF WithStatus, StatusOf
    <3> QED BY <1>1, <3>1 DEF CoversRunning
  <2>4. OneRunsPerSharedTree'
    <3>1. RunOf[t] \in Runs \cup {NoRun} /\ NoRun \notin tick.busy /\ tick.busy \subseteq Runs
      BY <1>1 DEF BoardAssumption, TickState
    <3>2. t \in SharedTree => RunOf[t] \notin tick.busy
      BY DEF BusyInv, TickClaims, TickAt
    <3>3. \A u \in SharedTree \cap WithStatus({"running"}) :
            t \in SharedTree => RunOf[u] # RunOf[t] \/ RunOf[t] = NoRun
      BY <1>1, <3>1, <3>2 DEF CoversRunning
    <3> SUFFICES ASSUME NEW u \in SharedTree \cap WithStatus({"running"})',
                        NEW v \in SharedTree \cap WithStatus({"running"})',
                        RunOf[u] = RunOf[v], u # v, RunOf[u] # NoRun
                 PROVE  FALSE
      BY DEF OneRunsPerSharedTree
    <3>4. u \in Tasks /\ v \in Tasks /\ u \in SharedTree /\ v \in SharedTree
      BY DEF WithStatus
    <3>5. /\ u # t => u \in SharedTree \cap WithStatus({"running"})
          /\ v # t => v \in SharedTree \cap WithStatus({"running"})
      BY <1>2, <3>4 DEF WithStatus, StatusOf
    <3>6. CASE u = t \/ v = t
      BY <3>3, <3>4, <3>5, <3>6
    <3>7. CASE u # t /\ v # t
      BY <3>5, <3>7 DEF BusyInv, OneRunsPerSharedTree
    <3> QED BY <3>6, <3>7
  <2> QED BY <2>2, <2>3, <2>4 DEF BusyInv, CoversRunning, InClaimPass, NoTick
<1>4. CASE ~CanMove(t, "Claim")
  <2>1. tick' = Claiming(tick, tick.todo \ {t})
    BY <1>4 DEF TickClaims
  <2>2. tick' = NoTick \/ (tick'.pc = "consider" /\ tick'.busy = tick.busy)
    BY <2>1, ClaimingKnowsBusy
  <2>3. WithStatus({"running"})' = WithStatus({"running"})
    BY <1>2, <1>4 DEF WithStatus, StatusOf
  <2> QED BY <1>1, <2>2, <2>3
          DEF BusyInv, OneRunsPerSharedTree, CoversRunning, InClaimPass, NoTick
<1> QED BY <1>3, <1>4

\* BusyInv is inductive as long as nobody claims over the API.
LEMMA BusyInductive ==
  ASSUME "Claim" \notin Ops
  PROVE  /\ Init => BusyInv
         /\ TInv /\ BudgetInv /\ BusyInv /\ [Next]_vars => BusyInv'
<1>1. Init => BusyInv
  BY DEF Init, BusyInv, OneRunsPerSharedTree, WithStatus, StatusOf, InClaimPass, NoTick
<1>2. ASSUME TInv, BudgetInv, BusyInv, [Next]_vars PROVE BusyInv'
  <2>1. CASE TickClaims
    BY <2>1, <1>2, ClaimKeepsBusy, BoardAssumption
  <2>2. CASE ~TickClaims
    <3>1. NoneTakesOff
      BY <2>2, <1>2, FlightShrinks
    <3>2. CASE TickStep
      BY <2>2, <3>1, <3>2, <1>2, TickKeepsBusy, BoardAssumption
    <3>3. CASE ~TickStep
      <4>1. tick' = NoTick \/ tick' = tick
        BY <1>2, <3>3
        DEF Next, vars, Crash, HeartbeatStales, AgentStep, AgentRegisters, AgentPosts,
            AgentParks, AgentWakes, AgentExits, AgentsOnly, OperOpensRun, OperOpensTask,
            OperStep, OperLists, OperKills, OperApplies, OperCloses, OperMoves,
            Heartbeats, OperWrites, LoopStep, LoopPolls, LoopGivesUp, LoopGates,
            LoopChecks, LoopLands, LoopRecords, LoopBlocks, LoopBumps, LoopRevives,
            LoopExits, LoopAlone
      <4>2. /\ OneRunsPerSharedTree'
            /\ CoversRunning(tick.busy) /\ tick' = tick => CoversRunning(tick.busy)'
        BY <1>2, <3>1 DEF BusyInv, OneRunsPerSharedTree, CoversRunning, NoneTakesOff,
                          WithStatus, StatusOf
      <4> QED BY <1>2, <4>1, <4>2 DEF BusyInv, InClaimPass, NoTick
    <3> QED BY <3>2, <3>3
  <2> QED BY <2>1, <2>2
<1> QED BY <1>1, <1>2

\* At most one task of a Shared run is running, as long as nobody claims over
\* the API (busy_shared_runs).
THEOREM SharedTasksTakeTurns ==
  ASSUME "Claim" \notin Ops
  PROVE  Spec => []OneRunsPerSharedTree
<1>1. BusyInv => OneRunsPerSharedTree
  BY DEF BusyInv
<1> QED BY <1>1, TInvInductive, BudgetInductive, BusyInductive, PTL DEF Spec
----------------------------------------------------------------------------
(* No work starts before what it depends on is done.                       *)

\* The requests that take nothing back: no reset, no plain ready, and no
\* revival of a task that was blocked before it could start.
OrderedRoutes ==
  /\ Ops \cap {"stopReset", "resume", "restart", "softRestart", "retry", "Ready"} = {}
  /\ "guide" \in Ops => Ops \cap {"cancel", "Block"} = {}

\* Whoever may still put a task to work has one in hand that may start: the
\* tick in what it has to do, a drive loop, a request in what it listed.
OrderInv ==
  /\ DepsBeforeWork
  /\ \A t \in tick.todo : DepsDone(t)
  /\ \A t \in driving : DepsDone(t)
  /\ oper.op \in {"start", "stop", "guide"} => \A t \in oper.todo : DepsDone(t)
  /\ oper.op \in Ops \cup {"none"}
  /\ "guide" \in Ops => \A t \in WithStatus({"blocked"}) : DepsDone(t)

\* A transition that cannot put t to work too early.
Timely(t, kind) ==
  \/ DepsDone(t)
  \/ kind \in {"Claim", "Gate", "Done"}
  \/ kind = "Block" /\ "guide" \notin Ops

\* What a step writes to the task rows, with nothing taken back.
LEMMA TimelyWrites ==
  ASSUME BoardAssumption, TInv, DrivenOnce, OrderInv, OrderedRoutes, [Next]_vars
  PROVE  \/ UNCHANGED task
         \/ \E t \in Tasks : BumpRetries(t)
         \/ \E t \in Tasks, kind \in Tame : Timely(t, kind) /\ Transition(t, kind)
         \/ TickClaims
         \/ \E t \in Tasks, k \in Copy : LoopGates(t, k) \/ LoopRecords(t, k)
         \/ \E t \in Tasks, kind \in Ops \cap {"Claim", "Gate", "Done"} : Transition(t, kind)
<1> USE DEF TInv, TypeOK
<1>1. CASE TickStep
  <2>1. tick.todo \subseteq Tasks /\ \A t \in tick.todo : DepsDone(t)
    BY DEF TickState, OrderInv
  <2>2. tick.pc \in InHandPc => tick.cur \in tick.todo
    BY DEF CurInHand
  <2>3. \/ UNCHANGED task
        \/ TickReclaims \/ TickPromotes \/ TickClaims
        \/ TickBlocks \/ TickBumps \/ TickRevives
    BY <1>1
    DEF TickStep, TickReads, TickBegins, TickSweeps, TickKillsWedged,
        TickReaps, TickListsOrphans, TickReattaches, TickExcludesRuns,
        TickFindsReady, TickCountsRunning, TickCountsGating, TickListsReady,
        TickListsRunning, TickConsiders, TickSpawns
  <2>4. CASE TickReclaims \/ TickPromotes
    BY <2>1, <2>4 DEF TickReclaims, TickPromotes, Heads, Tame, Timely
  <2>5. CASE TickBlocks \/ TickBumps \/ TickRevives
    BY <2>1, <2>2, <2>5
       DEF TickBlocks, TickBumps, TickRevives, TickAt, InHandPc, Tame, Timely
  <2> QED BY <2>3, <2>4, <2>5
<1>2. CASE \E t \in Tasks, k \in Copy : LoopStep(t, k)
  <2>1. PICK t \in Tasks, k \in Copy : LoopStep(t, k)
    BY <1>2
  <2>2. LoopActive(t, k)
    BY <2>1 DEF LoopStep, LoopPolls, LoopGivesUp, LoopGates, LoopChecks, LoopLands,
                LoopRecords, LoopBlocks, LoopBumps, LoopRevives, LoopExits, LoopAt, LoopActive
  <2>3. DepsDone(t)
    BY <2>2 DEF DrivenOnce, OrderInv
  <2>4. \/ UNCHANGED task
        \/ BumpRetries(t)
        \/ LoopGates(t, k) \/ LoopRecords(t, k)
        \/ \E kind \in {"Block", "Revive"} : Transition(t, kind)
    BY <2>1 DEF LoopStep, LoopPolls, LoopGivesUp, LoopGates, LoopChecks, LoopLands,
                LoopRecords, LoopBlocks, LoopBumps, LoopRevives, LoopExits
  <2> QED BY <2>3, <2>4 DEF Timely, Tame
<1>3. CASE OperApplies
  <2>1. PICK t \in Heads(oper.todo) \ oper.cut : Apply(oper.op, t)
    BY <1>3 DEF OperApplies
  <2>2. t \in Tasks /\ t \in oper.todo
    BY <2>1 DEF Heads, OperState
  <2>3. oper.op \in {"start", "stop", "guide", "cancel"}
    BY <1>3 DEF OperApplies, KnownVerb, RunOp, TaskOp, OrderInv, OrderedRoutes
  <2>4. CASE oper.op = "cancel"
    <3>1. Transition(t, "Block")
      BY <2>1, <2>4 DEF Apply
    <3>2. "guide" \notin Ops
      BY <2>4 DEF OrderInv, OrderedRoutes
    <3> QED BY <2>2, <3>1, <3>2 DEF Timely, Tame
  <2>5. CASE oper.op \in {"start", "stop", "guide"}
    <3>1. \E kind \in {"Ready", "Reclaim", "Revive"} : Transition(t, kind)
      BY <2>1, <2>5 DEF Apply
    <3>2. DepsDone(t)
      BY <2>2, <2>5 DEF OrderInv
    <3> QED BY <2>2, <3>1, <3>2 DEF Timely, Tame
  <2> QED BY <2>3, <2>4, <2>5
<1>4. CASE OperMoves
  <2>1. PICK t \in Tasks, kind \in Ops \cap {"Ready", "Claim", "Gate", "Done", "Block"} :
          Transition(t, kind)
    BY <1>4 DEF OperMoves
  <2>2. kind \in Ops \cap {"Claim", "Gate", "Done"} \/ (kind = "Block" /\ "guide" \notin Ops)
    BY DEF OrderedRoutes
  <2> QED BY <2>1, <2>2 DEF Timely, Tame
<1>5. CASE \E t \in Tasks : AgentStep(t)
  BY <1>5 DEF AgentStep, AgentRegisters, AgentPosts, AgentParks, AgentWakes,
              AgentExits, AgentsOnly
<1>6. CASE OperOpensRun \/ OperOpensTask \/ OperLists \/ OperKills \/ OperCloses
           \/ Heartbeats \/ HeartbeatStales \/ Crash \/ UNCHANGED vars
  BY <1>6 DEF OperOpensRun, OperOpensTask, OperLists, OperKills, OperCloses,
              Heartbeats, HeartbeatStales, Crash, vars
<1> QED BY <1>1, <1>2, <1>3, <1>4, <1>5, <1>6 DEF Next, OperStep

\* What such a write leaves true: done stays done, and what is ready or in
\* flight, or blocked and may be revived, was prepared before.
LEMMA TimelyKeeps ==
  ASSUME BoardAssumption, TInv, DrivenOnce, OrderInv, OrderedRoutes, [Next]_vars
  PROVE  /\ \A u \in Tasks : task[u].status = "done" => task'[u].status = "done"
         /\ \A u \in Tasks : DepsDone(u) => DepsDone(u)'
         /\ DepsBeforeWork'
         /\ "guide" \in Ops => \A t \in WithStatus({"blocked"})' : DepsDone(t)'
<1> USE DEF TInv, TypeOK
<1> DEFINE Kept(u) == task'[u].status = task[u].status
           Prepared(u) == /\ task[u].status = "done" => task'[u].status = "done"
                          /\ task'[u].status \in {"ready", "running", "gating"} => DepsDone(u)
                          /\ "guide" \in Ops /\ task'[u].status = "blocked" => DepsDone(u)
<1>0. \/ UNCHANGED task
      \/ \E t \in Tasks : BumpRetries(t)
      \/ \E t \in Tasks, kind \in Kind \ {"ExternalDone"} :
           Timely(t, kind) /\ Transition(t, kind)
  <2>1. TickClaims => tick.cur \in Tasks /\ Transition(tick.cur, "Claim")
    BY DEF TickClaims, TickAt, CurInHand, InHandPc, TickState
  <2>3. Tame \cup {"Claim", "Gate", "Done"} \subseteq Kind \ {"ExternalDone"}
    BY DEF Tame, Kind
  <2>4. \A t, kind : kind \in {"Claim", "Gate", "Done"} => Timely(t, kind)
    BY DEF Timely
  <2> HIDE DEF TInv, TypeOK
  <2>5. ASSUME NEW t \in Tasks, NEW k \in Copy, LoopGates(t, k) \/ LoopRecords(t, k)
        PROVE  \E kind \in {"Gate", "Done"} : Transition(t, kind)
    <3>1. Transition(t, "Gate") \/ Transition(t, "Done")
      BY <2>5 DEF LoopGates, LoopRecords
    <3> QED BY <3>1
  <2> QED BY <2>1, <2>3, <2>4, <2>5, TimelyWrites
<1>1. ASSUME NEW u \in Tasks, Kept(u) PROVE Prepared(u)
  BY <1>1 DEF OrderInv, DepsBeforeWork, WithStatus, StatusOf, InFlightStatus
<1>2. \A u \in Tasks : Prepared(u)
  <2>1. CASE UNCHANGED task \/ \E t \in Tasks : BumpRetries(t)
    BY <2>1, <1>1, BumpRow
  <2>2. CASE \E t \in Tasks, kind \in Kind \ {"ExternalDone"} :
               Timely(t, kind) /\ Transition(t, kind)
    <3>1. PICK t \in Tasks, kind \in Kind \ {"ExternalDone"} :
            Timely(t, kind) /\ Transition(t, kind)
      BY <2>2
    <3>2. \A u \in Tasks \ {t} : Kept(u)
      BY <3>1, TransitionRow
    <3>3. CASE ~CanMove(t, kind)
      <4>1. Kept(t)
        BY <3>1, <3>3, TransitionRow
      <4> QED BY <3>2, <4>1, <1>1
    <3>4. CASE CanMove(t, kind)
      <4>1. task'[t].status = Target[kind] /\ task[t].status # "done"
        BY <3>1, <3>4, TransitionRow, LegalFrom DEF CanMove, StatusOf
      <4>2. kind \in {"Claim", "Gate"} => DepsDone(t)
        <5>1. kind \in {"Claim", "Gate"} => task[t].status \in {"ready", "running"}
          BY <3>4, LegalFrom DEF CanMove, StatusOf, Target, Kind
        <5> QED BY <5>1 DEF OrderInv, DepsBeforeWork, WithStatus, StatusOf, InFlightStatus
      <4>3. Prepared(t)
        <5>1. kind = "Done" => Target[kind] = "done"
          BY DEF Target, Kind
        <5>2. kind = "Block" => Target[kind] = "blocked"
          BY DEF Target, Kind
        <5> QED BY <3>1, <4>1, <4>2, <5>1, <5>2 DEF Timely
      <4> QED BY <3>2, <4>3, <1>1
    <3> QED BY <3>3, <3>4
  <2> QED BY <1>0, <2>1, <2>2
<1>3. \A u \in Tasks : DepsDone(u) => DepsDone(u)'
  <2>1. \A u \in Tasks : Deps[u] \subseteq Tasks
    BY DEF BoardAssumption
  <2> QED BY <1>2, <2>1 DEF DepsDone, StatusOf
<1>4. DepsBeforeWork'
  BY <1>2, <1>3 DEF DepsBeforeWork, WithStatus, StatusOf, InFlightStatus
<1>5. "guide" \in Ops => \A t \in WithStatus({"blocked"})' : DepsDone(t)'
  BY <1>2, <1>3 DEF WithStatus, StatusOf
<1> QED BY <1>2, <1>3, <1>4, <1>5

\* The tick takes up what is ready or in flight, or may be promoted; else it
\* only works off what it has.
LEMMA TickTakesUp ==
  ASSUME BoardAssumption, TInv, TickStep
  PROVE  \/ tick'.todo \subseteq tick.todo
         \/ tick'.todo \subseteq WithStatus({"ready"} \cup InFlightStatus)
         \/ \A t \in tick'.todo : DepsDone(t)
<1> USE DEF TInv, TypeOK
<1>a. ASSUME NEW S \in SUBSET Tasks
      PROVE  /\ Reconciling(S).todo = S /\ Reattaching(S).todo = S /\ Promoting(S).todo = S
             /\ Claiming(tick, S).todo \subseteq S
             /\ \A B : Claiming([tick EXCEPT !.busy = B], S).todo \subseteq S
  BY <1>a DEF Reconciling, Reattaching, Promoting, Claiming, NoTick, TickState
<1>b. tick.todo \in SUBSET Tasks /\ \A t : tick.todo \ {t} \in SUBSET Tasks
  BY DEF TickState
<1>c. ASSUME NEW S \in SUBSET Tasks, S \subseteq tick.todo,
             \/ tick' \in {Reconciling(S), Reattaching(S), Promoting(S), Claiming(tick, S)}
             \/ \E B : tick' = Claiming([tick EXCEPT !.busy = B], S)
      PROVE  tick'.todo \subseteq tick.todo
  <2> HIDE DEF TInv, TypeOK
  <2>1. CASE tick' \in {Reconciling(S), Reattaching(S), Promoting(S), Claiming(tick, S)}
    BY <2>1, <1>a, <1>c
  <2>2. CASE \E B : tick' = Claiming([tick EXCEPT !.busy = B], S)
    BY <2>2, <1>a, <1>c
  <2> QED BY <1>c, <2>1, <2>2
<1>1. CASE TickBegins \/ TickKillsWedged \/ TickReaps \/ TickExcludesRuns
           \/ TickCountsRunning \/ TickSpawns \/ TickBumps
  BY <1>1 DEF TickBegins, TickKillsWedged, TickReaps, TickExcludesRuns,
              TickCountsRunning, TickSpawns, TickBumps, TickGoes, TickState
<1>2. CASE TickSweeps
  <2>1. PICK S \in SUBSET Tasks : S \subseteq WithStatus({tick.pass}) /\ tick' = Reconciling(S)
    BY <1>2 DEF TickSweeps, WithStatus
  <2>2. TickAt("sweep")
    BY <1>2 DEF TickSweeps
  <2>3. CASE tick.pass \in {"running", "gating"}
    BY <2>1, <2>3, <1>a DEF WithStatus, InFlightStatus
  <2>4. CASE tick.pass = "claim"
    <3>1. WithStatus({tick.pass}) = {}
      BY <2>4 DEF WithStatus, StatusOf, TaskRow, Status
    <3> QED BY <2>1, <3>1, <1>a
  <2> QED BY <2>3, <2>4 DEF TickState
<1>3. CASE TickListsOrphans
  <2>1. tick' = Reattaching(WithStatus({tick.pass})) /\ WithStatus({tick.pass}) \in SUBSET Tasks
    BY <1>3 DEF TickListsOrphans, WithStatus
  <2>2. CASE tick.pass \in {"running", "gating"}
    <3>1. tick'.todo = WithStatus({tick.pass})
      BY <2>1, <1>a
    <3> QED BY <2>2, <3>1 DEF WithStatus, InFlightStatus
  <2>3. CASE tick.pass = "claim"
    <3>1. WithStatus({tick.pass}) = {}
      BY <2>3 DEF WithStatus, StatusOf, TaskRow, Status
    <3> QED BY <2>1, <3>1, <1>a
  <2> QED BY <2>2, <2>3 DEF TickState
<1>4. CASE TickReclaims \/ TickReattaches \/ TickPromotes
  <2>1. PICK t : tick' \in {Reconciling(tick.todo \ {t}), Reattaching(tick.todo \ {t}),
                           Promoting(tick.todo \ {t})}
    BY <1>4 DEF TickReclaims, TickReattaches, TickPromotes
  <2>2. tick.todo \ {t} \in SUBSET Tasks /\ tick.todo \ {t} \subseteq tick.todo
    BY <1>b
  <2> HIDE DEF TInv, TypeOK
  <2>3. tick'.todo = tick.todo \ {t}
    <3> DEFINE S == tick.todo \ {t}
    <3> HIDE DEF S
    <3>1. tick' \in {Reconciling(S), Reattaching(S), Promoting(S)}
      BY <2>1 DEF S
    <3>2. tick'.todo = S
      BY <2>2, <3>1, <1>a DEF S
    <3> QED BY <3>2 DEF S
  <2> QED BY <2>2, <2>3
<1>5. CASE TickFindsReady
  <2>1. PICK S \in SUBSET Tasks : (\A t \in S : DepsDone(t)) /\ tick' = Promoting(S)
    BY <1>5 DEF TickFindsReady, WithStatus
  <2> QED BY <2>1, <1>a
<1>6. CASE TickCountsGating
  BY <1>6 DEF TickCountsGating, NoTick, TickState
<1>7. CASE TickListsReady
  <2>1. PICK X \in FairTake(WithStatus({"ready"}), tick.slots) :
          tick' = [tick EXCEPT !.pc = "listRunning", !.todo = X, !.slots = 0]
    BY <1>7 DEF TickListsReady
  <2>2. tick'.todo = X /\ X \subseteq WithStatus({"ready"})
    BY <2>1 DEF TickState, FairTake
  <2> QED BY <2>2 DEF WithStatus
<1>8. CASE TickListsRunning
  <2>1. \E B : tick' = Claiming([tick EXCEPT !.busy = B], tick.todo)
    BY <1>8 DEF TickListsRunning
  <2> HIDE DEF TInv, TypeOK
  <2> QED BY <2>1, <1>b, <1>c
<1>9. CASE TickConsiders
  <2>1. PICK t \in tick.todo :
          \/ tick' = [RunFor(RunOf[t]) EXCEPT !.pc = "spawn", !.cur = t]
          \/ tick' = Claiming(RunFor(RunOf[t]), tick.todo \ {t})
    BY <1>9 DEF TickConsiders
  <2>2. RunFor(RunOf[t]) \in TickState /\ RunFor(RunOf[t]).todo = tick.todo
    BY <1>b, <2>1 DEF RunFor, TickState, BoardAssumption
  <2>3. CASE tick' = [RunFor(RunOf[t]) EXCEPT !.pc = "spawn", !.cur = t]
    BY <2>2, <2>3 DEF TickState
  <2>4. CASE tick' = Claiming(RunFor(RunOf[t]), tick.todo \ {t})
    BY <2>2, <2>4 DEF Claiming, NoTick, TickState
  <2> QED BY <2>1, <2>3, <2>4
<1>10. CASE TickClaims
  <2> DEFINE S == tick.todo \ {tick.cur}
  <2>1. tick' = Claiming(tick, S) \/ \E B : tick' = Claiming([tick EXCEPT !.busy = B], S)
    BY <1>10 DEF TickClaims
  <2> HIDE DEF S
  <2>2. S \in SUBSET Tasks /\ S \subseteq tick.todo
    BY <1>b DEF S
  <2> QED BY <2>1, <2>2, <1>c
<1>11. CASE TickBlocks \/ TickRevives
  <2> DEFINE S == tick.todo \ {tick.cur}
  <2>1. tick' \in {Claiming(tick, S), Reconciling(S)} \/ tick' = [tick EXCEPT !.pc = "bump"]
    BY <1>11 DEF TickBlocks, TickRevives, TickGoesOn
  <2>2. S \in SUBSET Tasks /\ S \subseteq tick.todo
    BY <1>b
  <2>3. [tick EXCEPT !.pc = "bump"].todo = tick.todo
    BY DEF TickState
  <2> HIDE DEF S
  <2> QED BY <2>1, <2>2, <2>3, <1>c
<1> QED BY <1>1, <1>2, <1>3, <1>4, <1>5, <1>6, <1>7, <1>8, <1>9, <1>10, <1>11
        DEF TickStep

\* A drive loop starts for a task the tick has in hand, and for no other.
LEMMA LoopsStartInHand ==
  ASSUME TInv, [Next]_vars
  PROVE  driving' \subseteq driving \cup tick.todo
<1> USE DEF TInv, TypeOK
<1>1. CASE TickReattaches
  BY <1>1 DEF TickReattaches, SpawnResume, Heads
<1>2. CASE TickClaims
  BY <1>2 DEF TickClaims, SpawnResume, TickAt, CurInHand, InHandPc
<1>3. CASE ~TickReattaches /\ ~TickClaims
  BY <1>3
  DEF Next, vars, TickStep, TickReads, TickWrites, TickBegins, TickSweeps, TickKillsWedged,
      TickReclaims, TickReaps, TickListsOrphans, TickExcludesRuns, TickFindsReady,
      TickPromotes, TickCountsRunning, TickCountsGating, TickListsReady, TickListsRunning,
      TickConsiders, TickSpawns, TickBlocks, TickBumps, TickRevives,
      LoopStep, LoopPolls, LoopGivesUp, LoopGates, LoopChecks, LoopLands, LoopRecords,
      LoopBlocks, LoopBumps, LoopRevives, LoopExits, AgentStep, AgentRegisters, AgentPosts,
      AgentParks, AgentWakes, AgentExits, AgentsOnly, OperOpensRun, OperOpensTask, OperStep,
      OperLists, OperKills, OperApplies, OperCloses, OperMoves, Heartbeats, OperWrites,
      HeartbeatStales, Crash
<1> QED BY <1>1, <1>2, <1>3

\* A request that may put tasks to work lists none too early, and works down
\* its list (StartLists, StopLists, Revivable).
LEMMA RequestsAreTimely ==
  ASSUME BoardAssumption, TInv, OrderInv, OrderedRoutes, [Next]_vars
  PROVE  /\ oper'.op \in Ops \cup {"none"}
         /\ oper'.op \in {"start", "stop", "guide"} => \A t \in oper'.todo : DepsDone(t)
<1> USE DEF TInv, TypeOK
<1>a. /\ NoOper.op = "none"
      /\ \A todo : \/ Serving(todo) = NoOper
                   \/ Serving(todo).op = oper.op /\ Serving(todo).todo \subseteq todo
  BY DEF NoOper, Serving, OperState
<1>1. CASE OperOpensRun
  BY <1>1 DEF OperOpensRun, NoOper
<1>2. CASE OperOpensTask
  <2>1. PICK op \in Ops \cap TaskOp, t \in Tasks :
          /\ op \in {"retry", "guide"} => Revivable(t)
          /\ oper' = [NoOper EXCEPT !.op = op, !.pc = "each", !.todo = {t},
                                    !.cut = IF op = "guide" THEN {} ELSE {t}]
    BY <1>2 DEF OperOpensTask
  <2>2. oper'.op = op /\ oper'.todo = {t}
    BY <2>1 DEF NoOper
  <2>3. op = "guide" => DepsDone(t)
    BY <2>1 DEF Revivable, OrderInv, WithStatus
  <2>4. op \notin {"start", "stop"}
    BY DEF TaskOp
  <2> QED BY <2>2, <2>3, <2>4
<1>3. CASE OperLists
  <2> DEFINE S == Affected(oper.op, oper.run)
  <2>1. /\ oper'.op = Serving(S).op
        /\ oper'.todo = Serving(S).todo
    BY <1>3 DEF OperLists, Serving, NoOper, OperState
  <2>2. oper.op \in {"start", "stop"} => \A t \in S : DepsDone(t)
    <3>1. oper.op = "start" => S = StartLists(oper.run)
      BY DEF Affected
    <3>2. oper.op = "stop" => S = StopLists(oper.run)
      BY DEF Affected
    <3>3. \A t \in StartLists(oper.run) : DepsDone(t)
      BY DEF StartLists, Listed, DepsDone, WithStatus, StatusOf
    <3>4. \A t \in StopLists(oper.run) : DepsDone(t)
      BY DEF StopLists, Listed, OrderInv, DepsBeforeWork, WithStatus
    <3> QED BY <3>1, <3>2, <3>3, <3>4
  <2>3. oper.op # "guide"
    BY <1>3 DEF OperLists, KnownVerb, RunOp
  <2> QED BY <2>1, <2>2, <2>3, <1>a DEF OrderInv
<1>4. CASE OperApplies
  BY <1>4, <1>a DEF OperApplies, OrderInv
<1>5. CASE OperKills
  BY <1>5 DEF OperKills, OrderInv, OperState
<1>6. CASE oper' = oper \/ oper' = NoOper
  BY <1>6, <1>a DEF OrderInv
<1> QED BY <1>1, <1>2, <1>3, <1>4, <1>5, <1>6
    DEF Next, vars, TickStep, TickReads, TickWrites, TickBegins, TickSweeps, TickKillsWedged,
      TickReclaims, TickReaps, TickListsOrphans, TickReattaches, TickExcludesRuns,
      TickFindsReady, TickPromotes, TickCountsRunning, TickCountsGating, TickListsReady,
      TickListsRunning, TickConsiders, TickSpawns, TickClaims, TickBlocks, TickBumps,
      TickRevives, LoopStep, LoopPolls, LoopGivesUp, LoopGates, LoopChecks, LoopLands,
      LoopRecords, LoopBlocks, LoopBumps, LoopRevives, LoopExits, LoopAlone, AgentStep,
      AgentRegisters, AgentPosts, AgentParks, AgentWakes, AgentExits, AgentsOnly, OperStep,
      OperCloses, OperMoves, Heartbeats, HeartbeatStales, Crash

\* OrderInv is inductive.
LEMMA OrderInductive ==
  ASSUME OrderedRoutes
  PROVE  /\ Init => OrderInv
         /\ TInv /\ DrivenOnce /\ OrderInv /\ [Next]_vars => OrderInv'
<1>1. Init => OrderInv
  BY DEF Init, OrderInv, DepsBeforeWork, WithStatus, StatusOf, InFlightStatus, NoTick, NoOper
<1>2. ASSUME TInv, DrivenOnce, OrderInv, [Next]_vars PROVE OrderInv'
  <2>1. /\ \A u \in Tasks : DepsDone(u) => DepsDone(u)'
        /\ DepsBeforeWork'
        /\ "guide" \in Ops => \A t \in WithStatus({"blocked"})' : DepsDone(t)'
    BY <1>2, BoardAssumption, TimelyKeeps
  <2>2. TInv'
    BY <1>2, TInvInductive
  <2>3. tick'.todo \subseteq Tasks /\ driving' \subseteq Tasks /\ oper'.todo \subseteq Tasks
    BY <2>2 DEF TInv, TypeOK, TickState, OperState
  <2>4. \A t \in driving' : DepsDone(t)
    BY <1>2, LoopsStartInHand DEF OrderInv
  <2>5. \A t \in tick'.todo : DepsDone(t)
    <3>1. CASE TickStep
      BY <3>1, <1>2, BoardAssumption, TickTakesUp DEF OrderInv, DepsBeforeWork
    <3>2. CASE tick' = NoTick \/ tick' = tick
      BY <1>2, <3>2 DEF OrderInv, NoTick
    <3> QED BY <1>2, <3>1, <3>2
        DEF Next, vars, Crash, HeartbeatStales, AgentStep, AgentRegisters, AgentPosts,
            AgentParks, AgentWakes, AgentExits, AgentsOnly, OperOpensRun, OperOpensTask,
            OperStep, OperLists, OperKills, OperApplies, OperCloses, OperMoves,
            Heartbeats, OperWrites, LoopStep, LoopPolls, LoopGivesUp, LoopGates,
            LoopChecks, LoopLands, LoopRecords, LoopBlocks, LoopBumps, LoopRevives,
            LoopExits, LoopAlone
  <2>6. /\ oper'.op \in Ops \cup {"none"}
        /\ oper'.op \in {"start", "stop", "guide"} => \A t \in oper'.todo : DepsDone(t)
    BY <1>2, BoardAssumption, RequestsAreTimely
  <2> QED BY <2>1, <2>3, <2>4, <2>5, <2>6 DEF OrderInv
<1> QED BY <1>1, <1>2

\* Work starts after what it depends on, whatever starts, stops, cancels and
\* plain claims, gates and dones interleave with it; a reset takes a finished
\* dependency back under its dependants and is left out, and so are a plain
\* ready and a guided revival of what a cancel blocked early (newly_ready).
THEOREM WorkFollowsDeps ==
  ASSUME OrderedRoutes
  PROVE  Spec => []DepsBeforeWork
<1>1. OrderInv => DepsBeforeWork
  BY DEF OrderInv
<1> QED BY <1>1, TInvInductive, DrivenInductive, OrderInductive, PTL DEF Spec
----------------------------------------------------------------------------
(* The order of the work, task by task, under every request there is.      *)

\* Somebody means to put t to work, or already has.
InHand(t) == t \in WithStatus({"ready"} \cup InFlightStatus) \cup tick.todo \cup driving

\* The step leaves the order of t alone: it takes no finished dependency back
\* while t is in hand (reset_task), and neither a plain ready nor a guided
\* revival, which ask no one, sends t off before its dependencies are done.
LeavesOrder(t) ==
  /\ InHand(t) => \A d \in Deps[t] : StatusOf(d) = "done" => StatusOf(d)' = "done"
  /\ /\ OperMoves \/ (OperApplies /\ oper.op = "guide")
     /\ StatusOf(t) # "ready" /\ StatusOf(t)' = "ready"
     => DepsDone(t)

\* Whoever may put t to work found its dependencies done, and so they are: the
\* tick in what it took up, a drive loop, a start or a stop in what it listed.
TurnInv(t) ==
  /\ InHand(t) => DepsDone(t)
  /\ oper.op \in {"start", "stop"} /\ t \in oper.todo => DepsDone(t)

\* A task that is in nobody's hand is only put to work by a step that found
\* its dependencies done: the others write the tasks they have in hand.
LEMMA PutToWork ==
  ASSUME BoardAssumption, TInv, DrivenOnce, NEW t \in Tasks, TurnInv(t), LeavesOrder(t),
         [Next]_vars, t \in WithStatus({"ready"} \cup InFlightStatus)'
  PROVE  DepsDone(t)
<1> USE DEF TInv, TypeOK
<1>0. SUFFICES ASSUME ~InHand(t) PROVE DepsDone(t)
  BY DEF TurnInv
<1>1. /\ task'[t].status \in {"ready", "running", "gating"}
      /\ task[t].status \notin {"ready", "running", "gating"}
      /\ t \notin tick.todo /\ t \notin driving
  BY <1>0 DEF InHand, WithStatus, StatusOf, InFlightStatus
<1>2. SUFFICES \/ task'[t] = task[t]
               \/ task'[t].status = task[t].status
               \/ task'[t].status \in {"pending", "blocked", "done"}
               \/ DepsDone(t)
  BY <1>1
<1>3. CASE TickStep
  <2>1. \/ UNCHANGED task
        \/ \E u \in tick.todo : BumpRetries(u) \/ \E kind \in Kind : Transition(u, kind)
    <3>1. \/ UNCHANGED task
          \/ TickReclaims \/ TickPromotes \/ TickClaims
          \/ TickBlocks \/ TickBumps \/ TickRevives
      BY <1>3
      DEF TickStep, TickReads, TickBegins, TickSweeps, TickKillsWedged,
          TickReaps, TickListsOrphans, TickReattaches, TickExcludesRuns,
          TickFindsReady, TickCountsRunning, TickCountsGating, TickListsReady,
          TickListsRunning, TickConsiders, TickSpawns
    <3>2. CASE TickReclaims \/ TickPromotes
      BY <3>2 DEF TickReclaims, TickPromotes, Heads, Kind
    <3>3. CASE TickClaims \/ TickBlocks \/ TickBumps \/ TickRevives
      <4>1. tick.cur \in tick.todo
        BY <3>3 DEF TickClaims, TickBlocks, TickBumps, TickRevives, TickAt, CurInHand, InHandPc
      <4>2. BumpRetries(tick.cur) \/ \E kind \in Kind : Transition(tick.cur, kind)
        BY <3>3 DEF TickClaims, TickBlocks, TickBumps, TickRevives, Kind
      <4> QED BY <4>1, <4>2
    <3> QED BY <3>1, <3>2, <3>3
  <2>2. tick.todo \subseteq Tasks
    BY DEF TickState
  <2> QED BY <1>1, <2>1, <2>2, TransitionRow, BumpRow
<1>4. CASE \E u \in Tasks, k \in Copy : LoopStep(u, k)
  <2>1. PICK u \in Tasks, k \in Copy : LoopStep(u, k)
    BY <1>4
  <2>2. u # t
    <3>1. LoopActive(u, k)
      BY <2>1 DEF LoopStep, LoopPolls, LoopGivesUp, LoopGates, LoopChecks, LoopLands,
                  LoopRecords, LoopBlocks, LoopBumps, LoopRevives, LoopExits, LoopAt, LoopActive
    <3> QED BY <1>1, <3>1 DEF DrivenOnce
  <2>3. UNCHANGED task \/ BumpRetries(u) \/ \E kind : Transition(u, kind)
    BY <2>1 DEF LoopStep, LoopPolls, LoopGivesUp, LoopGates, LoopChecks, LoopLands,
                LoopRecords, LoopBlocks, LoopBumps, LoopRevives, LoopExits
  <2> QED BY <2>2, <2>3, TransitionRow, BumpRow
<1>5. CASE OperApplies
  <2>1. PICK u \in Heads(oper.todo) \ oper.cut : Apply(oper.op, u)
    BY <1>5 DEF OperApplies
  <2>2. u \in Tasks /\ u \in oper.todo
    BY <2>1 DEF Heads, OperState
  <2>3. CASE Reset(u)
    BY <2>2, <2>3, ResetRow
  <2>4. CASE u # t /\ ~Reset(u)
    <3>1. \E kind : Transition(u, kind)
      BY <2>1, <2>4 DEF Apply
    <3> QED BY <2>2, <2>4, <3>1, TransitionRow
  <2>5. CASE u = t /\ ~Reset(u)
    <3>1. oper.op \in {"stop", "start", "cancel", "guide"}
      BY <1>5, <2>1, <2>5 DEF OperApplies, KnownVerb, RunOp, TaskOp, Apply
    <3>2. CASE oper.op \in {"start", "stop"}
      BY <2>2, <2>5, <3>2 DEF TurnInv
    <3>3. CASE oper.op = "guide"
      <4>1. Transition(t, "Revive") /\ Target["Revive"] = "ready"
        BY <2>1, <2>5, <3>3 DEF Apply, Target, Kind
      <4>2. task'[t].status \in {task[t].status, "ready"}
        BY <4>1, TransitionRow
      <4> QED BY <1>1, <1>5, <3>3, <4>2 DEF LeavesOrder, StatusOf
    <3>4. CASE oper.op = "cancel"
      <4>1. Transition(t, "Block") /\ Target["Block"] = "blocked"
        BY <2>1, <2>5, <3>4 DEF Apply, Target, Kind
      <4> QED BY <4>1, TransitionRow
    <3> QED BY <3>1, <3>2, <3>3, <3>4
  <2> QED BY <2>3, <2>4, <2>5
<1>6. CASE OperMoves
  <2>1. PICK u \in Tasks, kind \in {"Ready", "Claim", "Gate", "Done", "Block"} :
          CanMove(u, kind) /\ Transition(u, kind)
    BY <1>6 DEF OperMoves
  <2>2. CASE u # t
    BY <2>1, <2>2, TransitionRow
  <2>3. CASE u = t
    <3>1. task'[t].status = Target[kind] /\ kind \in Kind
      BY <2>1, <2>3, TransitionRow DEF Kind
    <3>2. Target[kind] \notin {"running", "gating"}
      BY <1>1, <2>1, <2>3, <3>1, LegalFrom DEF CanMove, StatusOf
    <3> QED BY <1>1, <1>6, <3>1, <3>2 DEF LeavesOrder, StatusOf
  <2> QED BY <2>2, <2>3
<1>7. CASE \E u \in Tasks : AgentStep(u)
  BY <1>7 DEF AgentStep, AgentRegisters, AgentPosts, AgentParks, AgentWakes,
              AgentExits, AgentsOnly
<1>8. CASE OperOpensRun \/ OperOpensTask \/ OperLists \/ OperKills \/ OperCloses
           \/ Heartbeats \/ HeartbeatStales \/ Crash \/ UNCHANGED vars
  BY <1>8 DEF OperOpensRun, OperOpensTask, OperLists, OperKills, OperCloses,
              Heartbeats, HeartbeatStales, Crash, vars
<1> QED BY <1>3, <1>4, <1>5, <1>6, <1>7, <1>8 DEF Next, OperStep

\* What a finished dependency needs to stay one.
LEMMA OrderStands ==
  ASSUME BoardAssumption, NEW t \in Tasks, LeavesOrder(t), InHand(t), DepsDone(t)
  PROVE  DepsDone(t)'
BY DEF LeavesOrder, DepsDone, StatusOf

\* Only the reset of a task, on request, makes it unfinished.
LEMMA DoneIsLeft ==
  ASSUME TInv, [Next]_vars, NEW d \in Tasks, task[d].status = "done"
  PROVE  \/ task'[d].status = "done"
         \/ OperApplies /\ oper.op \in {"stopReset", "resume", "restart", "softRestart", "retry"}
<1> USE DEF TInv, TypeOK
<1>1. ASSUME NEW u \in Tasks, NEW kind \in Kind \ {"ExternalDone"}, Transition(u, kind)
      PROVE  task'[d].status = "done"
  <2>1. CASE u # d
    BY <1>1, <2>1, TransitionRow
  <2>2. CASE u = d
    <3>1. ~CanMove(d, kind)
      BY <1>1, LegalFrom DEF CanMove, StatusOf
    <3> QED BY <1>1, <2>2, <3>1, TransitionRow
  <2> QED BY <2>1, <2>2
<1>2. ASSUME UNCHANGED task \/ \E u \in Tasks : BumpRetries(u) PROVE task'[d].status = "done"
  BY <1>2, BumpRow
<1>3. CASE OperApplies
  <2>1. PICK u \in Heads(oper.todo) \ oper.cut : Apply(oper.op, u)
    BY <1>3 DEF OperApplies
  <2>2. u \in Tasks
    BY <2>1 DEF Heads, OperState
  <2>3. CASE oper.op \notin {"stopReset", "resume", "restart", "softRestart", "retry"}
    <3>1. oper.op \in {"stop", "start", "cancel", "guide"}
      BY <1>3, <2>3 DEF OperApplies, KnownVerb, RunOp, TaskOp
    <3>2. \E kind \in {"Reclaim", "Ready", "Block", "Revive"} : Transition(u, kind)
      BY <2>1, <3>1 DEF Apply
    <3>3. {"Reclaim", "Ready", "Block", "Revive"} \subseteq Kind \ {"ExternalDone"}
      BY DEF Kind
    <3> QED BY <1>1, <2>2, <3>2, <3>3
  <2> QED BY <1>3, <2>3
<1>4. CASE ~OperApplies
  <2>1. \/ UNCHANGED task
        \/ \E u \in Tasks : BumpRetries(u)
        \/ \E u \in Tasks, kind \in Kind \ {"ExternalDone"} : Transition(u, kind)
    <3>1. TickClaims => tick.cur \in Tasks /\ Transition(tick.cur, "Claim")
      BY DEF TickClaims, TickAt, CurInHand, InHandPc, TickState
    <3>2. \A u \in Tasks, k \in Copy :
            LoopGates(u, k) \/ LoopRecords(u, k)
              => Transition(u, "Gate") \/ Transition(u, "Done")
      BY DEF LoopGates, LoopRecords
    <3>3. OperMoves => \E u \in Tasks, kind \in Kind \ {"ExternalDone"} : Transition(u, kind)
      BY DEF OperMoves, Kind
    <3>4. Tame \cup {"Claim", "Gate", "Done"} \subseteq Kind \ {"ExternalDone"}
      BY DEF Tame, Kind
    <3> HIDE DEF TInv, TypeOK
    <3> QED BY <1>4, <3>1, <3>2, <3>3, <3>4, TaskWrites
  <2> QED BY <1>1, <1>2, <2>1
<1> QED BY <1>3, <1>4

\* What a step leaves in a request's list is there by the listing it made, or
\* was there before.
LEMMA RequestsInTurn ==
  ASSUME BoardAssumption, TInv, DrivenOnce, NEW t \in Tasks, TurnInv(t), [Next]_vars,
         oper'.op \in {"start", "stop"}, t \in oper'.todo
  PROVE  \/ UNCHANGED task /\ DepsDone(t)
         \/ DepsDone(t) /\ oper.op = oper'.op
<1> USE DEF TInv, TypeOK
<1>a. /\ NoOper.op = "none"
      /\ \A todo : \/ Serving(todo) = NoOper
                   \/ Serving(todo).op = oper.op /\ Serving(todo).todo \subseteq todo
  BY DEF NoOper, Serving, OperState
<1>1. CASE OperOpensRun
  BY <1>1 DEF OperOpensRun, NoOper
<1>2. CASE OperOpensTask
  <2>1. oper'.op \in TaskOp
    BY <1>2 DEF OperOpensTask, NoOper
  <2> QED BY <2>1 DEF TaskOp
<1>3. CASE OperLists
  <2> DEFINE S == Affected(oper.op, oper.run)
  <2>1. /\ oper'.op = Serving(S).op
        /\ oper'.todo = Serving(S).todo
    BY <1>3 DEF OperLists, Serving, NoOper, OperState
  <2>2. oper'.op = oper.op /\ t \in S
    BY <2>1, <1>a
  <2>3. CASE oper.op = "start"
    <3>1. t \in StartLists(oper.run)
      BY <2>2, <2>3 DEF Affected
    <3>2. DepsDone(t)
      BY <3>1 DEF StartLists, Listed, DepsDone, WithStatus, StatusOf
    <3> QED BY <2>2, <3>2
  <2>4. CASE oper.op = "stop"
    <3>1. t \in StopLists(oper.run)
      BY <2>2, <2>4 DEF Affected
    <3>2. DepsDone(t)
      BY <3>1 DEF StopLists, Listed, TurnInv, InHand, WithStatus
    <3> QED BY <2>2, <3>2
  <2> QED BY <2>2, <2>3, <2>4
<1>4. CASE OperApplies
  BY <1>4, <1>a DEF OperApplies, TurnInv
<1>5. CASE OperKills
  BY <1>5 DEF OperKills, TurnInv, OperState
<1>6. CASE oper' = oper \/ oper' = NoOper
  BY <1>6, <1>a DEF TurnInv
<1> QED BY <1>1, <1>2, <1>3, <1>4, <1>5, <1>6
    DEF Next, vars, TickStep, TickReads, TickWrites, TickBegins, TickSweeps, TickKillsWedged,
      TickReclaims, TickReaps, TickListsOrphans, TickReattaches, TickExcludesRuns,
      TickFindsReady, TickPromotes, TickCountsRunning, TickCountsGating, TickListsReady,
      TickListsRunning, TickConsiders, TickSpawns, TickClaims, TickBlocks, TickBumps,
      TickRevives, LoopStep, LoopPolls, LoopGivesUp, LoopGates, LoopChecks, LoopLands,
      LoopRecords, LoopBlocks, LoopBumps, LoopRevives, LoopExits, LoopAlone, AgentStep,
      AgentRegisters, AgentPosts, AgentParks, AgentWakes, AgentExits, AgentsOnly, OperStep,
      OperCloses, OperMoves, Heartbeats, HeartbeatStales, Crash

\* A task comes into the hands of the tick from a listing, and into a drive
\* loop's from the tick's: with its dependencies done, or with work under way.
LEMMA TakenInHand ==
  ASSUME BoardAssumption, TInv, DrivenOnce, NEW t \in Tasks, TurnInv(t), LeavesOrder(t),
         [Next]_vars, InHand(t)'
  PROVE  DepsDone(t)
<1> USE DEF TInv, TypeOK
<1>1. CASE t \in WithStatus({"ready"} \cup InFlightStatus)'
  BY <1>1, PutToWork
<1>2. CASE t \in driving'
  BY <1>2, LoopsStartInHand DEF TurnInv, InHand
<1>3. CASE t \in tick'.todo
  <2>1. CASE TickStep
    BY <2>1, <1>3, TickTakesUp DEF TurnInv, InHand
  <2>2. CASE tick' = NoTick \/ tick' = tick
    BY <1>3, <2>2 DEF NoTick, TurnInv, InHand
  <2> QED BY <2>1, <2>2
      DEF Next, vars, Crash, HeartbeatStales, AgentStep, AgentRegisters, AgentPosts,
          AgentParks, AgentWakes, AgentExits, AgentsOnly, OperOpensRun, OperOpensTask,
          OperStep, OperLists, OperKills, OperApplies, OperCloses, OperMoves,
          Heartbeats, OperWrites, LoopStep, LoopPolls, LoopGivesUp, LoopGates,
          LoopChecks, LoopLands, LoopRecords, LoopBlocks, LoopBumps, LoopRevives,
          LoopExits, LoopAlone
<1> QED BY <1>1, <1>2, <1>3 DEF InHand, WithStatus

\* A reset writes one row and puts nobody to work.
LEMMA ResetsTakeNothingUp ==
  ASSUME TInv, NEW t \in Tasks, OperApplies,
         oper.op \in {"stopReset", "resume", "restart", "softRestart", "retry"},
         InHand(t)'
  PROVE  InHand(t)
<1> USE DEF TInv, TypeOK
<1>1. PICK u \in Heads(oper.todo) \ oper.cut : Reset(u)
  BY DEF OperApplies, Apply
<1>2. u \in Tasks
  BY <1>1 DEF Heads, OperState
<1>3. task'[t] = task[t] \/ task'[t].status = "pending"
  BY <1>1, <1>2, ResetRow
<1>4. UNCHANGED <<tick, driving>>
  BY DEF OperApplies, OperWrites
<1> QED BY <1>3, <1>4 DEF InHand, WithStatus, StatusOf, InFlightStatus

\* TurnInv is inductive over the steps that leave the order of the task alone.
LEMMA TurnInductive ==
  ASSUME NEW t \in Tasks
  PROVE  /\ Init => TurnInv(t)
         /\ TInv /\ DrivenOnce /\ TurnInv(t) /\ [LeavesOrder(t)]_vars /\ [Next]_vars => TurnInv(t)'
<1>1. Init => TurnInv(t)
  BY DEF Init, TurnInv, InHand, WithStatus, StatusOf, InFlightStatus, NoTick, NoOper
<1>2. ASSUME TInv, DrivenOnce, TurnInv(t), LeavesOrder(t), [Next]_vars PROVE TurnInv(t)'
  <2>1. ASSUME InHand(t)' PROVE DepsDone(t)'
    <3>1. DepsDone(t)
      BY <1>2, <2>1, BoardAssumption, TakenInHand
    <3>2. CASE InHand(t)
      BY <1>2, <3>1, <3>2, BoardAssumption, OrderStands
    <3>3. CASE ~InHand(t)
      <4>1. \A d \in Tasks : task[d].status = "done" => task'[d].status = "done"
        BY <1>2, <2>1, <3>3, DoneIsLeft, ResetsTakeNothingUp
      <4> QED BY <3>1, <4>1, BoardAssumption DEF BoardAssumption, DepsDone, StatusOf
    <3> QED BY <3>2, <3>3
  <2>2. ASSUME oper'.op \in {"start", "stop"}, t \in oper'.todo PROVE DepsDone(t)'
    <3>1. \/ UNCHANGED task /\ DepsDone(t)
          \/ DepsDone(t) /\ oper.op = oper'.op
      BY <1>2, <2>2, BoardAssumption, RequestsInTurn
    <3>2. CASE UNCHANGED task
      BY <3>1, <3>2 DEF DepsDone, StatusOf
    <3>3. CASE oper.op = oper'.op
      <4>1. \A d \in Tasks : task[d].status = "done" => task'[d].status = "done"
        BY <1>2, <2>2, <3>3, DoneIsLeft
      <4> QED BY <3>1, <4>1, BoardAssumption DEF BoardAssumption, DepsDone, StatusOf
    <3> QED BY <3>1, <3>2, <3>3
  <2> QED BY <2>1, <2>2 DEF TurnInv
<1>3. ASSUME TurnInv(t), UNCHANGED vars PROVE TurnInv(t)'
  BY <1>3 DEF vars, TurnInv, InHand, WithStatus, DepsDone, StatusOf
<1> QED BY <1>1, <1>2, <1>3

\* The order of the work holds task by task, whatever requests there are: a
\* task is ready, in flight or in the hands of the tick or a loop only with
\* its dependencies done, as long as no step reset one of them under it, or
\* sent it off early by a plain ready or a guided revival. Nothing else there
\* is breaks it: no listing however old, crash, retry, stop or second request
\* (depend.rs, newly_ready; tick.rs; routes).
THEOREM EachTaskWaitsItsTurn ==
  ASSUME NEW t \in Tasks
  PROVE  Spec /\ [][LeavesOrder(t)]_vars => [](InHand(t) => DepsDone(t))
<1>1. TurnInv(t) => (InHand(t) => DepsDone(t))
  BY DEF TurnInv
<1> QED BY <1>1, TInvInductive, DrivenInductive, TurnInductive, PTL DEF Spec

\* The board as a whole is in order if every task is let be.
THEOREM WorkFollowsDepsLetBe ==
  Spec /\ [][\A t \in Tasks : LeavesOrder(t)]_vars => []DepsBeforeWork
<1> DEFINE Inv == \A t \in Tasks : TurnInv(t)
           Let == \A t \in Tasks : LeavesOrder(t)
<1>1. Init => Inv
  BY TurnInductive
<1>2. TInv /\ DrivenOnce /\ Inv /\ [Let]_vars /\ [Next]_vars => Inv'
  BY TurnInductive
<1>3. Inv => DepsBeforeWork
  BY DEF TurnInv, InHand, DepsBeforeWork, WithStatus
<1> HIDE DEF Inv, Let
<1> QED BY <1>1, <1>2, <1>3, TInvInductive, DrivenInductive, PTL DEF Spec, Let
----------------------------------------------------------------------------
(* The daemon implements the plan.                                         *)

\* What each status is in the plan, before and after a step.
PhaseOf(s) ==
  CASE s \in {"pending", "ready"} -> "waiting"
    [] s \in InFlightStatus -> "underway"
    [] s = "blocked" -> "stuck"
    [] s = "done" -> "done"

\* The phase of a task in the plan is read off its status.
LEMMA PhaseByStatus ==
  /\ phase = [t \in Tasks |-> PhaseOf(task[t].status)]
  /\ phase' = [t \in Tasks |-> PhaseOf(task'[t].status)]
BY DEF phase, PhaseOf, StatusOf

\* The plan counts as the scheduler does.
LEMMA PlanCounts == \A S : P!Cardinality(S) = Cardinality(S)
BY DEF Cardinality, P!Cardinality

\* The phases, status by status. (TaskStatus)
LEMMA PhaseTable ==
  /\ PhaseOf("pending") = "waiting" /\ PhaseOf("ready") = "waiting"
  /\ PhaseOf("running") = "underway" /\ PhaseOf("gating") = "underway"
  /\ PhaseOf("blocked") = "stuck" /\ PhaseOf("done") = "done"
BY DEF PhaseOf, InFlightStatus

\* A landing is taken back by a reset only, and added by a landing only.
LEMMA LandingsStay ==
  ASSUME TInv, OrderInv, OrderedRoutes, [Next]_vars
  PROVE  UNCHANGED merged \/ \E t \in Tasks, k \in Copy : LoopLands(t, k)
<1> USE DEF TInv, TypeOK
<1>1. CASE OperApplies
  <2>1. oper.op \in {"start", "stop", "guide", "cancel"}
    BY <1>1 DEF OperApplies, KnownVerb, RunOp, TaskOp, OrderInv, OrderedRoutes
  <2> QED BY <1>1, <2>1 DEF OperApplies, Apply
<1>2. CASE ~OperApplies
  BY <1>2
  DEF Next, vars, TickStep, TickReads, TickWrites, TickBegins, TickSweeps, TickKillsWedged,
      TickReclaims, TickReaps, TickListsOrphans, TickReattaches, TickExcludesRuns,
      TickFindsReady, TickPromotes, TickCountsRunning, TickCountsGating, TickListsReady,
      TickListsRunning, TickConsiders, TickSpawns, TickClaims, TickBlocks, TickBumps,
      TickRevives, LoopStep, LoopPolls, LoopGivesUp, LoopGates, LoopChecks, LoopRecords,
      LoopBlocks, LoopBumps, LoopRevives, LoopExits, AgentStep, AgentRegisters, AgentPosts,
      AgentParks, AgentWakes, AgentExits, AgentsOnly, OperOpensRun, OperOpensTask, OperStep,
      OperLists, OperKills, OperCloses, OperMoves, Heartbeats, HeartbeatStales, Crash
<1> QED BY <1>1, <1>2

\* What is ready to go has its dependencies landed.
LEMMA DoneDepsLanded ==
  ASSUME BoardAssumption, LandInv, NEW t \in Tasks, DepsDone(t)
  PROVE  Deps[t] \subseteq merged
BY DEF BoardAssumption, LandInv, DoneIsMerged, DepsDone, WithStatus

\* A transition is one step of the plan: back to waiting, stuck or none.
LEMMA TameFollowsPlan ==
  ASSUME BoardAssumption, TInv, LandInv, UNCHANGED merged,
         NEW t \in Tasks, NEW kind \in Tame, Timely(t, kind), Transition(t, kind)
  PROVE  P!Next \/ UNCHANGED phase
<1> USE DEF TInv, TypeOK
<1>1. \A u \in Tasks \ {t} : task'[u] = task[u]
  BY TransitionRow
<1>2. task[t] \in TaskRow /\ task[t].status \in Status
  BY DEF TaskRow
<1> DEFINE was == task[t].status
           is == task'[t].status
<1>3. phase' = [phase EXCEPT ![t] = PhaseOf(is)]
  BY <1>1, PhaseByStatus
<1>4. phase[t] = PhaseOf(was)
  BY PhaseByStatus
<1>5. CASE ~CanMove(t, kind)
  <2>1. is = was
    BY <1>5, TransitionRow
  <2> QED BY <1>1, <2>1, PhaseByStatus
<1>6. CASE CanMove(t, kind)
  <2>1. is = Target[kind] /\ was # "done"
    BY <1>6, TransitionRow, LegalFrom DEF CanMove, StatusOf, Tame, Kind
  <2>2. CASE kind = "Block"
    <3>1. is = "blocked" /\ was # "blocked"
      BY <2>1, <2>2, <1>6 DEF Target, Kind, CanMove, Legal, CanTransition, Edges, StatusOf
    <3>2. PhaseOf(is) = "stuck" /\ PhaseOf(was) \in {"waiting", "underway"}
      BY <3>1, <2>1, <1>2 DEF PhaseOf, InFlightStatus, Status
    <3> QED BY <1>3, <1>4, <3>2 DEF P!Next, P!Fail, P!Becomes
  <2>3. CASE kind # "Block"
    <3>1. is = "ready" /\ PhaseOf(is) = "waiting"
      BY <2>1, <2>3, PhaseTable DEF Target, Kind, Tame
    <3>2. Deps[t] \subseteq merged
      BY <2>3, DoneDepsLanded DEF Timely, Tame
    <3>3. CASE was \in {"pending", "ready"}
      <4>1. PhaseOf(was) = PhaseOf(is)
        BY <3>1, <3>3, PhaseTable
      <4> QED BY <1>1, <4>1, PhaseByStatus
    <3>4. CASE was \in InFlightStatus
      <4>1. PhaseOf(was) = "underway"
        BY <3>4 DEF PhaseOf, InFlightStatus
      <4> QED BY <1>3, <1>4, <3>1, <4>1 DEF P!Next, P!Return, P!Becomes
    <3>5. CASE was = "blocked"
      <4>1. PhaseOf(was) = "stuck"
        BY <3>5 DEF PhaseOf, InFlightStatus
      <4> QED BY <1>3, <1>4, <3>1, <3>2, <4>1 DEF P!Next, P!Retry, P!Becomes
    <3> QED BY <1>2, <2>1, <3>3, <3>4, <3>5 DEF Status, InFlightStatus
  <2> QED BY <2>2, <2>3
<1> QED BY <1>5, <1>6

\* A claim begins the task: its dependencies have landed and a slot is free.
LEMMA ClaimFollowsPlan ==
  ASSUME BoardAssumption, TInv, LandInv, BudgetInv, OrderInv, TickClaims
  PROVE  P!Next \/ UNCHANGED phase
<1> USE DEF TInv, TypeOK
<1> DEFINE t == tick.cur
<1>1. /\ t \in Tasks /\ t \in tick.todo /\ InClaimPass /\ Transition(t, "Claim")
      /\ UNCHANGED merged
  BY DEF TickClaims, TickAt, CurInHand, InHandPc, TickState, InClaimPass
<1>2. \A u \in Tasks \ {t} : task'[u] = task[u]
  BY <1>1, TransitionRow
<1>3. CASE ~CanMove(t, "Claim")
  <2>1. task'[t].status = task[t].status
    BY <1>1, <1>3, TransitionRow
  <2> QED BY <1>2, <2>1, PhaseByStatus
<1>4. CASE CanMove(t, "Claim")
  <2>1. task[t].status = "ready" /\ task'[t].status = "running"
    <3>1. "Claim" \in Kind /\ Target["Claim"] = "running"
      BY DEF Target, Kind
    <3>2. task[t].status = "ready"
      BY <1>4, <3>1, LegalFrom DEF CanMove, StatusOf
    <3>3. task'[t].status = "running"
      BY <1>1, <1>4, <3>1, TransitionRow
    <3> QED BY <3>2, <3>3
  <2>2. phase[t] = "waiting" /\ phase' = [phase EXCEPT ![t] = "underway"]
    <3>1. phase[t] = PhaseOf("ready")
      BY <1>1, <2>1, PhaseByStatus
    <3>2. phase' = [phase EXCEPT ![t] = PhaseOf("running")]
      BY <1>1, <1>2, <2>1, PhaseByStatus
    <3> QED BY <3>1, <3>2, PhaseTable
  <2>3. Deps[t] \subseteq merged
    BY <1>1, <2>1, DoneDepsLanded DEF OrderInv, DepsBeforeWork, WithStatus, StatusOf
  <2>4. Cardinality({u \in Tasks : phase[u] = "underway"}) < Concurrency
    <3>1. {u \in Tasks : phase[u] = "underway"} = InFlight
      <4>1. \A u \in Tasks : task[u].status \in Status
        BY DEF TaskRow
      <4> QED BY <4>1, PhaseByStatus DEF PhaseOf, InFlight, InFlightStatus, WithStatus, StatusOf, Status
    <3>2. Cardinality(InFlight) + Cardinality(tick.todo) <= Concurrency
      BY <1>1 DEF BudgetInv
    <3>3. Cardinality(tick.todo) \in Nat /\ Cardinality(tick.todo) >= 1
      <4>1. tick.todo \in SUBSET Tasks
        BY DEF TickState
      <4> HIDE DEF TInv, TypeOK
      <4>2. /\ Cardinality(tick.todo) \in Nat /\ Cardinality(tick.todo \ {t}) \in Nat
            /\ Cardinality(tick.todo \ {t}) = Cardinality(tick.todo) - 1
        BY <1>1, <4>1, TodoShrinks
      <4> QED BY <4>2
    <3>4. Cardinality(InFlight) \in Nat /\ Concurrency \in Nat
      BY StatusSetsFinite DEF InFlight, BoardAssumption
    <3> HIDE DEF TInv, TypeOK
    <3>5. Cardinality(InFlight) < Concurrency
      BY <3>2, <3>3, <3>4
    <3> QED BY <3>1, <3>5
  <2>5. t \in Tasks /\ UNCHANGED merged
    BY <1>1
  <2> HIDE DEF TInv, TypeOK, t
  <2>6. P!Begin(t)
    BY <2>2, <2>3, <2>4, <2>5, PlanCounts DEF P!Begin, P!Becomes
  <2> QED BY <2>5, <2>6 DEF P!Next
<1> QED BY <1>3, <1>4

\* A drive loop's gate changes nothing, its record finishes what has landed,
\* and what it lands came after its dependencies.
LEMMA LoopFollowsPlan ==
  ASSUME BoardAssumption, TInv, DrivenOnce, LandInv, OrderInv,
         NEW t \in Tasks, NEW k \in Copy,
         LoopGates(t, k) \/ LoopRecords(t, k) \/ LoopLands(t, k)
  PROVE  P!Next \/ UNCHANGED <<phase, merged>>
<1> USE DEF TInv, TypeOK
<1>1. CASE LoopGates(t, k)
  <2>1. /\ \A u \in Tasks \ {t} : task'[u] = task[u]
        /\ CanMove(t, "Gate") => task'[t].status = "gating" /\ task[t].status = "running"
        /\ ~CanMove(t, "Gate") => task'[t].status = task[t].status
    BY <1>1, TransitionRow, LegalFrom DEF LoopGates, CanMove, StatusOf, Target, Kind
  <2>2. PhaseOf("gating") = PhaseOf("running")
    BY DEF PhaseOf, InFlightStatus
  <2> QED BY <1>1, <2>1, <2>2, PhaseByStatus DEF LoopGates
<1>2. CASE LoopRecords(t, k)
  <2>1. /\ \A u \in Tasks \ {t} : task'[u] = task[u]
        /\ CanMove(t, "Done") => task'[t].status = "done" /\ task[t].status = "gating"
        /\ ~CanMove(t, "Done") => task'[t].status = task[t].status
    BY <1>2, TransitionRow, LegalFrom DEF LoopRecords, CanMove, StatusOf, Target, Kind
  <2>2. PhaseOf("gating") = "underway" /\ PhaseOf("done") = "done"
    BY DEF PhaseOf, InFlightStatus
  <2>3. UNCHANGED merged
    BY <1>2 DEF LoopRecords
  <2>4. CASE CanMove(t, "Done")
    <3>1. phase[t] = "underway" /\ phase' = [phase EXCEPT ![t] = "done"]
      BY <2>1, <2>2, <2>4, PhaseByStatus
    <3>2. t \in merged
      BY <1>2, <2>1, <2>4 DEF LoopRecords, LandInv, RecordsWhatLanded, WithStatus, StatusOf
    <3> QED BY <2>3, <3>1, <3>2 DEF P!Next, P!Finish, P!Becomes
  <2>5. CASE ~CanMove(t, "Done")
    BY <2>1, <2>3, <2>5, PhaseByStatus
  <2> QED BY <2>4, <2>5
<1>3. CASE LoopLands(t, k)
  <2>1. UNCHANGED phase /\ (merged' = merged \/ merged' = merged \cup {t})
    BY <1>3, PhaseByStatus DEF LoopLands
  <2>2. t \in driving
    BY <1>3 DEF LoopLands, LoopAt, LoopActive, DrivenOnce
  <2>3. Deps[t] \subseteq merged
    BY <2>2, DoneDepsLanded DEF OrderInv
  <2> QED BY <2>1, <2>3 DEF P!Next, P!Land
<1> QED BY <1>1, <1>2, <1>3

\* Every step of the daemon is a step of the plan or changes nothing in it.
LEMMA StepsFollowPlan ==
  ASSUME BoardAssumption, TInv, DrivenOnce, LandInv, BudgetInv, OrderInv, OrderedRoutes,
         Ops \cap {"Claim", "Gate", "Done"} = {}, [Next]_vars
  PROVE  P!Next \/ UNCHANGED <<phase, merged>>
<1>1. CASE \E t \in Tasks, k \in Copy :
             LoopGates(t, k) \/ LoopRecords(t, k) \/ LoopLands(t, k)
  BY <1>1, LoopFollowsPlan
<1>2. CASE ~\E t \in Tasks, k \in Copy :
              LoopGates(t, k) \/ LoopRecords(t, k) \/ LoopLands(t, k)
  <2>1. UNCHANGED merged
    BY <1>2, LandingsStay
  <2>2. CASE TickClaims
    BY <2>1, <2>2, ClaimFollowsPlan
  <2>3. CASE \E t \in Tasks, kind \in Tame : Timely(t, kind) /\ Transition(t, kind)
    BY <2>1, <2>3, TameFollowsPlan
  <2>4. CASE UNCHANGED task \/ \E t \in Tasks : BumpRetries(t)
    <3>1. \A u \in Tasks : task'[u].status = task[u].status
      BY <2>4, BumpRow DEF TInv, TypeOK
    <3> QED BY <2>1, <3>1, PhaseByStatus
  <2> QED BY <1>2, <2>2, <2>3, <2>4, TimelyWrites
<1> QED BY <1>1, <1>2

\* The daemon implements the plan: work begins within the budget and after
\* its dependencies have landed, done has landed and is final, over every
\* crash, kill, start, stop and cancel and in any interleaving. Left out are
\* the requests that take landings back (the resets) and those that write a
\* status the scheduler keeps for itself.
THEOREM ImplementsPlan ==
  ASSUME OrderedRoutes, Ops \cap {"Claim", "Gate", "Done"} = {}
  PROVE  Spec => FollowsPlan
<1>1. Init => P!Init
  <2>1. PhaseOf("pending") = "waiting"
    BY PhaseTable
  <2>2. Init => phase = [t \in Tasks |-> "waiting"] /\ merged = {}
    BY <2>1, PhaseByStatus DEF Init
  <2> QED BY <2>2 DEF P!Init
<1>2. TInv /\ DrivenOnce /\ LandInv /\ BudgetInv /\ OrderInv /\ [Next]_vars
        => [P!Next]_<<phase, merged>>
  BY StepsFollowPlan, BoardAssumption
<1>3. ClosedRoutes /\ "Claim" \notin Ops
  BY DEF ClosedRoutes
<1> QED BY <1>1, <1>2, <1>3, TInvInductive, DrivenInductive, LandInductive,
           BudgetInductive, OrderInductive, PTL DEF Spec, FollowsPlan, P!Spec
============================================================================
