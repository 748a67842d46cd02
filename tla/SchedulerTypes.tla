-------------------------- MODULE SchedulerTypes --------------------------
(***************************************************************************)
(* Theorems about the scheduler, first part: every variable keeps to its   *)
(* type, the tick's task in hand is one it still has to handle, and no     *)
(* task ever has two drive loops.                                          *)
(***************************************************************************)
EXTENDS Scheduler, TLAPS, FiniteSetTheorems

\* While the tick is busy with one task, that task heads what it has to do.
InHandPc == {"spawn", "claim", "block", "bump", "revive"}
CurInHand == tick.pc \in InHandPc => tick.cur \in tick.todo

\* A request under way has a verb, and only a workflow verb lists tasks.
KnownVerb ==
  /\ oper.pc = "list" => oper.op \in RunOp
  /\ oper.pc = "each" => oper.op \in RunOp \cup TaskOp

TInv == TypeOK /\ CurInHand /\ KnownVerb
----------------------------------------------------------------------------
(* Lemmas about the helpers.                                               *)

\* A legal transition targets a status (transition.rs, Transition::target).
LEMMA LegalTarget ==
  ASSUME NEW s, NEW kind, Legal(s, kind)
  PROVE  Target[kind] \in Status
<1>1. CASE kind = "ExternalDone"
  BY <1>1 DEF Target, Kind, Status
<1>2. CASE kind # "ExternalDone"
  BY <1>2 DEF Legal, CanTransition, Edges, Status
<1> QED BY <1>1, <1>2

\* Whatever is asked of a task row, it stays a task row (transition_task).
LEMMA TransitionType ==
  ASSUME task \in [Tasks -> TaskRow], NEW t \in Tasks, NEW kind,
         Transition(t, kind)
  PROVE  task' \in [Tasks -> TaskRow]
BY LegalTarget DEF Transition, CanMove, StatusOf, TaskRow

\* Counting a retry leaves a task row (bump_retry_count).
LEMMA BumpType ==
  ASSUME task \in [Tasks -> TaskRow], NEW t \in Tasks, BumpRetries(t)
  PROVE  task' \in [Tasks -> TaskRow]
<1> DEFINE row == [task[t] EXCEPT !.retries = task[t].retries + 1]
<1>1. row \in TaskRow
  <2>1. task[t] \in TaskRow
    OBVIOUS
  <2> QED BY <2>1 DEF TaskRow
<1>2. task' = [task EXCEPT ![t] = row]
  BY DEF BumpRetries
<1> QED BY <1>1, <1>2

\* A reset leaves a task row too (reset_task).
LEMMA ResetType ==
  ASSUME task \in [Tasks -> TaskRow], merged \subseteq Tasks, beating \subseteq Tasks,
         NEW t \in Tasks, Reset(t)
  PROVE  /\ task' \in [Tasks -> TaskRow]
         /\ merged' \subseteq Tasks
         /\ beating' \subseteq Tasks
BY DEF Reset, TaskRow, Status

\* The way into each status: running from ready, gating from running and, by
\* the Done verb, done from gating; blocked leads to ready only (status.rs).
LEMMA LegalFrom ==
  ASSUME NEW s, NEW kind \in Kind, Legal(s, kind)
  PROVE  /\ Target[kind] = "running" => s = "ready" /\ kind = "Claim"
         /\ Target[kind] = "gating" => s = "running" /\ kind = "Gate"
         /\ kind = "Done" => s = "gating"
         /\ kind # "ExternalDone" => s # "done"
BY DEF Legal, CanTransition, Edges, Target, Kind

\* What each write of a task row changes (transition_task, bump_retry_count,
\* reset_task).
LEMMA TransitionRow ==
  ASSUME task \in [Tasks -> TaskRow], NEW t \in Tasks, NEW kind, Transition(t, kind)
  PROVE  /\ \A u \in Tasks \ {t} : task'[u] = task[u]
         /\ task'[t].retries = task[t].retries
         /\ CanMove(t, kind) => task'[t].status = Target[kind]
         /\ ~CanMove(t, kind) => task'[t].status = task[t].status
<1>1. task[t] \in TaskRow
  OBVIOUS
<1> QED BY <1>1 DEF Transition, TaskRow

\* A bump counts one retry and leaves the rest of the board. (bump_retry_count)
LEMMA BumpRow ==
  ASSUME task \in [Tasks -> TaskRow], NEW t \in Tasks, BumpRetries(t)
  PROVE  /\ \A u \in Tasks \ {t} : task'[u] = task[u]
         /\ task'[t].retries = task[t].retries + 1
         /\ task'[t].status = task[t].status
<1>1. task[t] \in TaskRow
  OBVIOUS
<1> QED BY <1>1 DEF BumpRetries, TaskRow

\* A reset takes one task back to pending and forgets its retries. (reset_task)
LEMMA ResetRow ==
  ASSUME task \in [Tasks -> TaskRow], NEW t \in Tasks, Reset(t)
  PROVE  /\ \A u \in Tasks \ {t} : task'[u] = task[u]
         /\ task'[t].retries = 0
         /\ task'[t].status = "pending"
BY DEF Reset, TaskRow

\* The tasks of some status are finitely many (list_by_status).
LEMMA StatusSetsFinite ==
  ASSUME BoardAssumption, NEW S
  PROVE  /\ IsFiniteSet(WithStatus(S))
         /\ Cardinality(WithStatus(S)) \in Nat
<1>1. WithStatus(S) \in SUBSET Tasks
  BY DEF WithStatus
<1> QED BY <1>1, FS_Subset, FS_CardinalityType DEF BoardAssumption

\* Killing, moving and dropping agents keeps the table a table (hcom).
LEMMA AgentsType ==
  ASSUME agents \in [Tasks -> [AgentState -> Nat]], NEW t \in Tasks
  PROVE  /\ KillTag(t) => agents' \in [Tasks -> [AgentState -> Nat]]
         /\ \A s, u \in AgentState :
              agents[t][s] > 0 /\ s # u /\ AgentMoves(t, s, u)
                => agents' \in [Tasks -> [AgentState -> Nat]]
         /\ \A s \in AgentState :
              agents[t][s] > 0 /\ AgentLeaves(t, s)
                => agents' \in [Tasks -> [AgentState -> Nat]]
<1>1. KillTag(t) => agents' \in [Tasks -> [AgentState -> Nat]]
  BY DEF KillTag, NoAgents
<1>2. ASSUME NEW s \in AgentState, NEW u \in AgentState, agents[t][s] > 0, s # u,
             AgentMoves(t, s, u)
      PROVE  agents' \in [Tasks -> [AgentState -> Nat]]
  BY <1>2 DEF AgentMoves
<1>3. ASSUME NEW s \in AgentState, agents[t][s] > 0, AgentLeaves(t, s)
      PROVE  agents' \in [Tasks -> [AgentState -> Nat]]
  BY <1>3 DEF AgentLeaves
<1> QED BY <1>1, <1>2, <1>3

\* A drive loop's counter moves within its type (finish.rs).
LEMMA LoopType ==
  ASSUME loop \in [Tasks -> [Copy -> LoopState]], NEW t \in Tasks, NEW k \in Copy
  PROVE  /\ \A pc \in LoopPc : LoopGoes(t, k, pc) =>
              loop' \in [Tasks -> [Copy -> LoopState]]
         /\ loop' = [loop EXCEPT ![t][k] = NoLoop] =>
              loop' \in [Tasks -> [Copy -> LoopState]]
         /\ loop' = [loop EXCEPT ![t][k].seen = TRUE] =>
              loop' \in [Tasks -> [Copy -> LoopState]]
<1>1. ASSUME NEW l \in LoopState, loop' = [loop EXCEPT ![t][k] = l]
      PROVE  loop' \in [Tasks -> [Copy -> LoopState]]
  BY <1>1
<1>2. ASSUME NEW pc \in LoopPc, LoopGoes(t, k, pc)
      PROVE  loop' \in [Tasks -> [Copy -> LoopState]]
  <2>1. [pc |-> pc, seen |-> FALSE] \in LoopState
    BY DEF LoopState
  <2> QED BY <1>1, <1>2, <2>1 DEF LoopGoes
<1>3. NoLoop \in LoopState
  BY DEF NoLoop, LoopState, LoopPc
<1>4. ASSUME loop' = [loop EXCEPT ![t][k].seen = TRUE]
      PROVE  loop' \in [Tasks -> [Copy -> LoopState]]
  <2>0. loop[t][k] \in LoopState
    OBVIOUS
  <2>1. [loop[t][k] EXCEPT !.seen = TRUE] \in LoopState
    BY <2>0 DEF LoopState
  <2>2. loop' = [loop EXCEPT ![t][k] = [loop[t][k] EXCEPT !.seen = TRUE]]
    BY <1>4
  <2> QED BY <1>1, <2>1, <2>2
<1> QED BY <1>1, <1>2, <1>3, <1>4

\* spawn_resume adds a task to Driving and a loop to the loops (finish.rs).
LEMMA SpawnResumeType ==
  ASSUME loop \in [Tasks -> [Copy -> LoopState]], driving \subseteq Tasks,
         NEW t \in Tasks, NEW s, SpawnResume(t, s)
  PROVE  /\ loop' \in [Tasks -> [Copy -> LoopState]]
         /\ driving' \subseteq Tasks
BY DEF SpawnResume, LoopState, LoopPc, Copy

\* The tick's locals after a listing or a task done with keep to their type
\* (tick.rs and reclaim.rs).
LEMMA TickType ==
  ASSUME NEW s \in TickState, tick \in TickState, NEW todo \in SUBSET Tasks
  PROVE  /\ Claiming(s, todo) \in TickState
         /\ Claiming(s, todo).pc \in {"idle", "consider"}
         /\ Reconciling(todo) \in TickState
         /\ Reconciling(todo).pc \in {"reconcile", "sweep", "reap"}
         /\ Reattaching(todo) \in TickState
         /\ Reattaching(todo).pc \in {"reattach", "orphans", "excluded"}
         /\ Promoting(todo) \in TickState
         /\ Promoting(todo).pc \in {"countRunning", "promote"}
<1>1. NoTick \in TickState /\ NoTick.pc = "idle"
  BY DEF NoTick, TickState, TickPc
<1>2. Claiming(s, todo) \in TickState /\ Claiming(s, todo).pc \in {"idle", "consider"}
  BY <1>1 DEF Claiming, TickState, TickPc
<1>3. Reconciling(todo) \in TickState /\ Reconciling(todo).pc \in {"reconcile", "sweep", "reap"}
  BY DEF Reconciling, TickState, TickPc
<1>4. /\ Reattaching(todo) \in TickState
      /\ Reattaching(todo).pc \in {"reattach", "orphans", "excluded"}
  BY DEF Reattaching, TickState, TickPc
<1>5. Promoting(todo) \in TickState /\ Promoting(todo).pc \in {"countRunning", "promote"}
  BY DEF Promoting, TickState, TickPc
<1> QED BY <1>2, <1>3, <1>4, <1>5
----------------------------------------------------------------------------
(* Every step keeps the types.                                             *)

\* What a tick finds, counts, claims and recovers is of its type, and the
\* task it is busy with is one it has still to handle (tick.rs, reclaim.rs).
LEMMA TickKeepsTypes ==
  ASSUME BoardAssumption, TInv, TickStep
  PROVE  TInv'
<1> USE DEF TInv, TypeOK, KnownVerb
<1>a. ASSUME NEW S PROVE WithStatus(S) \in SUBSET Tasks
  BY DEF WithStatus
<1>b. \A S \in SUBSET Tasks : Heads(S) \subseteq S
  BY DEF Heads
<1>c. tick.todo \in SUBSET Tasks /\ \A t : tick.todo \ {t} \in SUBSET Tasks
  BY DEF TickState
<1>d. tick.cur \in Tasks \cup {NoTask}
  BY DEF TickState
<1>e. ASSUME TickReads, tick' \in TickState, tick'.pc \notin InHandPc
      PROVE  TInv'
  BY <1>e DEF TickReads, CurInHand
<1>1. CASE TickBegins
  <2>1. \A L, W \in SUBSET Tasks :
          /\ [tick EXCEPT !.pc = "sweep", !.live = L, !.wedged = W] \in TickState
          /\ [tick EXCEPT !.pc = "sweep", !.live = L, !.wedged = W].pc = "sweep"
    BY DEF TickState, TickPc
  <2>2. [tick EXCEPT !.pc = "orphans"] \in TickState
        /\ [tick EXCEPT !.pc = "orphans"].pc = "orphans"
    BY DEF TickState, TickPc
  <2>3. \/ tick' = [tick EXCEPT !.pc = "orphans"]
        \/ \E L, W \in SUBSET Tasks :
             tick' = [tick EXCEPT !.pc = "sweep", !.live = L, !.wedged = W]
    BY <1>1, Zenon DEF TickBegins, TickGoes
  <2>4. tick' \in TickState /\ tick'.pc \in {"sweep", "orphans"}
    <3>1. CASE tick' = [tick EXCEPT !.pc = "orphans"]
      BY <2>2, <3>1
    <3>2. CASE \E L, W \in SUBSET Tasks :
                 tick' = [tick EXCEPT !.pc = "sweep", !.live = L, !.wedged = W]
      <4>1. PICK L \in SUBSET Tasks, W \in SUBSET Tasks :
              tick' = [tick EXCEPT !.pc = "sweep", !.live = L, !.wedged = W]
        BY <3>2
      <4> QED BY <2>1, <4>1
    <3> QED BY <2>3, <3>1, <3>2
  <2> QED BY <2>4, <1>1, <1>e DEF TickBegins, InHandPc
<1>2. CASE TickSweeps
  <2>1. tick' \in TickState /\ tick'.pc \in {"reconcile", "sweep", "reap"}
    BY <1>2, <1>a, TickType DEF TickSweeps
  <2> QED BY <2>1, <1>2, <1>e DEF TickSweeps, InHandPc
<1>3. CASE TickKillsWedged
  <2>1. PICK t \in Heads(tick.todo) \cap tick.wedged :
          /\ KillTag(t) \/ UNCHANGED agents
          /\ tick' = [tick EXCEPT !.pc = "block", !.cur = t]
    BY <1>3 DEF TickKillsWedged
  <2>2. t \in Tasks /\ t \in tick.todo
    BY <2>1, <1>b, <1>c
  <2>3. tick' \in TickState /\ CurInHand'
    BY <2>1, <2>2 DEF TickState, TickPc, CurInHand
  <2>4. agents' \in [Tasks -> [AgentState -> Nat]]
    BY <2>1, <2>2, AgentsType
  <2> QED BY <1>3, <2>3, <2>4 DEF TickKillsWedged
<1>4. CASE TickReclaims
  <2>1. PICK t \in Heads(tick.todo) \ tick.wedged :
          /\ Transition(t, "Reclaim")
          /\ tick' = Reconciling(tick.todo \ {t})
    BY <1>4 DEF TickReclaims
  <2>2. t \in Tasks
    BY <2>1, <1>b, <1>c
  <2>3. tick' \in TickState /\ tick'.pc \in {"reconcile", "sweep", "reap"}
    BY <2>1, <1>c, TickType
  <2>4. task' \in [Tasks -> TaskRow]
    BY <2>1, <2>2, TransitionType
  <2> QED BY <1>4, <2>3, <2>4 DEF TickReclaims, TickWrites, CurInHand, InHandPc
<1>5. CASE TickReaps
  <2>1. agents' \in [Tasks -> [AgentState -> Nat]]
    BY <1>5 DEF TickReaps, NoAgents
  <2>2. tick' \in TickState /\ CurInHand'
    BY <1>5 DEF TickReaps, TickState, TickPc, CurInHand, InHandPc
  <2> QED BY <1>5, <2>1, <2>2 DEF TickReaps
<1>6. CASE TickListsOrphans
  <2>1. tick' \in TickState /\ tick'.pc \in {"reattach", "orphans", "excluded"}
    BY <1>6, <1>a, TickType DEF TickListsOrphans
  <2> QED BY <2>1, <1>6, <1>e DEF TickListsOrphans, InHandPc
<1>7. CASE TickReattaches
  <2>1. PICK t \in Heads(tick.todo) :
          /\ SpawnResume(t, tick.pass)
          /\ tick' = Reattaching(tick.todo \ {t})
    BY <1>7 DEF TickReattaches
  <2>2. t \in Tasks
    BY <2>1, <1>b, <1>c
  <2>3. tick' \in TickState /\ tick'.pc \in {"reattach", "orphans", "excluded"}
    BY <2>1, <1>c, TickType
  <2>4. loop' \in [Tasks -> [Copy -> LoopState]] /\ driving' \subseteq Tasks
    BY <2>1, <2>2, SpawnResumeType
  <2> QED BY <1>7, <2>3, <2>4 DEF TickReattaches, CurInHand, InHandPc
<1>8. CASE TickExcludesRuns
  <2>1. tick' \in TickState /\ tick'.pc \notin InHandPc
    BY <1>8 DEF TickExcludesRuns, TickState, TickPc, InHandPc
  <2> QED BY <2>1, <1>8, <1>e DEF TickExcludesRuns
<1>9. CASE TickFindsReady
  <2>1. tick' \in TickState /\ tick'.pc \in {"countRunning", "promote"}
    BY <1>9, <1>a, TickType DEF TickFindsReady
  <2> QED BY <2>1, <1>9, <1>e DEF TickFindsReady, InHandPc
<1>10. CASE TickPromotes
  <2>1. PICK t \in Heads(tick.todo) :
          /\ Transition(t, "Ready")
          /\ tick' = Promoting(tick.todo \ {t})
    BY <1>10 DEF TickPromotes
  <2>2. t \in Tasks
    BY <2>1, <1>b, <1>c
  <2>3. tick' \in TickState /\ tick'.pc \in {"countRunning", "promote"}
    BY <2>1, <1>c, TickType
  <2>4. task' \in [Tasks -> TaskRow]
    BY <2>1, <2>2, TransitionType
  <2> QED BY <1>10, <2>3, <2>4 DEF TickPromotes, TickWrites, CurInHand, InHandPc
<1>11. CASE TickCountsRunning
  <2>1. tick' \in TickState /\ tick'.pc \notin InHandPc
    BY <1>11, StatusSetsFinite DEF TickCountsRunning, TickState, TickPc, InHandPc
  <2> QED BY <2>1, <1>11, <1>e DEF TickCountsRunning
<1>12. CASE TickCountsGating
  <2>1. NoTick \in TickState /\ NoTick.pc = "idle"
    BY DEF NoTick, TickState, TickPc
  <2> DEFINE used == tick.slots + Cardinality(WithStatus({"gating"}))
             s == [tick EXCEPT !.pc = "listReady", !.slots = Concurrency - used]
  <2>2. used \in Nat /\ Concurrency \in Nat
    BY StatusSetsFinite DEF TickState, BoardAssumption
  <2>3. ~(used >= Concurrency) => s \in TickState /\ s.pc = "listReady"
    <3>1. ~(used >= Concurrency) => Concurrency - used \in Nat
      BY <2>2
    <3>2. \A n \in Nat : [tick EXCEPT !.pc = "listReady", !.slots = n] \in TickState
      BY DEF TickState, TickPc
    <3>3. s.pc = "listReady"
      BY DEF TickState
    <3> QED BY <3>1, <3>2, <3>3
  <2>4. tick' = IF used >= Concurrency THEN NoTick ELSE s
    BY <1>12 DEF TickCountsGating
  <2>5. tick' \in TickState /\ tick'.pc \notin InHandPc
    BY <2>1, <2>3, <2>4 DEF InHandPc
  <2> QED BY <2>5, <1>12, <1>e DEF TickCountsGating
<1>13. CASE TickListsReady
  <2>1. PICK X \in FairTake(WithStatus({"ready"}), tick.slots) :
          tick' = [tick EXCEPT !.pc = "listRunning", !.todo = X, !.slots = 0]
    BY <1>13 DEF TickListsReady
  <2>2. X \in SUBSET Tasks
    BY <2>1, <1>a DEF FairTake
  <2>3. tick' \in TickState /\ tick'.pc \notin InHandPc
    BY <2>1, <2>2 DEF TickState, TickPc, InHandPc
  <2> QED BY <2>3, <1>13, <1>e DEF TickListsReady
<1>20. CASE TickListsRunning
  <2> DEFINE held == {RunOf[t] : t \in WithStatus({"running"})} \ {NoRun}
             s == [tick EXCEPT !.busy = held]
  <2>1. tick' = Claiming(s, tick.todo)
    BY <1>20 DEF TickListsRunning
  <2>2. held \in SUBSET Runs
    BY <1>a DEF BoardAssumption
  <2>3. s \in TickState
    BY <2>2 DEF TickState
  <2>4. tick' \in TickState /\ tick'.pc \in {"idle", "consider"}
    <3>1. tick.todo \in SUBSET Tasks
      BY DEF TickState
    <3> QED BY <3>1, <2>1, <2>3, TickType
  <2> QED BY <2>4, <1>20, <1>e DEF TickListsRunning, InHandPc
<1>14. CASE TickConsiders
  <2>1. PICK t \in tick.todo :
          \/ tick' = [RunFor(RunOf[t]) EXCEPT !.pc = "spawn", !.cur = t]
          \/ tick' = Claiming(RunFor(RunOf[t]), tick.todo \ {t})
    BY <1>14 DEF TickConsiders
  <2>2. RunOf[t] \in Runs \cup {NoRun}
    BY <2>1, <1>c DEF BoardAssumption
  <2>3. RunFor(RunOf[t]) \in TickState /\ RunFor(RunOf[t]).todo = tick.todo
    BY <2>2 DEF RunFor, TickState
  <2>4. CASE tick' = [RunFor(RunOf[t]) EXCEPT !.pc = "spawn", !.cur = t]
    <3>1. tick' \in TickState /\ tick'.cur \in tick'.todo
      BY <2>1, <2>3, <2>4, <1>c DEF TickState, TickPc
    <3> QED BY <3>1, <1>14 DEF TickConsiders, TickReads, CurInHand
  <2>5. CASE tick' = Claiming(RunFor(RunOf[t]), tick.todo \ {t})
    <3>1. tick' \in TickState /\ tick'.pc \in {"idle", "consider"}
      BY <2>3, <2>5, <1>c, TickType
    <3> QED BY <3>1, <1>14, <1>e DEF TickConsiders, InHandPc
  <2> QED BY <2>1, <2>4, <2>5
<1>15. CASE TickSpawns
  <2>1. tick.cur \in tick.todo /\ tick.cur \in Tasks
    BY <1>15, <1>c DEF TickSpawns, TickAt, CurInHand, InHandPc
  <2>0. \A pc \in {"claim", "block"} :
          /\ [tick EXCEPT !.pc = pc] \in TickState
          /\ [tick EXCEPT !.pc = pc].cur = tick.cur
          /\ [tick EXCEPT !.pc = pc].todo = tick.todo
    BY DEF TickState, TickPc
  <2>2. tick' \in TickState /\ CurInHand'
    BY <1>15, <2>0, <2>1 DEF TickSpawns, TickGoes, CurInHand
  <2>3. agents' \in [Tasks -> [AgentState -> Nat]]
    <3>1. agents[tick.cur]["launching"] + 1 \in Nat /\ "launching" \in AgentState
      BY <2>1 DEF AgentState
    <3> DEFINE row == [agents[tick.cur] EXCEPT !["launching"] = @ + 1]
    <3>2. row \in [AgentState -> Nat]
      BY <2>1, <3>1
    <3>3. agents' \in {agents, [agents EXCEPT ![tick.cur] = row]}
      BY <1>15 DEF TickSpawns
    <3> QED BY <2>1, <3>2, <3>3
  <2> QED BY <1>15, <2>2, <2>3 DEF TickSpawns
<1>16. CASE TickClaims
  <2>1. tick.cur \in Tasks
    BY <1>16, <1>c DEF TickClaims, TickAt, CurInHand, InHandPc
  <2>2. task' \in [Tasks -> TaskRow]
    BY <1>16, <2>1, TransitionType DEF TickClaims
  <2>3. loop' \in [Tasks -> [Copy -> LoopState]] /\ driving' \subseteq Tasks
    BY <1>16, <2>1, SpawnResumeType DEF TickClaims
  <2> DEFINE s == [tick EXCEPT !.busy = @ \cup ({RunOf[tick.cur]} \ {NoRun})]
  <2>4. s \in TickState
    BY <2>1 DEF TickState, BoardAssumption
  <2>5. \/ tick' = Claiming(s, tick.todo \ {tick.cur})
        \/ tick' = Claiming(tick, tick.todo \ {tick.cur})
    BY <1>16 DEF TickClaims
  <2>6. tick' \in TickState /\ tick'.pc \in {"idle", "consider"}
    BY <2>4, <2>5, <1>c, TickType
  <2> QED BY <1>16, <2>2, <2>3, <2>6 DEF TickClaims, CurInHand, InHandPc
<1>f. TickGoesOn \in TickState
      /\ TickGoesOn.pc \in {"idle", "consider", "reconcile", "sweep", "reap"}
  BY <1>c, TickType DEF TickGoesOn
<1>17. CASE TickBlocks
  <2>1. tick.cur \in Tasks /\ tick.cur \in tick.todo
    BY <1>17, <1>c DEF TickBlocks, TickAt, CurInHand, InHandPc
  <2>2. task' \in [Tasks -> TaskRow]
    BY <1>17, <2>1, TransitionType DEF TickBlocks
  <2>3. CASE tick' = TickGoesOn
    BY <1>17, <1>f, <2>2, <2>3 DEF TickBlocks, TickWrites, CurInHand, InHandPc
  <2>4. CASE tick' = [tick EXCEPT !.pc = "bump"]
    <3>1. tick' \in TickState /\ CurInHand'
      BY <2>1, <2>4 DEF TickState, TickPc, CurInHand
    <3> QED BY <1>17, <2>2, <3>1 DEF TickBlocks, TickWrites
  <2> QED BY <1>17, <2>3, <2>4 DEF TickBlocks
<1>18. CASE TickBumps
  <2>1. tick.cur \in Tasks /\ tick.cur \in tick.todo
    BY <1>18, <1>c DEF TickBumps, TickAt, CurInHand, InHandPc
  <2>2. task' \in [Tasks -> TaskRow]
    BY <1>18, <2>1, BumpType DEF TickBumps
  <2>3. tick' \in TickState /\ CurInHand'
    BY <1>18, <2>1 DEF TickBumps, TickGoes, TickState, TickPc, CurInHand
  <2> QED BY <1>18, <2>2, <2>3 DEF TickBumps, TickWrites
<1>19. CASE TickRevives
  <2>1. tick.cur \in Tasks
    BY <1>19, <1>c DEF TickRevives, TickAt, CurInHand, InHandPc
  <2>2. task' \in [Tasks -> TaskRow]
    BY <1>19, <2>1, TransitionType DEF TickRevives
  <2> QED BY <1>19, <1>f, <2>2 DEF TickRevives, TickWrites, CurInHand, InHandPc
<1> QED BY <1>1, <1>2, <1>3, <1>4, <1>5, <1>6, <1>7, <1>8, <1>9, <1>10, <1>11,
           <1>12, <1>13, <1>14, <1>15, <1>16, <1>17, <1>18, <1>19, <1>20 DEF TickStep

\* A drive loop moves its counter, its task's row and what has landed
\* (finish.rs, block.rs).
LEMMA LoopKeepsTypes ==
  ASSUME BoardAssumption, TInv, NEW t \in Tasks, NEW k \in Copy, LoopStep(t, k)
  PROVE  TInv'
<1> USE DEF TInv, TypeOK, KnownVerb
<1>1. LoopAlone
  BY DEF LoopStep, LoopPolls, LoopGivesUp, LoopGates, LoopChecks, LoopLands,
         LoopRecords, LoopBlocks, LoopBumps, LoopRevives, LoopExits
<1>2. task' \in [Tasks -> TaskRow]
  <2>1. \/ UNCHANGED task
        \/ BumpRetries(t)
        \/ \E kind \in Kind : Transition(t, kind)
    BY DEF LoopStep, LoopPolls, LoopGivesUp, LoopGates, LoopChecks, LoopLands,
           LoopRecords, LoopBlocks, LoopBumps, LoopRevives, LoopExits, Kind
  <2> QED BY <2>1, BumpType, TransitionType
<1>3. driving' \subseteq Tasks /\ merged' \subseteq Tasks
  BY DEF LoopStep, LoopPolls, LoopGivesUp, LoopGates, LoopChecks, LoopLands,
         LoopRecords, LoopBlocks, LoopBumps, LoopRevives, LoopExits
<1>4. loop' \in [Tasks -> [Copy -> LoopState]]
  <2>1. \/ \E pc \in LoopPc : LoopGoes(t, k, pc)
        \/ loop' = [loop EXCEPT ![t][k] = NoLoop]
        \/ loop' = [loop EXCEPT ![t][k].seen = TRUE]
    BY DEF LoopStep, LoopPolls, PollWorking, PollIdle, PollGone, LoopGivesUp,
           LoopGates, LoopChecks, LoopLands, LoopRecords, LoopBlocks, LoopBumps,
           LoopRevives, LoopExits, LoopPc, BlockThen
  <2> QED BY <2>1, LoopType
<1> QED BY <1>1, <1>2, <1>3, <1>4 DEF LoopAlone, CurInHand

\* An agent changes its own entry in hcom's table and, when it posts, the
\* counter of a loop that listens (hcom/events.rs, hcom/control.rs).
LEMMA AgentKeepsTypes ==
  ASSUME TInv, NEW t \in Tasks, AgentStep(t)
  PROVE  TInv'
<1> USE DEF TInv, TypeOK, KnownVerb
<1>1. AgentsOnly
  BY DEF AgentStep, AgentRegisters, AgentPosts, AgentParks, AgentWakes, AgentExits
<1>2. agents' \in [Tasks -> [AgentState -> Nat]]
  <2>1. \/ \E s, u \in AgentState : agents[t][s] > 0 /\ s # u /\ AgentMoves(t, s, u)
        \/ \E s \in AgentState : agents[t][s] > 0 /\ AgentLeaves(t, s)
    BY DEF AgentStep, AgentRegisters, AgentPosts, AgentParks, AgentWakes,
           AgentExits, AgentState
  <2> QED BY <2>1, AgentsType
<1>3. loop' \in [Tasks -> [Copy -> LoopState]]
  <2>1. \/ UNCHANGED loop
        \/ \E k \in Copy, pc \in LoopPc : LoopGoes(t, k, pc)
    BY DEF AgentStep, AgentRegisters, AgentPosts, AgentParks, AgentWakes,
           AgentExits, LoopPc
  <2> QED BY <2>1, LoopType
<1> QED BY <1>1, <1>2, <1>3 DEF AgentsOnly, CurInHand

\* A request changes rows, the agents it kills and what it has still to do
\* (the routes of lazybones-api).
LEMMA OperKeepsTypes ==
  ASSUME BoardAssumption, TInv,
         OperOpensRun \/ OperOpensTask \/ OperStep \/ OperMoves \/ Heartbeats
  PROVE  TInv'
<1> USE DEF TInv, TypeOK, KnownVerb
<1>a. OperWrites
  BY DEF OperOpensRun, OperOpensTask, OperStep, OperLists, OperKills, OperApplies,
         OperCloses, OperMoves, Heartbeats
<1>b. oper.todo \in SUBSET Tasks /\ oper.cut \in SUBSET Tasks
  BY DEF OperState
<1>c. NoOper \in OperState /\ NoOper.pc = "none"
  BY DEF NoOper, OperState
<1>d. ASSUME NEW todo \in SUBSET Tasks 
      PROVE  /\ Serving(todo) \in OperState
             /\ Serving(todo).pc # "list"
             /\ Serving(todo).pc = "each" => Serving(todo).op = oper.op
  BY <1>c DEF Serving, OperState, NoOper
<1>1. CASE OperOpensRun
  <2>1. PICK op \in Ops \cap RunOp, r \in Runs :
          /\ OpensRun(op, r)
          /\ oper' = [NoOper EXCEPT !.op = op, !.run = r, !.pc = "list"]
    BY <1>1 DEF OperOpensRun
  <2>2. oper' \in OperState /\ KnownVerb'
    BY <2>1, <1>c DEF OperState, NoOper
  <2>3. run' \in [Runs -> RunRow]
    <3>1. run[r] \in RunRow
      OBVIOUS
    <3>2. \A l \in {"active", "stopped"} : [run[r] EXCEPT !.lifecycle = l] \in RunRow
      BY <3>1 DEF RunRow
    <3>3. [run[r] EXCEPT !.started = TRUE] \in RunRow
      BY <3>1 DEF RunRow
    <3>4. run' \in {run, [run EXCEPT ![r] = [run[r] EXCEPT !.started = TRUE]],
                    [run EXCEPT ![r] = [run[r] EXCEPT !.lifecycle = "active"]],
                    [run EXCEPT ![r] = [run[r] EXCEPT !.lifecycle = "stopped"]]}
      BY <2>1 DEF OpensRun, SetLifecycle, RunOp
    <3> QED BY <3>2, <3>3, <3>4
  <2> QED BY <1>1, <1>a, <2>2, <2>3 DEF OperOpensRun, OperWrites, CurInHand
<1>2. CASE OperOpensTask
  <2>1. PICK op \in Ops \cap TaskOp, t \in Tasks, cut \in SUBSET Tasks :
          oper' = [NoOper EXCEPT !.op = op, !.pc = "each", !.todo = {t}, !.cut = cut]
    BY <1>2 DEF OperOpensTask
  <2>2. oper' \in OperState /\ oper'.pc = "each" /\ oper'.op = op
    BY <2>1, <1>c DEF OperState, NoOper
  <2> QED BY <1>2, <1>a, <2>2 DEF OperOpensTask, OperWrites, CurInHand
<1>3. CASE OperLists
  <2>1. Affected(oper.op, oper.run) \in SUBSET Tasks
    BY <1>3 DEF OperLists, Affected, StopLists, StopResetLists, ResumeLists,
                RestartLists, StartLists, Listed, TasksOf, RunOp
  <2>2. /\ oper' \in OperState /\ oper'.pc # "list"
        /\ oper'.pc = "each" => oper'.op = oper.op
    BY <1>3, <1>d, <2>1 DEF OperLists, OperState
  <2> QED BY <1>3, <1>a, <2>2 DEF OperLists, RunOp, OperWrites, CurInHand
<1>4. CASE OperKills
  <2>1. PICK t \in Heads(oper.todo) \cap oper.cut :
          /\ KillTag(t) \/ UNCHANGED agents
          /\ oper' = [oper EXCEPT !.cut = @ \ {t}]
    BY <1>4 DEF OperKills
  <2>2. oper' \in OperState /\ oper'.pc = "each" /\ oper'.op = oper.op
    BY <1>4, <2>1 DEF OperState, OperKills
  <2>3. agents' \in [Tasks -> [AgentState -> Nat]]
    BY <2>1, <1>b, AgentsType
  <2> QED BY <1>4, <1>a, <2>2, <2>3 DEF OperKills, OperWrites, CurInHand
<1>5. CASE OperApplies
  <2>1. PICK t \in Heads(oper.todo) \ oper.cut :
          /\ Apply(oper.op, t)
          /\ oper' = Serving(oper.todo \ {t})
    BY <1>5 DEF OperApplies
  <2>2. t \in Tasks
    BY <2>1, <1>b DEF Heads
  <2>3. /\ oper' \in OperState /\ oper'.pc # "list"
        /\ oper'.pc = "each" => oper'.op = oper.op
    BY <2>1, <1>b, <1>d
  <2>4. \/ Reset(t)
        \/ UNCHANGED <<beating, merged>> /\ \E kind : Transition(t, kind)
    BY <2>1 DEF Apply
  <2>5. /\ task' \in [Tasks -> TaskRow]
        /\ beating' \subseteq Tasks /\ merged' \subseteq Tasks
    BY <2>2, <2>4, ResetType, TransitionType
  <2> QED BY <1>5, <1>a, <2>3, <2>5 DEF OperApplies, OperWrites, CurInHand
<1>6. CASE OperCloses
  <2>1. run' \in [Runs -> RunRow]
    BY <1>6 DEF OperCloses, RunRow
  <2> QED BY <1>6, <1>a, <1>c, <2>1 DEF OperCloses, OperWrites, CurInHand
<1>7. CASE OperMoves
  <2>1. task' \in [Tasks -> TaskRow]
    BY <1>7, TransitionType DEF OperMoves
  <2> QED BY <1>7, <1>a, <2>1 DEF OperMoves, OperWrites, CurInHand
<1>8. CASE Heartbeats
  BY <1>8, <1>a DEF Heartbeats, OperWrites, CurInHand
<1> QED BY <1>1, <1>2, <1>3, <1>4, <1>5, <1>6, <1>7, <1>8 DEF OperStep

\* Between the death of a daemon and its next life only the crash count moves
\* up; what was in memory is gone (run.rs, run_with_ext).
LEMMA TimeKeepsTypes ==
  ASSUME BoardAssumption, TInv, HeartbeatStales \/ Crash
  PROVE  TInv'
<1> USE DEF TInv, TypeOK, KnownVerb
<1>1. CASE HeartbeatStales
  BY <1>1 DEF HeartbeatStales, CurInHand
<1>2. CASE Crash
  <2>1. tick' \in TickState /\ CurInHand'
    BY <1>2 DEF Crash, NoTick, TickState, TickPc, CurInHand, InHandPc
  <2>2. /\ loop' \in [Tasks -> [Copy -> LoopState]]
        /\ oper' \in OperState /\ oper'.pc = "none"
    BY <1>2 DEF Crash, NoLoop, LoopState, LoopPc, NoOper, OperState
  <2>3. crashes' \in 0..MaxCrashes
    BY <1>2 DEF Crash, BoardAssumption
  <2> QED BY <1>2, <2>1, <2>2, <2>3 DEF Crash
<1> QED BY <1>1, <1>2

\* TInv is inductive.
LEMMA TInvInductive == (Init => TInv) /\ (TInv /\ [Next]_vars => TInv')
<1>1. Init => TInv
  BY BoardAssumption
  DEF Init, TInv, TypeOK, CurInHand, KnownVerb, InHandPc, TaskRow, Status, RunRow, NoAgents,
      LoopState, LoopPc, NoLoop, TickState, TickPc, NoTick, OperState, NoOper
<1>2. TInv /\ [Next]_vars => TInv'
  <2> SUFFICES ASSUME TInv, [Next]_vars PROVE TInv'
    OBVIOUS
  <2>1. CASE UNCHANGED vars
    BY <2>1 DEF vars, TInv, TypeOK, CurInHand, KnownVerb
  <2>2. CASE Next
    BY <2>2, BoardAssumption, TickKeepsTypes, LoopKeepsTypes, AgentKeepsTypes,
       OperKeepsTypes, TimeKeepsTypes DEF Next
  <2> QED BY <2>1, <2>2
<1> QED BY <1>1, <1>2

\* Every variable keeps to its type whatever the tick, the loops, the agents,
\* the operators and the crashes do (all modules).
THEOREM TypeCorrect == Spec => []TypeOK
<1>1. TInv => TypeOK
  BY DEF TInv
<1> QED BY <1>1, TInvInductive, PTL DEF Spec
----------------------------------------------------------------------------
(* How the tick gets where it is.                                          *)

\* The tick gets to its bump from a block only, and to a re-attachment from
\* its listing or the one before (tick.rs).
LEMMA TickEnters ==
  ASSUME BoardAssumption, TInv, TickStep
  PROVE  /\ ~TickBlocks => tick'.pc # "bump"
         /\ ~TickListsOrphans /\ ~TickReattaches => tick'.pc # "reattach"
<1> USE DEF TInv, TypeOK
<1>a. \A t : tick.todo \ {t} \in SUBSET Tasks
  BY DEF TickState
<1>b. \A S : WithStatus(S) \in SUBSET Tasks
  BY DEF WithStatus
<1>c. \A pc, L, W :
        /\ [tick EXCEPT !.pc = pc].pc = pc
        /\ [tick EXCEPT !.pc = "sweep", !.live = L, !.wedged = W].pc = "sweep"
  BY DEF TickState
<1>1. CASE TickBegins
  BY <1>1, <1>c DEF TickBegins, TickGoes
<1>2. CASE TickKillsWedged \/ TickReaps \/ TickExcludesRuns \/ TickCountsRunning
  BY <1>2 DEF TickKillsWedged, TickReaps, TickExcludesRuns, TickCountsRunning, TickState
<1>3. CASE TickCountsGating
  <2>1. tick' = NoTick \/ \E n : tick' = [tick EXCEPT !.pc = "listReady", !.slots = n]
    BY <1>3 DEF TickCountsGating
  <2>2. NoTick.pc = "idle" /\ \A n : [tick EXCEPT !.pc = "listReady", !.slots = n].pc = "listReady"
    BY DEF TickState, NoTick
  <2>3. CASE tick' = NoTick
    BY <2>2, <2>3
  <2>4. CASE \E n : tick' = [tick EXCEPT !.pc = "listReady", !.slots = n]
    BY <2>2, <2>4
  <2> QED BY <2>1, <2>3, <2>4
<1>f. CASE TickSpawns \/ TickBumps
  BY <1>f, <1>c DEF TickSpawns, TickBumps, TickGoes
<1>d. \A todo \in SUBSET Tasks :
        /\ Reconciling(todo).pc \notin {"bump", "reattach"}
        /\ Reattaching(todo).pc # "bump"
        /\ Promoting(todo).pc \notin {"bump", "reattach"}
        /\ Claiming(tick, todo).pc \notin {"bump", "reattach"}
  BY TickType
<1>4. CASE TickSweeps \/ TickReclaims
  BY <1>4, <1>a, <1>b, <1>d DEF TickSweeps, TickReclaims
<1>5. CASE TickListsOrphans \/ TickReattaches
  BY <1>5, <1>a, <1>b, <1>d DEF TickListsOrphans, TickReattaches
<1>6. CASE TickFindsReady \/ TickPromotes
  BY <1>6, <1>a, <1>b, <1>d DEF TickFindsReady, TickPromotes
<1>7. CASE TickRevives
  BY <1>7, <1>a, <1>d DEF TickRevives, TickGoesOn
<1>e. \A s, todo : Claiming(s, todo).pc \in {"bump", "reattach"} => s \notin TickState
  BY DEF Claiming, NoTick, TickState
<1>g. CASE TickListsReady
  BY <1>g DEF TickListsReady, TickState
<1>8. CASE TickListsRunning
  <2> DEFINE s == [tick EXCEPT
                    !.busy = {RunOf[t] : t \in WithStatus({"running"})} \ {NoRun}]
  <2>1. s \in TickState
    <3>1. {RunOf[t] : t \in WithStatus({"running"})} \ {NoRun} \in SUBSET Runs
      BY <1>b DEF BoardAssumption
    <3> QED BY <3>1 DEF TickState
  <2>2. \E X : tick' = Claiming(s, X)
    BY <1>8 DEF TickListsRunning
  <2> QED BY <2>1, <2>2, <1>e
<1>9. CASE TickConsiders
  <2>1. PICK t \in tick.todo :
          \/ tick' = [RunFor(RunOf[t]) EXCEPT !.pc = "spawn", !.cur = t]
          \/ tick' = Claiming(RunFor(RunOf[t]), tick.todo \ {t})
    BY <1>9 DEF TickConsiders
  <2>2. RunFor(RunOf[t]) \in TickState
    BY <2>1 DEF RunFor, TickState, BoardAssumption
  <2>3. [RunFor(RunOf[t]) EXCEPT !.pc = "spawn", !.cur = t].pc = "spawn"
    BY <2>2 DEF TickState
  <2>4. Claiming(RunFor(RunOf[t]), tick.todo \ {t}).pc \notin {"bump", "reattach"}
    BY <2>2, <1>e
  <2>5. tick'.pc \notin {"bump", "reattach"}
    BY <2>1, <2>3, <2>4
  <2> QED BY <2>5
<1>10. CASE TickClaims
  <2>1. tick.cur \in Tasks
    BY <1>10 DEF TickClaims, TickAt, TickState, CurInHand, InHandPc
  <2>2. [tick EXCEPT !.busy = @ \cup ({RunOf[tick.cur]} \ {NoRun})] \in TickState
    BY <2>1 DEF TickState, BoardAssumption
  <2> QED BY <1>10, <2>2, <1>e DEF TickClaims
<1>11. CASE TickBlocks
  <2>1. TickGoesOn.pc \notin {"bump", "reattach"}
    BY <1>a, <1>d DEF TickGoesOn
  <2> QED BY <1>11, <2>1, <1>c DEF TickBlocks
<1> QED BY <1>1, <1>2, <1>3, <1>4, <1>5, <1>6, <1>7, <1>8, <1>9, <1>10,
           <1>11, <1>f, <1>g DEF TickStep

----------------------------------------------------------------------------
(* Who writes the task rows.                                               *)

\* Transitions that put no task in flight.
Tame == {"Ready", "Block", "Reclaim", "Revive"}

\* Who writes a task row, and how: everything but the claim of the tick, the
\* gate and the done of a loop and the plain lifecycle routes is a reset, a
\* retry count or a transition out of flight (tick.rs, finish.rs, routes).
LEMMA TaskWrites ==
  ASSUME TInv, [Next]_vars
  PROVE  \/ UNCHANGED task
         \/ \E t \in Tasks : \/ OperApplies /\ Reset(t)
                             \/ BumpRetries(t)
                             \/ \E kind \in Tame : Transition(t, kind)
         \/ TickClaims
         \/ \E t \in Tasks, k \in Copy : LoopGates(t, k) \/ LoopRecords(t, k)
         \/ OperMoves
<1> USE DEF TInv, TypeOK
<1>1. CASE TickStep
  <2>1. tick.todo \subseteq Tasks
    BY DEF TickState
  <2>2. tick.pc \in InHandPc => tick.cur \in Tasks
    BY <2>1 DEF CurInHand
  <2>3. \/ UNCHANGED task
        \/ TickReclaims \/ TickPromotes \/ TickClaims
        \/ TickBlocks \/ TickBumps \/ TickRevives
    BY <1>1
    DEF TickStep, TickReads, TickBegins, TickSweeps, TickKillsWedged,
        TickReaps, TickListsOrphans, TickReattaches, TickExcludesRuns,
        TickFindsReady, TickCountsRunning, TickCountsGating, TickListsReady,
        TickListsRunning,
        TickConsiders, TickSpawns
  <2>4. CASE TickReclaims \/ TickPromotes
    BY <2>1, <2>4 DEF TickReclaims, TickPromotes, Heads, Tame
  <2>5. CASE TickBlocks \/ TickBumps \/ TickRevives
    BY <2>2, <2>5 DEF TickBlocks, TickBumps, TickRevives, TickAt, InHandPc, Tame
  <2> QED BY <2>3, <2>4, <2>5
<1>2. CASE \E t \in Tasks, k \in Copy : LoopStep(t, k)
  BY <1>2 DEF LoopStep, LoopPolls, LoopGivesUp, LoopChecks, LoopLands, LoopBlocks,
              LoopBumps, LoopRevives, LoopExits, Tame
<1>3. CASE OperApplies
  <2>1. PICK t \in Heads(oper.todo) \ oper.cut : Apply(oper.op, t)
    BY <1>3 DEF OperApplies
  <2>2. t \in Tasks
    BY <2>1 DEF Heads, OperState
  <2>3. Reset(t) \/ \E kind \in Tame : Transition(t, kind)
    BY <1>3, <2>1 DEF OperApplies, Apply, KnownVerb, RunOp, TaskOp, Tame
  <2> QED BY <1>3, <2>2, <2>3
<1>4. CASE \E t \in Tasks : AgentStep(t)
  BY <1>4 DEF AgentStep, AgentRegisters, AgentPosts, AgentParks, AgentWakes,
              AgentExits, AgentsOnly
<1>5. CASE OperOpensRun \/ OperOpensTask \/ OperLists \/ OperKills \/ OperCloses
           \/ Heartbeats \/ HeartbeatStales \/ Crash \/ UNCHANGED vars
  BY <1>5 DEF OperOpensRun, OperOpensTask, OperLists, OperKills, OperCloses,
              Heartbeats, HeartbeatStales, Crash, vars
<1> QED BY <1>1, <1>2, <1>3, <1>4, <1>5 DEF Next, OperStep
----------------------------------------------------------------------------
(* One drive loop a task.                                                  *)

\* spawn_resume is all the tick does to the loops (tick.rs).
LEMMA TickDrives ==
  ASSUME TInv, TickStep
  PROVE  \/ UNCHANGED <<driving, loop>>
         \/ \E t \in Tasks, s \in {"running", "gating", "claim"} : SpawnResume(t, s)
<1>1. CASE TickReattaches
  <2>1. tick.todo \subseteq Tasks /\ tick.pass \in {"running", "gating", "claim"}
    BY DEF TInv, TypeOK, TickState
  <2> QED BY <1>1, <2>1 DEF TickReattaches, Heads
<1>2. CASE TickClaims
  <2>1. tick.cur \in Tasks
    BY <1>2 DEF TickClaims, TickAt, TInv, TypeOK, TickState, CurInHand, InHandPc
  <2> QED BY <1>2, <2>1 DEF TickClaims
<1>3. CASE ~TickReattaches /\ ~TickClaims
  BY <1>3
  DEF TickStep, TickReads, TickWrites, TickBegins, TickSweeps, TickKillsWedged,
      TickReclaims, TickReaps, TickListsOrphans, TickExcludesRuns, TickFindsReady,
      TickPromotes, TickCountsRunning, TickCountsGating, TickListsReady,
        TickListsRunning,
      TickConsiders, TickSpawns, TickBlocks, TickBumps, TickRevives
<1> QED BY <1>1, <1>2, <1>3

\* Moving the counter of a loop that runs leaves it running.
LEMMA LoopGoesOn ==
  ASSUME loop \in [Tasks -> [Copy -> LoopState]], NEW t \in Tasks, NEW k \in Copy,
         LoopActive(t, k), UNCHANGED driving,
         \/ loop' = [loop EXCEPT ![t][k].seen = TRUE]
         \/ \E pc \in LoopPc \ {"off"} : LoopGoes(t, k, pc),
         DrivenOnce
  PROVE  DrivenOnce'
<1>1. loop'[t][k].pc # "off"
  BY DEF LoopGoes, LoopActive, LoopState
<1>2. \A u \in Tasks, c \in Copy : <<u, c>> # <<t, k>> => loop'[u][c] = loop[u][c]
  BY DEF LoopGoes
<1>3. \A u \in Tasks, c \in Copy : LoopActive(u, c)' <=> LoopActive(u, c)
  BY <1>1, <1>2 DEF LoopActive
<1> QED BY <1>3 DEF DrivenOnce, Copy

\* A step of a loop keeps DrivenOnce: only its exit frees the task, and only
\* its own (finish.rs, DriveGuard).
LEMMA LoopKeepsDriven ==
  ASSUME TInv, DrivenOnce, NEW t \in Tasks, NEW k \in Copy, LoopStep(t, k)
  PROVE  DrivenOnce'
<1> USE DEF TInv, TypeOK
<1>1. CASE LoopExits(t, k)
  <2>1. LoopActive(t, k) /\ \A c \in Copy \ {k} : ~LoopActive(t, c)
    BY <1>1 DEF LoopExits, LoopAt, LoopActive, DrivenOnce, Copy
  <2>2. \A c \in Copy : ~LoopActive(t, c)'
    BY <1>1, <2>1 DEF LoopExits, LoopActive, NoLoop
  <2>3. \A u \in Tasks \ {t}, c \in Copy : LoopActive(u, c)' <=> LoopActive(u, c)
    BY <1>1 DEF LoopExits, LoopActive
  <2>4. driving' = driving \ {t}
    BY <1>1 DEF LoopExits
  <2> QED BY <2>2, <2>3, <2>4 DEF DrivenOnce, Copy
<1>2. CASE ~LoopExits(t, k)
  <2>1. LoopActive(t, k) /\ UNCHANGED driving
    BY <1>2 DEF LoopStep, LoopPolls, LoopGivesUp, LoopGates, LoopChecks, LoopLands,
                LoopRecords, LoopBlocks, LoopBumps, LoopRevives, LoopAt, LoopActive
  <2>2. \/ loop' = [loop EXCEPT ![t][k].seen = TRUE]
        \/ \E pc \in LoopPc \ {"off"} : LoopGoes(t, k, pc)
    BY <1>2 DEF LoopStep, LoopPolls, PollWorking, PollIdle, PollGone, LoopGivesUp,
                LoopGates, LoopChecks, LoopLands, LoopRecords, LoopBlocks, LoopBumps,
                LoopRevives, LoopPc, BlockThen
  <2> QED BY <2>1, <2>2, LoopGoesOn
<1> QED BY <1>1, <1>2

\* spawn_resume keeps DrivenOnce: a task in Driving gets no second loop, one
\* that is not has no first (finish.rs).
LEMMA SpawnResumeKeepsDriven ==
  ASSUME TInv, DrivenOnce, NEW t \in Tasks, NEW s, SpawnResume(t, s)
  PROVE  DrivenOnce'
<1> USE DEF TInv, TypeOK
<1>1. CASE t \in driving
  BY <1>1 DEF SpawnResume, DrivenOnce, LoopActive
<1>2. CASE t \notin driving
  <2>1. \A c \in Copy : ~LoopActive(t, c)
    BY <1>2 DEF DrivenOnce
  <2>2. PICK pc \in {"gate", "await"} :
          loop' = [loop EXCEPT ![t][1] = [pc |-> pc, seen |-> FALSE]]
    BY <1>2, <2>1 DEF SpawnResume, Copy
  <2>3. LoopActive(t, 1)' /\ ~LoopActive(t, 2)'
    BY <2>1, <2>2 DEF LoopActive, Copy
  <2>4. \A u \in Tasks \ {t}, c \in Copy : LoopActive(u, c)' <=> LoopActive(u, c)
    BY <2>2 DEF LoopActive
  <2>5. driving' = driving \cup {t}
    BY DEF SpawnResume
  <2> QED BY <2>3, <2>4, <2>5 DEF DrivenOnce, Copy
<1> QED BY <1>1, <1>2

\* TInv /\ DrivenOnce is inductive.
LEMMA DrivenInductive ==
  /\ Init => DrivenOnce
  /\ TInv /\ DrivenOnce /\ [Next]_vars => DrivenOnce'
<1>1. Init => DrivenOnce
  BY DEF Init, DrivenOnce, LoopActive, NoLoop, Copy
<1>2. ASSUME TInv, DrivenOnce, [Next]_vars PROVE DrivenOnce'
  <2>a. UNCHANGED <<driving, loop>> => DrivenOnce'
    BY <1>2 DEF DrivenOnce, LoopActive
  <2>1. CASE TickStep
    BY <2>1, <2>a, <1>2, TickDrives, SpawnResumeKeepsDriven
  <2>2. CASE \E t \in Tasks, k \in Copy : LoopStep(t, k)
    BY <2>2, <1>2, LoopKeepsDriven
  <2>3. CASE \E t \in Tasks : AgentStep(t)
    <3>1. PICK t \in Tasks : AgentStep(t)
      BY <2>3
    <3>2. CASE AgentPosts(t)
      <4>1. PICK k \in Copy, pc \in {"signalled", "block"} :
              LoopAt(t, k, "await") /\ LoopGoes(t, k, pc)
        BY <3>2 DEF AgentPosts
      <4>2. LoopActive(t, k) /\ UNCHANGED driving /\ pc \in LoopPc \ {"off"}
        BY <3>2, <4>1 DEF AgentPosts, AgentsOnly, LoopAt, LoopActive, LoopPc
      <4> QED BY <4>1, <4>2, <1>2, LoopGoesOn DEF TInv, TypeOK
    <3>3. CASE ~AgentPosts(t)
      BY <3>1, <3>3, <2>a DEF AgentStep, AgentRegisters, AgentParks, AgentWakes,
                              AgentExits, AgentsOnly
    <3> QED BY <3>2, <3>3
  <2>4. CASE OperOpensRun \/ OperOpensTask \/ OperStep \/ OperMoves \/ Heartbeats
    BY <2>4, <2>a DEF OperOpensRun, OperOpensTask, OperStep, OperLists, OperKills,
                      OperApplies, OperCloses, OperMoves, Heartbeats, OperWrites
  <2>5. CASE HeartbeatStales
    BY <2>5, <2>a DEF HeartbeatStales
  <2>6. CASE Crash
    BY <2>6 DEF Crash, DrivenOnce, LoopActive, NoLoop, Copy
  <2>7. CASE UNCHANGED vars
    BY <2>7, <2>a DEF vars
  <2> QED BY <1>2, <2>1, <2>2, <2>3, <2>4, <2>5, <2>6, <2>7 DEF Next
<1> QED BY <1>1, <1>2

\* The Driving set tells exactly which tasks have a loop, and none has two
\* (finish.rs, Driving and DriveGuard).
THEOREM OneLoopPerTask == Spec => []DrivenOnce
BY TInvInductive, DrivenInductive, PTL DEF Spec
============================================================================
