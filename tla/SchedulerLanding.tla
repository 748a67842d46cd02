------------------------- MODULE SchedulerLanding -------------------------
(***************************************************************************)
(* Theorems about the scheduler, fourth part: a task that is done has      *)
(* landed in the same attempt, and a gating task is never left to a loop   *)
(* that waits for its agent. Both hold as long as the plain gate and done  *)
(* routes, by which a caller writes these statuses himself, are not used.  *)
(***************************************************************************)
EXTENDS SchedulerTypes

ClosedRoutes == Ops \cap {"Gate", "Done"} = {}

\* A loop about to record a landing has one to record.
RecordsWhatLanded ==
  \A t \in WithStatus({"gating"}), k \in Copy : LoopAt(t, k, "record") => t \in merged

\* The tick re-attaches as running only what is not gating by now, a loop
\* that gated it excepted: a gating task without a loop is a crash's doing,
\* and the crash ended the tick that had listed the task.
ListedRunning ==
  \A t \in WithStatus({"gating"}) \ driving :
    ~(tick.pc = "reattach" /\ tick.pass # "gating" /\ t \in tick.todo)

LandInv == GatingIsAtGate /\ RecordsWhatLanded /\ DoneIsMerged /\ ListedRunning
----------------------------------------------------------------------------
\* A step that brings t neither to gating nor to done and takes no landing
\* from it while it is one of these.
Unlanded(t) ==
  task'[t].status \in {"gating", "done"} =>
    task'[t].status = task[t].status /\ (t \in merged => t \in merged')

\* Every step but a loop's gate and done is one, for every task.
LEMMA Unlands ==
  ASSUME TInv, ClosedRoutes, [Next]_vars,
         ~\E t \in Tasks, k \in Copy : LoopGates(t, k) \/ LoopRecords(t, k),
         NEW u \in Tasks
  PROVE  Unlanded(u)
<1> USE DEF TInv, TypeOK
<1>a. ASSUME NEW t \in Tasks, NEW kind \in Tame \cup {"Claim"}, Transition(t, kind)
      PROVE  task'[u].status \in {"gating", "done"} => task'[u].status = task[u].status
  <2>1. Target[kind] \notin {"gating", "done"}
    BY DEF Target, Kind, Tame
  <2> QED BY <1>a, <2>1, TransitionRow
<1>1. CASE \E t \in Tasks : Reset(t)
  BY <1>1, ResetRow DEF Unlanded, Reset
<1>2. CASE ~\E t \in Tasks : Reset(t)
  <2>1. merged \subseteq merged'
    <3>1. ~OperApplies => merged \subseteq merged'
      BY DEF Next, vars, TickStep, TickReads, TickWrites, TickBegins, TickSweeps,
             TickKillsWedged, TickReclaims, TickReaps, TickListsOrphans, TickReattaches,
             TickExcludesRuns, TickFindsReady, TickPromotes, TickCountsRunning,
             TickCountsGating, TickListsReady, TickListsRunning,
             TickConsiders, TickSpawns, TickClaims,
             TickBlocks, TickBumps, TickRevives, LoopStep, LoopPolls, LoopGivesUp,
             LoopGates, LoopChecks, LoopLands, LoopRecords, LoopBlocks, LoopBumps,
             LoopRevives, LoopExits, AgentStep, AgentRegisters, AgentPosts, AgentParks,
             AgentWakes, AgentExits, AgentsOnly, OperOpensRun, OperOpensTask, OperStep,
             OperLists, OperKills, OperCloses, OperMoves, Heartbeats, HeartbeatStales,
             Crash
    <3>2. OperApplies => merged' = merged
      BY <1>2 DEF OperApplies, Apply, Heads, OperState
    <3> QED BY <3>1, <3>2
  <2>2. task'[u].status \in {"gating", "done"} => task'[u].status = task[u].status
    <3>1. CASE TickClaims
      <4>1. tick.cur \in Tasks
        BY <3>1 DEF TickClaims, TickAt, CurInHand, InHandPc, TickState
      <4> QED BY <3>1, <4>1, <1>a DEF TickClaims
    <3>2. CASE OperMoves
      BY <3>2, <1>a DEF OperMoves, ClosedRoutes, Tame
    <3>3. CASE UNCHANGED task \/ \E t \in Tasks : BumpRetries(t)
      BY <3>3, BumpRow
    <3>4. CASE \E t \in Tasks, kind \in Tame : Transition(t, kind)
      BY <3>4, <1>a
    <3> QED BY <1>2, <3>1, <3>2, <3>3, <3>4, TaskWrites
  <2> QED BY <2>1, <2>2 DEF Unlanded
<1> QED BY <1>1, <1>2

\* Such a step keeps LandInv if it leaves the loops alone and the tick either
\* alone or with nothing it listed as running.
LEMMA UnlandedKeepsLand ==
  ASSUME TInv, LandInv, \A u \in Tasks : Unlanded(u), UNCHANGED <<driving, loop>>,
         \/ tick' = tick
         \/ tick'.pc # "reattach"
         \/ \A u \in Tasks : u \in tick'.todo /\ task[u].status = "gating"
                               => tick'.pass = "gating"
  PROVE  LandInv'
<1>1. \A u \in Tasks : task'[u].status = "gating" =>
        task[u].status = "gating" /\ (u \in merged => u \in merged')
  BY DEF Unlanded
<1>2. GatingIsAtGate'
  BY <1>1 DEF LandInv, GatingIsAtGate, WithStatus, StatusOf
<1>3. RecordsWhatLanded'
  BY <1>1 DEF LandInv, RecordsWhatLanded, WithStatus, StatusOf, LoopAt
<1>4. DoneIsMerged'
  BY DEF LandInv, DoneIsMerged, Unlanded, WithStatus, StatusOf
<1>5. ListedRunning'
  BY <1>1 DEF LandInv, ListedRunning, WithStatus, StatusOf
<1> QED BY <1>2, <1>3, <1>4, <1>5 DEF LandInv

\* A new loop is of no harm to LandInv if it starts at the gate or its task
\* is not gating by now.
LEMMA SpawnResumeKeepsLand ==
  ASSUME TInv, DrivenOnce, LandInv, \A u \in Tasks : Unlanded(u),
         NEW t \in Tasks, NEW s, SpawnResume(t, s),
         s = "gating" \/ t \in driving \/ task'[t].status # "gating",
         \/ tick'.pc # "reattach"
         \/ /\ tick.pc = "reattach" /\ tick'.pass = tick.pass
            /\ tick'.todo \subseteq tick.todo
         \/ tick'.pass = "gating"
  PROVE  LandInv'
<1> USE DEF TInv, TypeOK
<1>1. \A u \in Tasks : task'[u].status = "gating" =>
        task[u].status = "gating" /\ (u \in merged => u \in merged')
  BY DEF Unlanded
<1>2. \A u \in Tasks, c \in Copy :
        \/ loop'[u][c] = loop[u][c]
        \/ loop'[u][c].pc = "gate"
        \/ loop'[u][c].pc = "await" /\ task'[u].status # "gating"
  BY DEF SpawnResume, Copy
<1>3. GatingIsAtGate'
  BY <1>1, <1>2 DEF LandInv, GatingIsAtGate, WithStatus, StatusOf
<1>4. RecordsWhatLanded'
  BY <1>1, <1>2 DEF LandInv, RecordsWhatLanded, WithStatus, StatusOf, LoopAt
<1>5. DoneIsMerged'
  BY DEF LandInv, DoneIsMerged, Unlanded, WithStatus, StatusOf
<1>6. ListedRunning'
  <2>1. driving \subseteq driving'
    BY DEF SpawnResume
  <2> QED BY <1>1, <2>1 DEF LandInv, ListedRunning, WithStatus, StatusOf
<1> QED BY <1>3, <1>4, <1>5, <1>6 DEF LandInv

\* The tick keeps LandInv: it re-attaches as running only what it listed as
\* running (reattach_orphans).
LEMMA TickKeepsLand ==
  ASSUME BoardAssumption, TInv, DrivenOnce, LandInv, TickStep,
         \A u \in Tasks : Unlanded(u)
  PROVE  LandInv'
<1> USE DEF TInv, TypeOK
<1>1. CASE TickReattaches
  <2>1. PICK t \in Heads(tick.todo) :
          /\ SpawnResume(t, tick.pass)
          /\ tick' = Reattaching(tick.todo \ {t})
    BY <1>1 DEF TickReattaches
  <2>2. t \in Tasks /\ t \in tick.todo /\ tick.pc = "reattach" /\ UNCHANGED task
    BY <1>1, <2>1 DEF TickReattaches, TickAt, Heads, TickState
  <2>3. tick.pass = "gating" \/ t \in driving \/ task'[t].status # "gating"
    BY <2>2 DEF LandInv, ListedRunning, WithStatus, StatusOf
  <2>4. \/ tick'.pc # "reattach"
        \/ tick'.pass = tick.pass /\ tick'.todo \subseteq tick.todo
    BY <2>1 DEF Reattaching, TickState
  <2> QED BY <2>1, <2>2, <2>3, <2>4, SpawnResumeKeepsLand
<1>2. CASE TickClaims
  <2>1. tick.cur \in Tasks
    BY <1>2 DEF TickClaims, TickAt, CurInHand, InHandPc, TickState
  <2>2. tick'.pc # "reattach"
    BY <1>2, TickEnters DEF TickClaims, TickListsOrphans, TickReattaches, TickAt
  <2>3. CASE CanMove(tick.cur, "Claim")
    <3>1. task'[tick.cur].status = "running"
      BY <1>2, <2>1, <2>3, TransitionRow DEF TickClaims, Target, Kind
    <3>2. SpawnResume(tick.cur, "running")
      BY <1>2, <2>3 DEF TickClaims
    <3> QED BY <2>1, <2>2, <3>1, <3>2, SpawnResumeKeepsLand
  <2>4. CASE ~CanMove(tick.cur, "Claim")
    <3>1. UNCHANGED <<driving, loop>>
      BY <1>2, <2>4 DEF TickClaims
    <3> QED BY <2>2, <3>1, UnlandedKeepsLand
  <2> QED BY <2>3, <2>4
<1>3. CASE TickListsOrphans
  <2>1. UNCHANGED <<driving, loop>>
    BY <1>3 DEF TickListsOrphans, TickReads
  <2>2. \/ tick'.pc # "reattach"
        \/ /\ tick'.pass = tick.pass
           /\ tick'.todo = WithStatus({tick.pass})
    BY <1>3 DEF TickListsOrphans, Reattaching, TickState
  <2>3. \/ tick'.pc # "reattach"
        \/ \A u \in Tasks : u \in tick'.todo /\ task[u].status = "gating"
                              => tick'.pass = "gating"
    BY <2>2 DEF WithStatus, StatusOf
  <2> QED BY <2>1, <2>3, UnlandedKeepsLand
<1>4. CASE ~TickReattaches /\ ~TickClaims /\ ~TickListsOrphans
  <2>1. tick'.pc # "reattach"
    BY <1>4, TickEnters
  <2>2. UNCHANGED <<driving, loop>>
    BY <1>4
    DEF TickStep, TickReads, TickWrites, TickBegins, TickSweeps, TickKillsWedged,
        TickReclaims, TickReaps, TickExcludesRuns, TickFindsReady, TickPromotes,
        TickCountsRunning, TickCountsGating, TickListsReady, TickListsRunning,
             TickConsiders, TickSpawns,
        TickBlocks, TickBumps, TickRevives
  <2> QED BY <2>1, <2>2, UnlandedKeepsLand
<1> QED BY <1>1, <1>2, <1>3, <1>4

\* A drive loop keeps LandInv: a task it gates is at its gate, one it records
\* has landed, and what it blocks, revives or leaves is not gating
\* (gate_and_land).
LEMMA LoopKeepsLand ==
  ASSUME TInv, DrivenOnce, LandInv, NEW t \in Tasks, NEW k \in Copy, LoopStep(t, k),
         LoopGates(t, k) \/ LoopRecords(t, k) \/ \A u \in Tasks : Unlanded(u)
  PROVE  LandInv'
<1> USE DEF TInv, TypeOK
<1>a. LoopActive(t, k) /\ t \in driving /\ \A c \in Copy \ {k} : ~LoopActive(t, c)
  BY DEF LoopStep, LoopPolls, LoopGivesUp, LoopGates, LoopChecks, LoopLands,
         LoopRecords, LoopBlocks, LoopBumps, LoopRevives, LoopExits, LoopAt,
         LoopActive, DrivenOnce, Copy
<1>b. \A u \in Tasks, c \in Copy : <<u, c>> # <<t, k>> => loop'[u][c] = loop[u][c]
  BY DEF LoopStep, LoopPolls, PollWorking, PollIdle, PollGone, LoopGivesUp, LoopGates,
         LoopChecks, LoopLands, LoopRecords, LoopBlocks, LoopBumps, LoopRevives,
         LoopExits, LoopGoes
<1>c. UNCHANGED tick
  BY DEF LoopStep, LoopPolls, LoopGivesUp, LoopGates, LoopChecks, LoopLands,
         LoopRecords, LoopBlocks, LoopBumps, LoopRevives, LoopExits, LoopAlone
<1>d. \/ driving' = driving
      \/ LoopExits(t, k) /\ driving' = driving \ {t}
  BY DEF LoopStep, LoopPolls, LoopGivesUp, LoopGates, LoopChecks, LoopLands,
         LoopRecords, LoopBlocks, LoopBumps, LoopRevives, LoopExits
<1>e. task[t].status = "gating" =>
        /\ loop[t][k].pc \in {"off", "gate", "land", "record", "block"}
        /\ loop[t][k].pc = "record" => t \in merged
  BY DEF LandInv, GatingIsAtGate, RecordsWhatLanded, WithStatus, StatusOf, LoopAt
\* What is left to show of t, its loop and the rest of the tasks.
<1>f. ASSUME \A u \in Tasks \ {t} : task'[u] = task[u],
             merged \subseteq merged',
             task'[t].status = "gating" =>
               /\ loop'[t][k].pc \in {"gate", "land", "record", "block"}
               /\ loop'[t][k].pc = "record" => t \in merged',
             task'[t].status = "done" => t \in merged'
      PROVE  LandInv'
  <2>1. GatingIsAtGate'
    <3> SUFFICES ASSUME NEW u \in Tasks, NEW c \in Copy, task'[u].status = "gating"
                 PROVE  loop'[u][c].pc \in {"off", "gate", "land", "record", "block"}
      BY DEF GatingIsAtGate, WithStatus, StatusOf
    <3>1. CASE u = t /\ c = k
      BY <1>f, <3>1
    <3>2. CASE u = t /\ c # k
      BY <1>a, <1>b, <3>2 DEF LoopActive
    <3>3. CASE u # t
      BY <1>b, <1>f, <3>3 DEF LandInv, GatingIsAtGate, WithStatus, StatusOf
    <3> QED BY <3>1, <3>2, <3>3
  <2>2. RecordsWhatLanded'
    <3> SUFFICES ASSUME NEW u \in Tasks, NEW c \in Copy, task'[u].status = "gating",
                        loop'[u][c].pc = "record"
                 PROVE  u \in merged'
      BY DEF RecordsWhatLanded, WithStatus, StatusOf, LoopAt
    <3>1. CASE u = t /\ c = k
      BY <1>f, <3>1
    <3>2. CASE u = t /\ c # k
      BY <1>a, <1>b, <3>2 DEF LoopActive
    <3>3. CASE u # t
      BY <1>b, <1>f, <3>3 DEF LandInv, RecordsWhatLanded, WithStatus, StatusOf, LoopAt
    <3> QED BY <3>1, <3>2, <3>3
  <2>3. DoneIsMerged'
    BY <1>f DEF LandInv, DoneIsMerged, WithStatus, StatusOf
  <2>4. ListedRunning'
    <3>1. task'[t].status = "gating" => t \in driving'
      BY <1>a, <1>d, <1>f DEF LoopExits, NoLoop
    <3> QED BY <1>c, <1>d, <1>f, <3>1 DEF LandInv, ListedRunning, WithStatus, StatusOf
  <2> QED BY <2>1, <2>2, <2>3, <2>4 DEF LandInv
<1>1. CASE LoopGates(t, k)
  <2>1. /\ \A u \in Tasks \ {t} : task'[u] = task[u]
        /\ CanMove(t, "Gate") => task'[t].status = "gating"
        /\ ~CanMove(t, "Gate") => task'[t].status = task[t].status
    BY <1>1, TransitionRow DEF LoopGates, Target, Kind
  <2>2. task[t].status # "gating" /\ merged' = merged
    BY <1>1, <1>e DEF LoopGates, LoopAt
  <2>3. CanMove(t, "Gate") => loop'[t][k].pc = "gate"
    BY <1>1 DEF LoopGates, LoopGoes
  <2>4. task'[t].status = "done" => t \in merged
    BY <2>1 DEF LandInv, DoneIsMerged, WithStatus, StatusOf
  <2> QED BY <2>1, <2>2, <2>3, <2>4, <1>f
<1>2. CASE LoopRecords(t, k)
  <2>1. /\ \A u \in Tasks \ {t} : task'[u] = task[u]
        /\ CanMove(t, "Done") => task'[t].status = "done"
        /\ ~CanMove(t, "Done") => task'[t].status = task[t].status
    BY <1>2, TransitionRow DEF LoopRecords, Target, Kind
  <2>2. CanMove(t, "Done") <=> task[t].status = "gating"
    BY LegalFrom DEF CanMove, StatusOf, Legal, CanTransition, Edges, Target, Kind
  <2>3. task[t].status = "gating" => t \in merged
    BY <1>2, <1>e DEF LoopRecords, LoopAt
  <2>4. task[t].status = "done" => t \in merged
    BY DEF LandInv, DoneIsMerged, WithStatus, StatusOf
  <2>5. merged' = merged
    BY <1>2 DEF LoopRecords
  <2> QED BY <2>1, <2>2, <2>3, <2>4, <2>5, <1>f
<1>3. CASE ~LoopGates(t, k) /\ ~LoopRecords(t, k)
  <2>1. \/ UNCHANGED task
        \/ BumpRetries(t)
        \/ \E kind : Transition(t, kind)
    BY <1>3 DEF LoopStep, LoopPolls, LoopGivesUp, LoopChecks, LoopLands, LoopBlocks,
                LoopBumps, LoopRevives, LoopExits
  <2>2. \A u \in Tasks \ {t} : task'[u] = task[u]
    BY <2>1, TransitionRow, BumpRow
  <2>3. merged \subseteq merged'
    BY <1>3 DEF LoopStep, LoopPolls, LoopGivesUp, LoopChecks, LoopLands, LoopBlocks,
                LoopBumps, LoopRevives, LoopExits
  <2>4. task'[t].status = "done" => t \in merged'
    <3>1. task'[t].status = "done" => task[t].status = "done"
      BY <1>3 DEF Unlanded
    <3> QED BY <2>3, <3>1 DEF LandInv, DoneIsMerged, WithStatus, StatusOf
  <2>5. task'[t].status = "gating" => task[t].status = "gating"
    BY <1>3 DEF Unlanded
  <2>6. task'[t].status = "gating" =>
          /\ loop'[t][k].pc \in {"gate", "land", "record", "block"}
          /\ loop'[t][k].pc = "record" => t \in merged'
    <3> SUFFICES ASSUME task'[t].status = "gating"
                 PROVE  /\ loop'[t][k].pc \in {"gate", "land", "record", "block"}
                        /\ loop'[t][k].pc = "record" => t \in merged'
      OBVIOUS
    <3>1. loop[t][k].pc \in {"gate", "land", "block"}
      BY <1>3, <1>e, <2>5 DEF LoopStep, LoopPolls, LoopGivesUp, LoopChecks, LoopLands,
                              LoopBlocks, LoopBumps, LoopRevives, LoopExits, LoopAt
    <3>2. CASE LoopChecks(t, k)
      BY <3>2 DEF LoopChecks, LoopGoes
    <3>3. CASE LoopLands(t, k)
      BY <3>3 DEF LoopLands, LoopGoes
    <3>4. CASE LoopBlocks(t, k)
      <4>1. CanMove(t, "Block")
        BY <2>5 DEF CanMove, StatusOf, Legal, CanTransition, Edges, Target, Kind
      <4>2. task'[t].status = "blocked"
        BY <3>4, <4>1, TransitionRow DEF LoopBlocks, Target, Kind
      <4> QED BY <4>2
    <3> QED BY <1>3, <3>1, <3>2, <3>3, <3>4
            DEF LoopStep, LoopPolls, LoopGivesUp, LoopBumps, LoopRevives, LoopExits, LoopAt
  <2> QED BY <2>2, <2>3, <2>4, <2>6, <1>f
<1> QED BY <1>1, <1>2, <1>3

\* LandInv is inductive.
LEMMA LandInductive ==
  ASSUME ClosedRoutes
  PROVE  /\ Init => LandInv
         /\ TInv /\ DrivenOnce /\ LandInv /\ [Next]_vars => LandInv'
<1>1. ASSUME Init PROVE LandInv
  BY <1>1 DEF Init, LandInv, GatingIsAtGate, RecordsWhatLanded, DoneIsMerged,
              ListedRunning, WithStatus, StatusOf
<1>2. ASSUME TInv, DrivenOnce, LandInv, [Next]_vars PROVE LandInv'
  <2>a. \/ \E t \in Tasks, k \in Copy : LoopGates(t, k) \/ LoopRecords(t, k)
        \/ \A u \in Tasks : Unlanded(u)
    BY <1>2, Unlands
  <2>1. CASE \E t \in Tasks, k \in Copy : LoopGates(t, k) \/ LoopRecords(t, k)
    BY <2>1, <1>2, LoopKeepsLand DEF LoopStep
  <2>2. CASE \A u \in Tasks : Unlanded(u)
    <3>1. CASE TickStep
      BY <2>2, <3>1, <1>2, TickKeepsLand, BoardAssumption
    <3>2. CASE \E t \in Tasks, k \in Copy : LoopStep(t, k)
      BY <2>2, <3>2, <1>2, LoopKeepsLand
    <3>3. CASE \E t \in Tasks : AgentPosts(t)
      <4>1. PICK t \in Tasks, k \in Copy, pc \in {"signalled", "block"} :
              LoopAt(t, k, "await") /\ LoopGoes(t, k, pc)
        BY <3>3 DEF AgentPosts
      <4>2. UNCHANGED <<task, driving, tick, merged>>
        BY <3>3 DEF AgentPosts, AgentsOnly
      <4>3. task[t].status # "gating"
        BY <1>2, <4>1 DEF LandInv, GatingIsAtGate, WithStatus, StatusOf, LoopAt
      <4>4. \A u \in Tasks \ {t} : loop'[u] = loop[u]
        BY <1>2, <4>1 DEF LoopGoes, TInv, TypeOK
      <4> QED BY <1>2, <4>2, <4>3, <4>4
              DEF LandInv, GatingIsAtGate, RecordsWhatLanded, DoneIsMerged,
                  ListedRunning, WithStatus, StatusOf, LoopAt
    <3>4. CASE Crash
      BY <1>2, <3>4 DEF Crash, LandInv, GatingIsAtGate, RecordsWhatLanded, DoneIsMerged,
                        ListedRunning, WithStatus, StatusOf, LoopAt, NoLoop, NoTick
    <3>5. CASE UNCHANGED <<driving, loop, tick>>
      BY <1>2, <2>2, <3>5, UnlandedKeepsLand
    <3> QED BY <1>2, <3>1, <3>2, <3>3, <3>4, <3>5
            DEF Next, vars, HeartbeatStales, AgentStep, AgentRegisters, AgentParks,
                AgentWakes, AgentExits, AgentsOnly, OperOpensRun, OperOpensTask, OperStep,
                OperLists, OperKills, OperApplies, OperCloses, OperMoves, Heartbeats,
                OperWrites
  <2> QED BY <2>a, <2>1, <2>2
<1> QED BY <1>1, <1>2

\* A task is done only if its branch landed since its last reset
\* (gate_and_land).
THEOREM DoneHasLanded ==
  ASSUME ClosedRoutes
  PROVE  Spec => []DoneIsMerged
<1>1. LandInv => DoneIsMerged
  BY DEF LandInv
<1> QED BY <1>1, TInvInductive, DrivenInductive, LandInductive, PTL DEF Spec

\* A gating task's loop, if it has one, is at the gate or past it, whatever
\* crashed and was re-attached (reattach_orphans, drive).
THEOREM GatingNeverAwaits ==
  ASSUME ClosedRoutes
  PROVE  Spec => []GatingIsAtGate
<1>1. LandInv => GatingIsAtGate
  BY DEF LandInv
<1> QED BY <1>1, TInvInductive, DrivenInductive, LandInductive, PTL DEF Spec
============================================================================
