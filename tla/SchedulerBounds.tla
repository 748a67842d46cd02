-------------------------- MODULE SchedulerBounds ---------------------------
(***************************************************************************)
(* Theorems about the scheduler, second part: the concurrency budget holds *)
(* though the tick counts with two queries long before it spends the last  *)
(* slot it found free, and auto-retries stay near their cap though the cap *)
(* is compared in one step of block() and the counter bumped in a later    *)
(* one, by a drive loop and by the tick at once.                           *)
(***************************************************************************)
EXTENDS SchedulerTypes

\* The part of a pass in which the tick holds slots it has reserved, one for
\* each task it may still claim.
InClaimPass ==
  \/ tick.pc \in {"listRunning", "consider", "spawn", "claim"}
  \/ tick.pc \in {"block", "bump", "revive"} /\ tick.pass = "claim"

\* What the tick's locals promise about the budget from its first count to
\* the last claim. Only the tick claims, so what it counted can only shrink.
BudgetInv ==
  /\ WithinBudget
  /\ tick.pc = "countGating" => Cardinality(WithStatus({"running"})) <= tick.slots
  /\ tick.pc = "listReady" => Cardinality(InFlight) + tick.slots <= Concurrency
  /\ InClaimPass => Cardinality(InFlight) + Cardinality(tick.todo) <= Concurrency
  /\ tick.pc \in {"idle", "sweep", "reconcile"} => tick.pass # "claim"

\* A step that puts no task in flight and sets none running.
NoneTakesOff ==
  \A u \in Tasks :
    /\ task'[u].status = "running" => task[u].status = "running"
    /\ task'[u].status = "gating" => task[u].status \in InFlightStatus

\* It makes neither of the sets the budget counts larger.
LEMMA FlightCount ==
  ASSUME BoardAssumption, NoneTakesOff
  PROVE  /\ Cardinality(InFlight) \in Nat /\ Cardinality(InFlight') \in Nat
         /\ Cardinality(InFlight') <= Cardinality(InFlight)
         /\ Cardinality(WithStatus({"running"})) \in Nat
         /\ Cardinality(WithStatus({"running"})') \in Nat
         /\ Cardinality(WithStatus({"running"})') <= Cardinality(WithStatus({"running"}))
<1>1. /\ InFlight' \in SUBSET InFlight
      /\ WithStatus({"running"})' \in SUBSET WithStatus({"running"})
  <2>1. \A S, T : (\A u \in Tasks : task'[u].status \in S => task[u].status \in T)
                  => WithStatus(S)' \in SUBSET WithStatus(T)
    BY DEF WithStatus, StatusOf
  <2>2. \A u \in Tasks :
          /\ task'[u].status \in InFlightStatus => task[u].status \in InFlightStatus
          /\ task'[u].status \in {"running"} => task[u].status \in {"running"}
    BY DEF NoneTakesOff, InFlightStatus
  <2> QED BY <2>1, <2>2 DEF InFlight
<1>2. IsFiniteSet(InFlight) /\ IsFiniteSet(WithStatus({"running"}))
  BY StatusSetsFinite DEF InFlight
<1> QED BY <1>1, <1>2, FS_Subset, FS_CardinalityType

\* With the claim route closed, only the tick's claim puts a task in flight
\* (status.rs: running is entered from ready, gating from running).
LEMMA FlightShrinks ==
  ASSUME TInv, "Claim" \notin Ops, [Next]_vars, ~TickClaims
  PROVE  NoneTakesOff
<1> USE DEF TInv, TypeOK
<1>a. ASSUME NEW t \in Tasks, NEW kind \in Tame \cup {"Gate", "Done"}, Transition(t, kind)
      PROVE  NoneTakesOff
  <2>1. kind \in Kind \ {"Claim"}
    BY DEF Tame, Kind
  <2>2. \A u \in Tasks \ {t} : task'[u] = task[u]
    BY <1>a, TransitionRow
  <2>3. CASE CanMove(t, kind)
    <3>1. /\ Target[kind] # "running"
          /\ Target[kind] = "gating" => task[t].status = "running"
      BY <2>1, <2>3, LegalFrom DEF CanMove, StatusOf
    <3>2. task'[t].status = Target[kind]
      BY <1>a, <2>3, TransitionRow
    <3> QED BY <2>2, <3>1, <3>2 DEF NoneTakesOff, InFlightStatus
  <2>4. CASE ~CanMove(t, kind)
    BY <1>a, <2>2, <2>4, TransitionRow DEF NoneTakesOff, InFlightStatus
  <2> QED BY <2>3, <2>4
<1>b. ASSUME NEW t \in Tasks, Reset(t) \/ BumpRetries(t)
      PROVE  NoneTakesOff
  BY <1>b, ResetRow, BumpRow DEF NoneTakesOff, InFlightStatus
<1>1. CASE UNCHANGED task
  BY <1>1 DEF NoneTakesOff, InFlightStatus
<1>2. CASE \E t \in Tasks : \/ Reset(t)
                            \/ BumpRetries(t)
                            \/ \E kind \in Tame : Transition(t, kind)
  BY <1>2, <1>a, <1>b
<1>3. CASE \E t \in Tasks, k \in Copy : LoopGates(t, k) \/ LoopRecords(t, k)
  BY <1>3, <1>a DEF LoopGates, LoopRecords
<1>4. CASE OperMoves
  BY <1>4, <1>a DEF OperMoves, Tame
<1> QED BY <1>1, <1>2, <1>3, <1>4, TaskWrites

\* What is left of a set the tick has still to handle is no larger than it.
LEMMA TodoShrinks ==
  ASSUME BoardAssumption, NEW S \in SUBSET Tasks, NEW t
  PROVE  /\ Cardinality(S) \in Nat
         /\ Cardinality(S \ {t}) \in Nat
         /\ Cardinality(S \ {t}) <= Cardinality(S)
         /\ t \in S => Cardinality(S \ {t}) = Cardinality(S) - 1
<1>1. IsFiniteSet(S)
  BY FS_Subset DEF BoardAssumption
<1>2. Cardinality(S \ {t}) = IF t \in S THEN Cardinality(S) - 1 ELSE Cardinality(S)
  BY <1>1, FS_RemoveElement
<1>3. Cardinality(S) \in Nat /\ Cardinality(S \ {t}) \in Nat
  BY <1>1, FS_RemoveElement, FS_CardinalityType
<1> QED BY <1>2, <1>3

\* The tick's own steps, its claim excepted, keep what they promise: they
\* count, then reserve, then give slots back.
LEMMA TickKeepsBudget ==
  ASSUME BoardAssumption, TInv, BudgetInv, TickStep, ~TickClaims, NoneTakesOff
  PROVE  BudgetInv'
<1> USE DEF TInv, TypeOK
<1> DEFINE R == WithStatus({"running"})
           G == WithStatus({"gating"})
<1>a. /\ Cardinality(InFlight) \in Nat
      /\ Cardinality(R) \in Nat /\ IsFiniteSet(R)
      /\ Cardinality(G) \in Nat /\ IsFiniteSet(G)
      /\ IsFiniteSet(InFlight)
  BY StatusSetsFinite DEF InFlight
<1>b. /\ Cardinality(InFlight') <= Cardinality(InFlight)
      /\ Cardinality(R') <= Cardinality(R)
      /\ Cardinality(InFlight') \in Nat /\ Cardinality(R') \in Nat
  BY FlightCount
<1>c. Concurrency \in Nat
  BY DEF BoardAssumption
<1>d. WithinBudget'
  BY <1>a, <1>b, <1>c DEF BudgetInv, WithinBudget
<1>e. tick.todo \in SUBSET Tasks
  BY DEF TickState
<1>f. ASSUME NEW s \in TickState, NEW todo \in SUBSET Tasks,
             tick' = Claiming(s, todo),
             Cardinality(InFlight) + Cardinality(todo) <= Concurrency
      PROVE  BudgetInv'
  <2>1. Cardinality(InFlight') + Cardinality(todo) <= Concurrency
    <3>1. Cardinality(todo) \in Nat
      BY TodoShrinks
    <3> QED BY <3>1, <1>a, <1>b, <1>c, <1>f
  <2>2. \/ tick' = NoTick
        \/ tick'.pc = "consider" /\ tick'.todo = todo
    BY <1>f DEF Claiming, TickState
  <2> QED BY <2>1, <2>2, <1>d DEF BudgetInv, InClaimPass, NoTick
<1>g. ASSUME NEW todo, tick.pass # "claim", tick' = Reconciling(todo)
      PROVE  BudgetInv'
  <2>1. /\ tick'.pc \in {"reconcile", "sweep", "reap"}
        /\ tick'.pass # "claim"
    BY <1>g DEF Reconciling, TickState
  <2> QED BY <2>1, <1>d DEF BudgetInv, InClaimPass
<1>h. ASSUME tick'.pc \in {"orphans", "reattach", "excluded", "newlyReady",
                          "promote", "countRunning"}
      PROVE  BudgetInv'
  BY <1>h, <1>d DEF BudgetInv, InClaimPass
<1>i. ASSUME tick'.pc \in InHandPc, tick'.pass = tick.pass, tick'.todo = tick.todo,
             InClaimPass' => InClaimPass
      PROVE  BudgetInv'
  <2>1. Cardinality(tick.todo) \in Nat
    BY <1>e, TodoShrinks
  <2>2. InClaimPass' => Cardinality(InFlight') + Cardinality(tick'.todo) <= Concurrency
    BY <1>i, <1>a, <1>b, <1>c, <2>1 DEF BudgetInv
  <2> QED BY <2>2, <1>d, <1>i DEF BudgetInv, InHandPc
<1>1. CASE TickBegins
  <2>1. tick'.pc \in {"sweep", "orphans"} /\ tick'.pass = tick.pass
    BY <1>1 DEF TickBegins, TickGoes, TickState
  <2> QED BY <2>1, <1>1, <1>d DEF TickBegins, TickAt, BudgetInv, InClaimPass
<1>2. CASE TickSweeps
  BY <1>2, <1>g DEF TickSweeps, TickAt, BudgetInv
<1>3. CASE TickKillsWedged
  <2>1. tick'.pc = "block" /\ tick'.pass = tick.pass /\ tick.pass # "claim"
    BY <1>3 DEF TickKillsWedged, TickAt, BudgetInv, TickState
  <2> QED BY <2>1, <1>d DEF BudgetInv, InClaimPass
<1>4. CASE TickReclaims
  BY <1>4, <1>g DEF TickReclaims, TickAt, BudgetInv
<1>5. CASE TickReaps \/ TickListsOrphans \/ TickReattaches \/ TickExcludesRuns
           \/ TickFindsReady \/ TickPromotes
  <2>1. tick'.pc \in {"orphans", "reattach", "excluded", "newlyReady",
                     "promote", "countRunning"}
    BY <1>5 DEF TickReaps, TickListsOrphans, TickReattaches, TickExcludesRuns,
                TickFindsReady, TickPromotes, Reattaching, Promoting, TickState
  <2> QED BY <2>1, <1>h
<1>6. CASE TickCountsRunning
  <2>1. tick'.pc = "countGating" /\ tick'.slots = Cardinality(R)
    BY <1>6 DEF TickCountsRunning, TickState
  <2> QED BY <2>1, <1>b, <1>d DEF BudgetInv, InClaimPass
<1>7. CASE TickCountsGating
  <2> DEFINE used == tick.slots + Cardinality(G)
  <2>1. InFlight = R \cup G
    BY DEF InFlight, InFlightStatus, WithStatus
  <2>2. Cardinality(InFlight) <= Cardinality(R) + Cardinality(G)
    <3>1. Cardinality(R \cap G) \in Nat
      BY <1>a, FS_Subset, FS_CardinalityType
    <3>2. Cardinality(InFlight)
            = Cardinality(R) + Cardinality(G) - Cardinality(R \cap G)
      BY <2>1, <1>a, FS_Union
    <3> HIDE DEF R, G
    <3> QED BY <3>1, <3>2, <1>a
  <2>3. tick.slots \in Nat /\ Cardinality(R) <= tick.slots
    BY <1>7 DEF TickCountsGating, TickAt, BudgetInv, TickState
  <2>4. Cardinality(InFlight) <= used /\ used \in Nat
    BY <2>2, <2>3, <1>a
  <2>5. \/ tick' = NoTick
        \/ tick'.pc = "listReady" /\ tick'.slots = Concurrency - used
    BY <1>7 DEF TickCountsGating, TickState
  <2>6. tick'.pc = "listReady" => Cardinality(InFlight') + tick'.slots <= Concurrency
    BY <2>4, <2>5, <1>a, <1>b, <1>c DEF NoTick
  <2> QED BY <2>5, <2>6, <1>d DEF BudgetInv, InClaimPass, NoTick
<1>8. CASE TickListsReady
  <2>1. PICK X \in FairTake(WithStatus({"ready"}), tick.slots) :
          tick' = [tick EXCEPT !.pc = "listRunning", !.todo = X, !.slots = 0]
    BY <1>8 DEF TickListsReady
  <2>2. X \in SUBSET Tasks /\ Cardinality(X) <= tick.slots
    BY <2>1 DEF FairTake, WithStatus
  <2>3. Cardinality(InFlight) + tick.slots <= Concurrency /\ tick.slots \in Nat
    BY <1>8 DEF TickListsReady, TickAt, BudgetInv, TickState
  <2>4. Cardinality(InFlight') + Cardinality(X) <= Concurrency
    <3>1. Cardinality(X) \in Nat
      BY <2>2, TodoShrinks
    <3> HIDE DEF TInv, TypeOK
    <3> QED BY <3>1, <2>2, <2>3, <1>a, <1>b, <1>c
  <2>5. tick'.pc = "listRunning" /\ tick'.todo = X
    BY <2>1 DEF TickState
  <2> QED BY <2>4, <2>5, <1>d DEF BudgetInv, InClaimPass
<1>k. CASE TickListsRunning
  <2> DEFINE held == {RunOf[t] : t \in WithStatus({"running"})} \ {NoRun}
             s == [tick EXCEPT !.busy = held]
  <2>1. tick' = Claiming(s, tick.todo)
    BY <1>k DEF TickListsRunning
  <2>2. s \in TickState
    <3>1. held \in SUBSET Runs
      BY DEF BoardAssumption, WithStatus
    <3> QED BY <3>1 DEF TickState
  <2>3. Cardinality(InFlight) + Cardinality(tick.todo) <= Concurrency
    BY <1>k DEF TickListsRunning, TickAt, BudgetInv, InClaimPass
  <2> QED BY <2>1, <2>2, <2>3, <1>e, <1>f
<1>j. InClaimPass =>
        \A t : /\ tick.todo \ {t} \in SUBSET Tasks
               /\ Cardinality(InFlight) + Cardinality(tick.todo \ {t}) <= Concurrency
  <2> SUFFICES ASSUME InClaimPass, NEW t
               PROVE  Cardinality(InFlight) + Cardinality(tick.todo \ {t}) <= Concurrency
    BY <1>e
  <2>1. /\ Cardinality(tick.todo) \in Nat
        /\ Cardinality(tick.todo \ {t}) \in Nat
        /\ Cardinality(tick.todo \ {t}) <= Cardinality(tick.todo)
    <3> HIDE DEF TInv, TypeOK
    <3> QED BY <1>e, TodoShrinks
  <2>2. Cardinality(InFlight) + Cardinality(tick.todo) <= Concurrency
    BY DEF BudgetInv
  <2> QED BY <1>a, <1>c, <2>1, <2>2
<1>9. CASE TickConsiders
  <2>1. InClaimPass
    BY <1>9 DEF TickConsiders, TickAt, InClaimPass
  <2>2. PICK t \in tick.todo :
          \/ tick' = [RunFor(RunOf[t]) EXCEPT !.pc = "spawn", !.cur = t]
          \/ tick' = Claiming(RunFor(RunOf[t]), tick.todo \ {t})
    BY <1>9 DEF TickConsiders
  <2>3. RunFor(RunOf[t]) \in TickState
    BY <1>e, <2>2 DEF RunFor, TickState, BoardAssumption
  <2>4. CASE tick' = [RunFor(RunOf[t]) EXCEPT !.pc = "spawn", !.cur = t]
    <3>1. tick'.pc = "spawn" /\ tick'.pass = tick.pass /\ tick'.todo = tick.todo
      BY <2>4 DEF RunFor, TickState
    <3>2. tick'.pc \in InHandPc
      BY <3>1 DEF InHandPc
    <3> QED BY <3>1, <3>2, <2>1, <1>i
  <2>5. CASE tick' = Claiming(RunFor(RunOf[t]), tick.todo \ {t})
    BY <2>1, <2>3, <2>5, <1>f, <1>j
  <2> QED BY <2>2, <2>4, <2>5
<1>10. CASE TickSpawns
  <2>1. /\ tick'.pc \in {"claim", "block"}
        /\ tick'.pass = tick.pass /\ tick'.todo = tick.todo
    BY <1>10 DEF TickSpawns, TickGoes, TickState
  <2> QED BY <1>10, <2>1, <1>i DEF TickSpawns, TickAt, InClaimPass, InHandPc
<1>11. CASE TickBlocks \/ TickBumps \/ TickRevives
  <2>1. tick.pc \in {"block", "bump", "revive"}
    BY <1>11 DEF TickBlocks, TickBumps, TickRevives, TickAt
  <2>2. CASE tick' = TickGoesOn
    <3>1. CASE tick.pass = "claim"
      <4>1. InClaimPass
        BY <2>1, <3>1 DEF InClaimPass
      <4>2. tick' = Claiming(tick, tick.todo \ {tick.cur})
        BY <2>2, <3>1 DEF TickGoesOn
      <4> QED BY <4>1, <4>2, <1>f, <1>j
    <3>2. CASE tick.pass # "claim"
      BY <2>2, <3>2, <1>g DEF TickGoesOn
    <3> QED BY <3>1, <3>2
  <2>3. CASE \E pc \in {"bump", "revive"} : tick' = [tick EXCEPT !.pc = pc]
    <3>1. /\ tick'.pc \in {"bump", "revive"}
          /\ tick'.pass = tick.pass /\ tick'.todo = tick.todo
      BY <2>3 DEF TickState
    <3> QED BY <2>1, <3>1, <1>i DEF InClaimPass, InHandPc
  <2> QED BY <1>11, <2>2, <2>3 DEF TickBlocks, TickBumps, TickRevives, TickGoes
<1> QED BY <1>1, <1>2, <1>3, <1>4, <1>5, <1>6, <1>7, <1>8, <1>9, <1>10, <1>11,
           <1>k
        DEF TickStep

\* A claim spends the slot it reserved (claim_and_spawn).
LEMMA ClaimKeepsBudget ==
  ASSUME BoardAssumption, TInv, BudgetInv, TickClaims
  PROVE  BudgetInv'
<1> USE DEF TInv, TypeOK
<1>1. tick.cur \in tick.todo /\ tick.todo \in SUBSET Tasks /\ InClaimPass
  BY DEF TickClaims, TickAt, CurInHand, InHandPc, TickState, InClaimPass
<1>2. InFlight' \in SUBSET (InFlight \cup {tick.cur})
  BY <1>1 DEF TickClaims, Transition, StatusOf, InFlight, WithStatus, TaskRow
<1>3. IsFiniteSet(InFlight) /\ Cardinality(InFlight) \in Nat
  BY StatusSetsFinite DEF InFlight
<1>4. Cardinality(InFlight') <= Cardinality(InFlight) + 1 /\ Cardinality(InFlight') \in Nat
  <2>1. /\ IsFiniteSet(InFlight \cup {tick.cur})
        /\ Cardinality(InFlight \cup {tick.cur}) <= Cardinality(InFlight) + 1
        /\ Cardinality(InFlight \cup {tick.cur}) \in Nat
    <3>1. Cardinality(InFlight \cup {tick.cur})
            = IF tick.cur \in InFlight THEN Cardinality(InFlight)
              ELSE Cardinality(InFlight) + 1
      BY <1>3, FS_AddElement
    <3>2. IsFiniteSet(InFlight \cup {tick.cur})
      BY <1>3, FS_AddElement
    <3> HIDE DEF TInv, TypeOK
    <3> QED BY <1>3, <3>1, <3>2
  <2>2. /\ IsFiniteSet(InFlight')
        /\ Cardinality(InFlight') <= Cardinality(InFlight \cup {tick.cur})
    BY <1>2, <2>1, FS_Subset
  <2>3. Cardinality(InFlight') \in Nat
    BY <2>2, FS_CardinalityType
  <2> QED BY <1>3, <2>1, <2>2, <2>3
<1>5. /\ Cardinality(tick.todo) \in Nat
      /\ Cardinality(tick.todo \ {tick.cur}) = Cardinality(tick.todo) - 1
      /\ Cardinality(tick.todo \ {tick.cur}) \in Nat
  <2> HIDE DEF TInv, TypeOK
  <2> QED BY <1>1, TodoShrinks
<1>6. Cardinality(InFlight') + Cardinality(tick.todo \ {tick.cur}) <= Concurrency
  BY <1>1, <1>3, <1>4, <1>5 DEF BudgetInv, BoardAssumption
<1>7. WithinBudget'
  BY <1>4, <1>5, <1>6 DEF WithinBudget, BoardAssumption
<1>8. \/ tick' = NoTick
      \/ tick'.pc = "consider" /\ tick'.todo = tick.todo \ {tick.cur}
  BY DEF TickClaims, Claiming, TickState
<1>9. CASE tick' = NoTick
  BY <1>7, <1>9 DEF BudgetInv, InClaimPass, NoTick
<1>10. CASE tick'.pc = "consider" /\ tick'.todo = tick.todo \ {tick.cur}
  BY <1>6, <1>7, <1>10 DEF BudgetInv
<1> QED BY <1>8, <1>9, <1>10

\* BudgetInv is inductive as long as nobody claims over the API.
LEMMA BudgetInductive ==
  ASSUME "Claim" \notin Ops
  PROVE  /\ Init => BudgetInv
         /\ TInv /\ BudgetInv /\ [Next]_vars => BudgetInv'
<1>1. ASSUME Init PROVE BudgetInv
  <2>1. InFlight = {}
    BY <1>1 DEF Init, InFlight, WithStatus, StatusOf, InFlightStatus
  <2> QED BY <1>1, <2>1, FS_EmptySet, BoardAssumption
          DEF Init, BudgetInv, WithinBudget, InClaimPass, NoTick, BoardAssumption
<1>2. ASSUME TInv, BudgetInv, [Next]_vars PROVE BudgetInv'
  <2>1. CASE TickClaims
    BY <2>1, <1>2, ClaimKeepsBudget, BoardAssumption
  <2>2. CASE ~TickClaims
    <3>1. NoneTakesOff
      BY <2>2, <1>2, FlightShrinks
    <3>2. CASE TickStep
      BY <2>2, <3>1, <3>2, <1>2, TickKeepsBudget, BoardAssumption
    <3>3. CASE ~TickStep
      <4>1. /\ Cardinality(InFlight') <= Cardinality(InFlight)
            /\ Cardinality(WithStatus({"running"})')
                 <= Cardinality(WithStatus({"running"}))
            /\ Cardinality(InFlight') \in Nat /\ Cardinality(InFlight) \in Nat
            /\ Cardinality(WithStatus({"running"})') \in Nat
            /\ Cardinality(WithStatus({"running"})) \in Nat
        BY <3>1, FlightCount, BoardAssumption
      <4>2. tick' = NoTick \/ tick' = tick
        BY <1>2, <3>3
        DEF Next, vars, Crash, HeartbeatStales, AgentStep, AgentRegisters, AgentPosts,
            AgentParks, AgentWakes, AgentExits, AgentsOnly, OperOpensRun, OperOpensTask,
            OperStep, OperLists, OperKills, OperApplies, OperCloses, OperMoves,
            Heartbeats, OperWrites, LoopStep, LoopPolls, LoopGivesUp, LoopGates,
            LoopChecks, LoopLands, LoopRecords, LoopBlocks, LoopBumps, LoopRevives,
            LoopExits, LoopAlone
      <4>3. tick.todo \in SUBSET Tasks /\ tick.slots \in Nat /\ Concurrency \in Nat
        BY <1>2, BoardAssumption DEF TInv, TypeOK, TickState, BoardAssumption
      <4>4. Cardinality(tick.todo) \in Nat
        BY <4>3, BoardAssumption, TodoShrinks
      <4>5. WithinBudget'
        BY <1>2, <4>1, <4>3 DEF BudgetInv, WithinBudget
      <4>6. CASE tick' = NoTick
        BY <4>5, <4>6 DEF BudgetInv, InClaimPass, NoTick
      <4>7. CASE tick' = tick
        BY <1>2, <4>1, <4>3, <4>4, <4>5, <4>7 DEF BudgetInv, InClaimPass
      <4> QED BY <4>2, <4>6, <4>7
    <3> QED BY <3>2, <3>3
  <2> QED BY <2>1, <2>2
<1> QED BY <1>1, <1>2

\* Never more tasks in flight than the configured concurrency, as long as
\* nobody claims over the API (tick.rs, budget and claim_and_spawn).
THEOREM BudgetHolds ==
  ASSUME "Claim" \notin Ops
  PROVE  Spec => []WithinBudget
<1>1. BudgetInv => WithinBudget
  BY DEF BudgetInv
<1> QED BY <1>1, TInvInductive, BudgetInductive, PTL DEF Spec

-----------------------------------------------------------------------------

\* Who is between its comparison with the cap and its bump.
LoopOwes(t) == \E k \in Copy : LoopAt(t, k, "bump")
TickOwes(t) == tick.pc = "bump" /\ tick.cur = t

\* A retry that is owed was within the cap when it was granted, and two that
\* are owed at once were granted against the same count.
RetryInv ==
  \A t \in Tasks :
    /\ task[t].retries <= RetryCap[t] + 1
    /\ LoopOwes(t) \/ TickOwes(t) => task[t].retries <= RetryCap[t] /\ RetryCap[t] > 0
    /\ LoopOwes(t) /\ TickOwes(t) => task[t].retries < RetryCap[t]

\* A step that grants no retry for t and counts none.
Ungranted(t) ==
  /\ task'[t].retries \in {0, task[t].retries}
  /\ LoopOwes(t)' => LoopOwes(t)
  /\ TickOwes(t)' => TickOwes(t)

\* It keeps RetryInv.
LEMMA UngrantedKeepsRetry ==
  ASSUME BoardAssumption, TInv, RetryInv, \A t \in Tasks : Ungranted(t)
  PROVE  RetryInv'
<1> SUFFICES ASSUME NEW t \in Tasks
             PROVE  /\ task'[t].retries <= RetryCap[t] + 1
                    /\ LoopOwes(t)' \/ TickOwes(t)'
                         => task'[t].retries <= RetryCap[t] /\ RetryCap[t] > 0
                    /\ LoopOwes(t)' /\ TickOwes(t)' => task'[t].retries < RetryCap[t]
  BY DEF RetryInv
<1>1. RetryCap[t] \in Nat /\ task[t].retries \in Nat
  BY DEF BoardAssumption, TInv, TypeOK, TaskRow
<1> QED BY <1>1 DEF RetryInv, Ungranted

\* A step that grants or counts a retry does so for one task t.
LEMMA OneGranted ==
  ASSUME BoardAssumption, TInv, RetryInv, NEW t \in Tasks,
         \A u \in Tasks \ {t} : Ungranted(u),
         /\ task'[t].retries <= RetryCap[t] + 1
         /\ LoopOwes(t)' \/ TickOwes(t)'
              => task'[t].retries <= RetryCap[t] /\ RetryCap[t] > 0
         /\ LoopOwes(t)' /\ TickOwes(t)' => task'[t].retries < RetryCap[t]
  PROVE  RetryInv'
<1>1. \A u \in Tasks : RetryCap[u] \in Nat /\ task[u].retries \in Nat
  BY DEF BoardAssumption, TInv, TypeOK, TaskRow
<1>2. ASSUME NEW u \in Tasks \ {t}
      PROVE  /\ task'[u].retries <= RetryCap[u] + 1
             /\ LoopOwes(u)' \/ TickOwes(u)'
                  => task'[u].retries <= RetryCap[u] /\ RetryCap[u] > 0
             /\ LoopOwes(u)' /\ TickOwes(u)' => task'[u].retries < RetryCap[u]
  <2>1. /\ task[u].retries <= RetryCap[u] + 1
        /\ LoopOwes(u) \/ TickOwes(u) => task[u].retries <= RetryCap[u] /\ RetryCap[u] > 0
        /\ LoopOwes(u) /\ TickOwes(u) => task[u].retries < RetryCap[u]
    BY DEF RetryInv
  <2>2. Ungranted(u) /\ RetryCap[u] \in Nat /\ task[u].retries \in Nat
    BY <1>1
  <2> QED BY <2>1, <2>2 DEF Ungranted
<1> QED BY <1>2 DEF RetryInv

\* A loop's step grants a retry in block() and counts it in its bump only.
LEMMA LoopKeepsRetry ==
  ASSUME BoardAssumption, TInv, DrivenOnce, RetryInv,
         NEW t \in Tasks, NEW k \in Copy, LoopStep(t, k)
  PROVE  RetryInv'
<1> USE DEF TInv, TypeOK
<1>a. LoopActive(t, k) /\ \A c \in Copy \ {k} : ~LoopActive(t, c)
  BY DEF LoopStep, LoopPolls, LoopGivesUp, LoopGates, LoopChecks, LoopLands,
         LoopRecords, LoopBlocks, LoopBumps, LoopRevives, LoopExits, LoopAt,
         LoopActive, DrivenOnce, Copy
<1>b. \A u \in Tasks, c \in Copy : <<u, c>> # <<t, k>> => loop'[u][c] = loop[u][c]
  BY DEF LoopStep, LoopPolls, PollWorking, PollIdle, PollGone, LoopGivesUp, LoopGates,
         LoopChecks, LoopLands, LoopRecords, LoopBlocks, LoopBumps, LoopRevives,
         LoopExits, LoopGoes
<1>c. \A u \in Tasks :
        /\ TickOwes(u)' <=> TickOwes(u)
        /\ u # t => (LoopOwes(u)' <=> LoopOwes(u))
  <2>1. UNCHANGED tick
    BY DEF LoopStep, LoopPolls, LoopGivesUp, LoopGates, LoopChecks, LoopLands,
           LoopRecords, LoopBlocks, LoopBumps, LoopRevives, LoopExits, LoopAlone
  <2> QED BY <2>1, <1>b DEF TickOwes, LoopOwes, LoopAt
<1>d. LoopOwes(t) <=> loop[t][k].pc = "bump"
  BY <1>a DEF LoopOwes, LoopAt, LoopActive
<1>e. LoopOwes(t)' <=> loop'[t][k].pc = "bump"
  BY <1>a, <1>b DEF LoopOwes, LoopAt, LoopActive
<1>f. RetryCap[t] \in Nat /\ task[t].retries \in Nat
  BY DEF BoardAssumption, TaskRow
<1>1. CASE LoopBlocks(t, k)
  <2>1. \A u \in Tasks : task'[u].retries = task[u].retries
    BY <1>1, TransitionRow DEF LoopBlocks
  <2>2. LoopOwes(t)' => task[t].retries < RetryCap[t]
    BY <1>1, <1>e DEF LoopBlocks, LoopGoes, BlockThen
  <2>3. \A u \in Tasks \ {t} : Ungranted(u)
    BY <2>1, <1>c DEF Ungranted
  <2>4. /\ task[t].retries <= RetryCap[t] + 1
        /\ TickOwes(t) => task[t].retries <= RetryCap[t] /\ RetryCap[t] > 0
    BY DEF RetryInv
  <2>5. /\ task'[t].retries = task[t].retries
        /\ TickOwes(t)' <=> TickOwes(t)
    BY <2>1, <1>c
  <2>6. /\ task'[t].retries <= RetryCap[t] + 1
        /\ LoopOwes(t)' \/ TickOwes(t)'
             => task'[t].retries <= RetryCap[t] /\ RetryCap[t] > 0
        /\ LoopOwes(t)' /\ TickOwes(t)' => task'[t].retries < RetryCap[t]
    BY <2>2, <2>4, <2>5, <1>f
  <2> QED BY <2>3, <2>6, OneGranted
<1>2. CASE LoopBumps(t, k)
  <2>1. /\ \A u \in Tasks \ {t} : task'[u] = task[u]
        /\ task'[t].retries = task[t].retries + 1
    BY <1>2, BumpRow DEF LoopBumps
  <2>2. LoopOwes(t) /\ ~LoopOwes(t)'
    BY <1>2, <1>d, <1>e DEF LoopBumps, LoopAt, LoopGoes
  <2>3. \A u \in Tasks \ {t} : Ungranted(u)
    BY <2>1, <1>c DEF Ungranted
  <2>4. /\ task[t].retries <= RetryCap[t] /\ RetryCap[t] > 0
        /\ TickOwes(t) => task[t].retries < RetryCap[t]
    BY <2>2 DEF RetryInv
  <2>5. TickOwes(t)' <=> TickOwes(t)
    BY <1>c
  <2>6. /\ task'[t].retries <= RetryCap[t] + 1
        /\ LoopOwes(t)' \/ TickOwes(t)'
             => task'[t].retries <= RetryCap[t] /\ RetryCap[t] > 0
        /\ LoopOwes(t)' /\ TickOwes(t)' => task'[t].retries < RetryCap[t]
    BY <2>1, <2>2, <2>4, <2>5, <1>f
  <2> QED BY <2>3, <2>6, OneGranted
<1>3. CASE ~LoopBlocks(t, k) /\ ~LoopBumps(t, k)
  <2>1. \A u \in Tasks : task'[u].retries = task[u].retries
    <3>1. UNCHANGED task \/ \E kind : Transition(t, kind)
      BY <1>3 DEF LoopStep, LoopPolls, LoopGivesUp, LoopGates, LoopChecks, LoopLands,
                  LoopRecords, LoopRevives, LoopExits
    <3> QED BY <3>1, TransitionRow
  <2>2. ~LoopOwes(t)'
    <3>1. CASE loop' = [loop EXCEPT ![t][k].seen = TRUE]
      <4>1. loop[t][k].pc # "bump"
        BY <1>3, <3>1
        DEF LoopStep, LoopPolls, LoopGivesUp, LoopGates, LoopChecks, LoopLands,
            LoopRecords, LoopRevives, LoopExits, LoopAt
      <4>2. loop'[t][k].pc = loop[t][k].pc
        BY <3>1 DEF LoopState
      <4> QED BY <4>1, <4>2, <1>e
    <3>2. CASE \E pc \in LoopPc \ {"bump"} : LoopGoes(t, k, pc)
      BY <3>2, <1>e DEF LoopGoes
    <3>3. CASE loop' = [loop EXCEPT ![t][k] = NoLoop]
      BY <3>3, <1>e DEF NoLoop
    <3> QED BY <1>3, <3>1, <3>2, <3>3
            DEF LoopStep, LoopPolls, PollWorking, PollIdle, PollGone, LoopGivesUp,
                LoopGates, LoopChecks, LoopLands, LoopRecords, LoopRevives, LoopExits,
                LoopPc
  <2>3. \A u \in Tasks : Ungranted(u)
    BY <2>1, <2>2, <1>c DEF Ungranted
  <2> QED BY <2>3, UngrantedKeepsRetry
<1> QED BY <1>1, <1>2, <1>3

\* The tick's steps keep RetryInv as a loop's do.
LEMMA TickKeepsRetry ==
  ASSUME BoardAssumption, TInv, DrivenOnce, RetryInv, TickStep
  PROVE  RetryInv'
<1> USE DEF TInv, TypeOK
<1>a. tick.todo \subseteq Tasks /\ (tick.pc \in InHandPc => tick.cur \in Tasks)
  BY DEF TickState, CurInHand
<1>b. \A u \in Tasks : LoopOwes(u)' => LoopOwes(u)
  <2>1. UNCHANGED loop => \A u \in Tasks : LoopOwes(u)' => LoopOwes(u)
    BY DEF LoopOwes, LoopAt
  <2>2. ASSUME NEW t \in Tasks, NEW s, SpawnResume(t, s)
        PROVE  \A u \in Tasks : LoopOwes(u)' => LoopOwes(u)
    BY <2>2 DEF SpawnResume, LoopOwes, LoopAt, LoopActive, Copy
  <2> QED BY <2>1, <2>2, TickDrives
<1>c. \A t \in Tasks : RetryCap[t] \in Nat /\ task[t].retries \in Nat
  BY DEF BoardAssumption, TaskRow
<1>1. CASE TickBlocks
  <2>1. tick.cur \in Tasks
    BY <1>1, <1>a DEF TickBlocks, TickAt, InHandPc
  <2>2. \A u \in Tasks : task'[u].retries = task[u].retries
    BY <1>1, <2>1, TransitionRow DEF TickBlocks
  <2>3. \A u \in Tasks : TickOwes(u)' => task[u].retries < RetryCap[u]
    <3>1. TickGoesOn.pc # "bump"
      <4> DEFINE todo == tick.todo \ {tick.cur}
      <4>1. todo \in SUBSET Tasks /\ tick \in TickState
        BY <1>a
      <4>2. /\ Claiming(tick, todo).pc \in {"idle", "consider"}
            /\ Reconciling(todo).pc \in {"reconcile", "sweep", "reap"}
        BY <4>1, TickType
      <4> QED BY <4>2 DEF TickGoesOn
    <3>2. CASE BlockThen(tick.cur, "over") = "over"
      BY <1>1, <3>1, <3>2 DEF TickBlocks, TickOwes
    <3>3. CASE BlockThen(tick.cur, "over") # "over"
      <4>1. task[tick.cur].retries < RetryCap[tick.cur]
        BY <3>3 DEF BlockThen
      <4>2. tick'.cur = tick.cur
        BY <1>1, <3>3 DEF TickBlocks, TickState
      <4> QED BY <4>1, <4>2 DEF TickOwes
    <3> QED BY <3>2, <3>3
  <2> QED BY <2>2, <2>3, <1>b, <1>c DEF RetryInv
<1>2. CASE TickBumps
  <2>1. PICK t \in Tasks : t = tick.cur
    BY <1>2, <1>a DEF TickBumps, TickAt, InHandPc
  <2>2. /\ \A u \in Tasks \ {t} : task'[u] = task[u]
        /\ task'[t].retries = task[t].retries + 1
    BY <1>2, <2>1, BumpRow DEF TickBumps
  <2>3. TickOwes(t) /\ \A u \in Tasks : ~TickOwes(u)'
    BY <1>2, <2>1 DEF TickBumps, TickOwes, TickAt, TickGoes, TickState
  <2>4. \A u \in Tasks \ {t} : Ungranted(u)
    BY <2>2, <2>3, <1>b DEF Ungranted
  <2>5. /\ task[t].retries <= RetryCap[t] /\ RetryCap[t] > 0
        /\ LoopOwes(t) => task[t].retries < RetryCap[t]
    BY <2>3 DEF RetryInv
  <2>6. /\ RetryCap[t] \in Nat /\ task[t].retries \in Nat
        /\ LoopOwes(t)' => LoopOwes(t)
        /\ ~TickOwes(t)'
    BY <2>3, <1>b, <1>c
  <2>7. /\ task'[t].retries <= RetryCap[t] + 1
        /\ LoopOwes(t)' \/ TickOwes(t)'
             => task'[t].retries <= RetryCap[t] /\ RetryCap[t] > 0
        /\ LoopOwes(t)' /\ TickOwes(t)' => task'[t].retries < RetryCap[t]
    BY <2>2, <2>5, <2>6
  <2> QED BY <2>4, <2>7, OneGranted
<1>3. CASE ~TickBlocks /\ ~TickBumps
  <2>1. \A u \in Tasks : task'[u].retries = task[u].retries
    <3>1. UNCHANGED task \/ \E t \in Tasks, kind \in Kind : Transition(t, kind)
      BY <1>3, <1>a
      DEF TickStep, TickReads, TickBegins, TickSweeps, TickKillsWedged, TickReclaims,
          TickReaps, TickListsOrphans, TickReattaches, TickExcludesRuns, TickFindsReady,
          TickPromotes, TickCountsRunning, TickCountsGating, TickListsReady, TickListsRunning,
             TickConsiders,
          TickSpawns, TickClaims, TickRevives, Heads, TickAt, InHandPc, Kind
    <3> QED BY <3>1, TransitionRow
  <2>2. tick'.pc # "bump"
    BY <1>3, TickEnters
  <2> QED BY <2>1, <2>2, <1>b, UngrantedKeepsRetry DEF Ungranted, TickOwes
<1> QED BY <1>1, <1>2, <1>3

\* RetryInv is inductive.
LEMMA RetryInductive ==
  /\ Init => RetryInv
  /\ TInv /\ DrivenOnce /\ RetryInv /\ [Next]_vars => RetryInv'
<1>1. ASSUME Init PROVE RetryInv
  BY <1>1, BoardAssumption
  DEF Init, RetryInv, LoopOwes, LoopAt, TickOwes, NoLoop, NoTick, BoardAssumption
<1>2. ASSUME TInv, DrivenOnce, RetryInv, [Next]_vars PROVE RetryInv'
  <2>1. CASE TickStep
    BY <2>1, <1>2, TickKeepsRetry, BoardAssumption
  <2>2. CASE \E t \in Tasks, k \in Copy : LoopStep(t, k)
    BY <2>2, <1>2, LoopKeepsRetry, BoardAssumption
  <2>3. CASE ~TickStep /\ ~\E t \in Tasks, k \in Copy : LoopStep(t, k)
    <3>1. \A u \in Tasks : task'[u].retries \in {0, task[u].retries}
      <4>1. \/ UNCHANGED task
            \/ OperApplies
            \/ \E t \in Tasks : \E kind : Transition(t, kind)
        BY <1>2, <2>3
        DEF Next, vars, Crash, HeartbeatStales, AgentStep, AgentRegisters, AgentPosts,
            AgentParks, AgentWakes, AgentExits, AgentsOnly, OperOpensRun, OperOpensTask,
            OperStep, OperLists, OperKills, OperCloses, OperMoves, Heartbeats
      <4>2. OperApplies => \E t \in Tasks : Reset(t) \/ \E kind : Transition(t, kind)
        BY <1>2 DEF OperApplies, Apply, Heads, TInv, TypeOK, OperState
      <4> QED BY <4>1, <4>2, <1>2, TransitionRow, ResetRow DEF TInv, TypeOK
    <3>2. \A u \in Tasks : LoopOwes(u)' => LoopOwes(u)
      <4>1. \/ UNCHANGED loop
            \/ loop' = [t \in Tasks |-> [k \in Copy |-> NoLoop]]
            \/ \E t \in Tasks, k \in Copy, pc \in {"signalled", "block"} : LoopGoes(t, k, pc)
        BY <1>2, <2>3
        DEF Next, vars, Crash, HeartbeatStales, AgentStep, AgentRegisters, AgentPosts,
            AgentParks, AgentWakes, AgentExits, AgentsOnly, OperOpensRun, OperOpensTask,
            OperStep, OperLists, OperKills, OperApplies, OperCloses, OperMoves,
            Heartbeats, OperWrites
      <4>2. CASE UNCHANGED loop
        BY <4>2 DEF LoopOwes, LoopAt
      <4>3. CASE loop' = [t \in Tasks |-> [k \in Copy |-> NoLoop]]
        BY <4>3 DEF LoopOwes, LoopAt, NoLoop
      <4>4. CASE \E t \in Tasks, k \in Copy, pc \in {"signalled", "block"} : LoopGoes(t, k, pc)
        <5>1. PICK t \in Tasks, k \in Copy, pc \in {"signalled", "block"} : LoopGoes(t, k, pc)
          BY <4>4
        <5>2. \A u \in Tasks, c \in Copy : loop'[u][c].pc = "bump" => loop[u][c].pc = "bump"
          BY <5>1, <1>2 DEF LoopGoes, TInv, TypeOK
        <5> QED BY <5>2 DEF LoopOwes, LoopAt
      <4> QED BY <4>1, <4>2, <4>3, <4>4
    <3>3. \A u \in Tasks : TickOwes(u)' => TickOwes(u)
      <4>1. tick' = NoTick \/ tick' = tick
        BY <1>2, <2>3
        DEF Next, vars, Crash, HeartbeatStales, AgentStep, AgentRegisters, AgentPosts,
            AgentParks, AgentWakes, AgentExits, AgentsOnly, OperOpensRun, OperOpensTask,
            OperStep, OperLists, OperKills, OperApplies, OperCloses, OperMoves,
            Heartbeats, OperWrites
      <4> QED BY <4>1 DEF TickOwes, NoTick
    <3> QED BY <3>1, <3>2, <3>3, <1>2, UngrantedKeepsRetry, BoardAssumption DEF Ungranted
  <2> QED BY <2>1, <2>2, <2>3
<1> QED BY <1>1, <1>2

\* Auto-retries overrun their cap by one at most, for any cap and any number
\* of tasks (block.rs).
THEOREM RetriesBounded == Spec => []RetriesNearCap
<1>1. RetryInv => RetriesNearCap
  BY DEF RetryInv, RetriesNearCap
<1> QED BY <1>1, TInvInductive, DrivenInductive, RetryInductive, PTL DEF Spec
=============================================================================
