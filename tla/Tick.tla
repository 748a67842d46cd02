-------------------------------- MODULE Tick --------------------------------
(***************************************************************************)
(* One pass of the supervisor (scheduler/tick.rs and scheduler/reclaim.rs):*)
(* reconcile, reap, re-attach, promote, claim and spawn.                   *)
(*                                                                         *)
(* Every query of the store or of hcom is a step and every write is a step *)
(* of its own, so that drive loops, agents and operators can act between a *)
(* listing and what the tick does with it. Queries succeed, except hcom's. *)
(***************************************************************************)
EXTENDS DriveLoop

TickAt(pc) == tick.pc = pc
TickGoes(pc) == tick' = [tick EXCEPT !.pc = pc]

\* The tick reads; nothing but its own locals changes.
TickReads == UNCHANGED <<task, run, agents, beating, driving, loop, oper, merged,
                         crashes>>
\* The tick writes task rows only.
TickWrites == UNCHANGED <<run, agents, beating, driving, loop, oper, merged,
                          crashes>>
----------------------------------------------------------------------------
(* reconcile.                                                              *)

\* hcom list opens a pass. A failure skips the reconciliation. A task whose
\* only agents are launch-wedged is found wedged; with others under the same
\* tag it depends on which one the listing names first.
TickBegins ==
  /\ TickAt("idle")
  /\ \/ TickGoes("orphans")
     \/ LET walled == {t \in Tasks : agents[t]["wedged"] > 0}
            mixed == {t \in walled : Has(t, {"working", "parked"})}
        IN \E first \in SUBSET mixed :
             tick' = [tick EXCEPT !.pc = "sweep",
                        !.live = {t \in Tasks : Has(t, Registered)},
                        !.wedged = (walled \ mixed) \cup first]
  /\ TickReads

\* Where reconcile is with todo still to handle.
Reconciling(todo) ==
  LET next == IF todo # {} THEN [pc |-> "reconcile", pass |-> tick.pass]
              ELSE IF tick.pass = "running" THEN [pc |-> "sweep", pass |-> "gating"]
              ELSE [pc |-> "reap", pass |-> "running"]
  IN [tick EXCEPT !.pc = next.pc, !.pass = next.pass, !.todo = todo,
                  !.cur = NoTask]

\* A task is due when its agent is wedged or when no live agent carries its
\* tag and its heartbeat is old.
TickSweeps ==
  /\ TickAt("sweep")
  /\ tick' = Reconciling({t \in WithStatus({tick.pass}) :
                            \/ t \in tick.wedged
                            \/ t \notin tick.live /\ t \notin beating})
  /\ TickReads

\* A wedged agent is killed (best-effort), then its task is blocked.
TickKillsWedged ==
  /\ TickAt("reconcile")
  /\ \E t \in Heads(tick.todo) \cap tick.wedged :
       /\ KillTag(t) \/ UNCHANGED agents
       /\ tick' = [tick EXCEPT !.pc = "block", !.cur = t]
  /\ UNCHANGED <<task, run, beating, driving, loop, oper, merged, crashes>>

TickReclaims ==
  /\ TickAt("reconcile")
  /\ \E t \in Heads(tick.todo) \ tick.wedged :
       /\ Transition(t, "Reclaim")
       /\ tick' = Reconciling(tick.todo \ {t})
  /\ TickWrites

\* Agents hcom listed for tasks that are done or blocked by now are killed,
\* those for which the kill fails excepted. The listings and the kills are
\* one step: only the tick starts agents, so none can come in between.
TickReaps ==
  /\ TickAt("reap")
  /\ \E K \in SUBSET (tick.live \cap WithStatus({"done", "blocked"})) :
       agents' = [t \in Tasks |-> IF t \in K THEN NoAgents ELSE agents[t]]
  /\ tick' = [tick EXCEPT !.pc = "orphans", !.live = {}, !.wedged = {}]
  /\ UNCHANGED <<task, run, beating, driving, loop, oper, merged, crashes>>
----------------------------------------------------------------------------
(* reattach_orphans.                                                       *)

\* Where reattach_orphans is with todo still to handle.
Reattaching(todo) ==
  LET next == IF todo # {} THEN [pc |-> "reattach", pass |-> tick.pass]
              ELSE IF tick.pass = "running" THEN [pc |-> "orphans", pass |-> "gating"]
              ELSE [pc |-> "excluded", pass |-> "claim"]
  IN [tick EXCEPT !.pc = next.pc, !.pass = next.pass, !.todo = todo]

TickListsOrphans ==
  /\ TickAt("orphans")
  /\ tick' = Reattaching(WithStatus({tick.pass}))
  /\ TickReads

\* The loop starts from the status that was listed, which is tick.pass.
TickReattaches ==
  /\ TickAt("reattach")
  /\ \E t \in Heads(tick.todo) :
       /\ SpawnResume(t, tick.pass)
       /\ tick' = Reattaching(tick.todo \ {t})
  /\ UNCHANGED <<task, run, agents, beating, oper, merged, crashes>>
----------------------------------------------------------------------------
(* promote.                                                                *)

\* unpromotable_run_ids; tick.goes holds the runs that remain.
TickExcludesRuns ==
  /\ TickAt("excluded")
  /\ tick' = [tick EXCEPT !.pc = "newlyReady", !.goes = {r \in Runs : RunGoes(r)}]
  /\ TickReads

Promoting(todo) ==
  [tick EXCEPT !.pc = IF todo = {} THEN "countRunning" ELSE "promote",
               !.todo = todo, !.goes = {}]

\* Mutant: a blocked dependency is as good as a finished one.
TickFindsSettled ==
  /\ TickAt("newlyReady")
  /\ tick' = Promoting({t \in WithStatus({"pending"}) :
                          /\ \A d \in Deps[t] : IsTerminal(StatusOf(d))
                          /\ RunOf[t] \in tick.goes \cup {NoRun}})
  /\ TickReads

\* Mutant: only a task without dependencies ever has them all done.
TickFindsRoots ==
  /\ TickAt("newlyReady")
  /\ tick' = Promoting({t \in WithStatus({"pending"}) :
                          /\ Deps[t] = {}
                          /\ RunOf[t] \in tick.goes \cup {NoRun}})
  /\ TickReads

\* newly_ready.
TickFindsReady ==
  /\ TickAt("newlyReady")
  /\ tick' = Promoting({t \in WithStatus({"pending"}) :
                          DepsDone(t) /\ RunOf[t] \in tick.goes \cup {NoRun}})
  /\ TickReads

TickPromotes ==
  /\ TickAt("promote")
  /\ \E t \in Heads(tick.todo) :
       /\ Transition(t, "Ready")
       /\ tick' = Promoting(tick.todo \ {t})
  /\ TickWrites
----------------------------------------------------------------------------
(* claim_and_spawn.                                                        *)

\* budget() counts the running tasks, then the gating ones.
TickCountsRunning ==
  /\ TickAt("countRunning")
  /\ tick' = [tick EXCEPT !.pc = "countGating",
                          !.slots = Cardinality(WithStatus({"running"}))]
  /\ TickReads

\* Mutant: the second query of the budget forgets the first.
TickCountsGatingOnly ==
  /\ TickAt("countGating")
  /\ LET used == Cardinality(WithStatus({"gating"}))
     IN tick' = IF used >= Concurrency THEN NoTick
                ELSE [tick EXCEPT !.pc = "listReady", !.slots = Concurrency - used]
  /\ TickReads

TickCountsGating ==
  /\ TickAt("countGating")
  /\ LET used == tick.slots + Cardinality(WithStatus({"gating"}))
     IN tick' = IF used >= Concurrency THEN NoTick
                ELSE [tick EXCEPT !.pc = "listReady", !.slots = Concurrency - used]
  /\ TickReads

\* fair_order: round-robin over the runs, in the order the listing S first
\* names them; the standalone tasks are one more run.
Bucket(S, t) == {u \in S : RunOf[u] = RunOf[t]}
Round(S, t) == Cardinality({u \in Bucket(S, t) : ListRank[u] < ListRank[t]})
FirstSeen(S, t) == CHOOSE n \in {ListRank[u] : u \in Bucket(S, t)} :
                     \A u \in Bucket(S, t) : n <= ListRank[u]
FairBefore(S, t, u) ==
  \/ Round(S, t) < Round(S, u)
  \/ Round(S, t) = Round(S, u) /\ FirstSeen(S, t) < FirstSeen(S, u)

\* The first n of S in that order.
FairTake(S, n) ==
  {X \in SUBSET S :
     /\ Cardinality(X) <= n
     /\ X = S \/ Cardinality(X) = n
     /\ \A t \in X, u \in S \ X : FairBefore(S, t, u)}

\* The claim loop of locals s with todo still to handle; the pass ends with it.
Claiming(s, todo) ==
  IF todo = {} THEN NoTick
  ELSE [s EXCEPT !.pc = "consider", !.todo = todo, !.cur = NoTask]

\* The ready tasks are listed and as many of them taken as there are slots ...
TickListsReady ==
  /\ TickAt("listReady")
  /\ \E X \in FairTake(WithStatus({"ready"}), tick.slots) :
       tick' = [tick EXCEPT !.pc = "listRunning", !.todo = X, !.slots = 0]
  /\ TickReads

\* ... then the running ones: their runs hold their shared trees.
TickListsRunning ==
  /\ TickAt("listRunning")
  /\ LET held == {RunOf[t] : t \in WithStatus({"running"})} \ {NoRun}
     IN tick' = Claiming([tick EXCEPT !.busy = held], tick.todo)
  /\ TickReads

\* run_for: the locals once the run r has been read, at most once a pass.
RunFor(r) ==
  IF r \in tick.known \cup {NoRun} THEN tick
  ELSE [tick EXCEPT !.known = @ \cup {r},
                    !.goes = IF RunGoes(r) THEN @ \cup {r} ELSE @]

\* The guards skip a task whose run does not go, and a Shared one whose run
\* is busy; else the claim goes ahead. Runs do not get in each other's way,
\* so their tasks are taken in any order, those of one run in listing order.
TickConsiders ==
  /\ TickAt("consider")
  /\ \E t \in tick.todo :
       LET s == RunFor(RunOf[t])
           goes == RunOf[t] \in s.goes \cup {NoRun}
           held == t \in SharedTree /\ RunOf[t] \in tick.busy
       IN /\ t \in Heads(Bucket(tick.todo, t))
          /\ tick' = IF goes /\ ~held
                     THEN [s EXCEPT !.pc = "spawn", !.cur = t]
                     ELSE Claiming(s, tick.todo \ {t})
  /\ TickReads

\* resolve_reuse, provision and hcom spawn. Any of them may fail; past the
\* bound the spawn does.
TickSpawns ==
  /\ TickAt("spawn")
  /\ \/ /\ AgentCount(tick.cur) < MaxAgents
        /\ agents' = [agents EXCEPT ![tick.cur]["launching"] = @ + 1]
        /\ TickGoes("claim")
     \/ UNCHANGED agents /\ TickGoes("block")
  /\ UNCHANGED <<task, run, beating, driving, loop, oper, merged, crashes>>

\* Mutant: the claimed task's run is not marked busy.
TickClaimsUnmarked ==
  /\ TickAt("claim")
  /\ Transition(tick.cur, "Claim")
  /\ IF CanMove(tick.cur, "Claim") THEN SpawnResume(tick.cur, "running")
     ELSE UNCHANGED <<driving, loop>>
  /\ tick' = Claiming(tick, tick.todo \ {tick.cur})
  /\ UNCHANGED <<run, agents, beating, oper, merged, crashes>>

\* The Claim transition. When it is refused the agent just spawned stays.
TickClaims ==
  /\ TickAt("claim")
  /\ Transition(tick.cur, "Claim")
  /\ LET t == tick.cur
         taken == {RunOf[t]} \ {NoRun}
     IN IF CanMove(t, "Claim")
        THEN /\ SpawnResume(t, "running")
             /\ tick' = Claiming([tick EXCEPT !.busy = @ \cup taken],
                                 tick.todo \ {t})
        ELSE /\ tick' = Claiming(tick, tick.todo \ {t})
             /\ UNCHANGED <<driving, loop>>
  /\ UNCHANGED <<run, agents, beating, oper, merged, crashes>>
----------------------------------------------------------------------------
(* block() as the tick calls it, for a wedged agent or a failed spawn.     *)

\* The tick goes on with the loop that called block().
TickGoesOn == IF tick.pass = "claim" THEN Claiming(tick, tick.todo \ {tick.cur})
              ELSE Reconciling(tick.todo \ {tick.cur})

TickBlocks ==
  /\ TickAt("block")
  /\ Transition(tick.cur, "Block")
  /\ tick' = IF BlockThen(tick.cur, "over") = "over" THEN TickGoesOn
             ELSE [tick EXCEPT !.pc = "bump"]
  /\ TickWrites

TickBumps ==
  /\ TickAt("bump")
  /\ BumpRetries(tick.cur)
  /\ TickGoes("revive")
  /\ TickWrites

TickRevives ==
  /\ TickAt("revive")
  /\ Transition(tick.cur, "Revive")
  /\ tick' = TickGoesOn
  /\ TickWrites

TickStep ==
  \/ TickBegins
  \/ TickSweeps
  \/ TickKillsWedged
  \/ TickReclaims
  \/ TickReaps
  \/ TickListsOrphans
  \/ TickReattaches
  \/ TickExcludesRuns
  \/ TickFindsReady
  \/ TickPromotes
  \/ TickCountsRunning
  \/ TickCountsGating
  \/ TickListsReady
  \/ TickListsRunning
  \/ TickConsiders
  \/ TickSpawns
  \/ TickClaims
  \/ TickBlocks
  \/ TickBumps
  \/ TickRevives
=============================================================================
