----------------------------- MODULE TaskGraph -----------------------------
(***************************************************************************)
(* Authoring against a scheduler that runs: tasks are created, edited,     *)
(* imported and deleted, and a workflow is created, started, stopped,      *)
(* restarted and deleted, while the supervisor promotes and claims.        *)
(*                                                                         *)
(* A dependency is kept twice: as an id in the task's row and as an edge   *)
(* of the graph. Promotion follows the edges, a start the rows; no handler *)
(* writes both at once. A write of a row reads it first and writes all of  *)
(* it back; an edit and an import write by upsert. Requests come over REST *)
(* or MCP, which go through the same steps but for a start's preflight.    *)
(***************************************************************************)
EXTENDS Naturals, FiniteSets, TaskStatus

CONSTANTS
    GTasks,         \* ids of tasks
    Authors,        \* requests being served at once
    NoGRow,         \* no such row
    Boards          \* the rows that may be there at first, the verbs that may
                    \* be asked of them, and the bounds on the requests and on
                    \* the deaths of the daemon

VARIABLES
    gRow,           \* the task rows
    gEdges,         \* the depends_on relation
    gFlow,          \* the workflow's row
    gCall,          \* what each request, and the supervisor's tick, is doing
    gToCome,        \* the requests and the deaths still to come
    gOdd,           \* dependencies that row and graph disagree on because the
                    \* dependency was deleted, or dropped by a re-import
    gMessy,         \* tasks that two calls wrote at once, or one wrote that died
    gStray          \* tasks of a workflow that was deleted meanwhile, and tasks
                    \* added anew under an id the tick was about to claim
                    \* (the last three are kept for the properties only)

gVars == <<gRow, gEdges, gFlow, gCall, gToCome, gOdd, gMessy, gStray>>
liveVars == <<gRow, gEdges, gFlow, gCall, gToCome>>
ghosts == <<gOdd, gStray>>

Tick == "tick"
Callers == Authors \cup {Tick}
GStatus == Status \ {"gating"}
Links == GTasks \X GTasks

GRows == [status : GStatus, deps : SUBSET GTasks, flow : BOOLEAN]
GFlows == [active : BOOLEAN, started : BOOLEAN, ever : BOOLEAN]

Verbs == {"add", "create", "update", "import", "delete", "ready", "cancel", "retry",
          "revive", "promote", "start", "stop", "resume", "restart", "softRestart",
          "deleteFlow"}

Singles == {"ready", "cancel", "retry", "revive"}

\* At first, a task is of the workflow only if there is one, and none of its
\* tasks runs before it was started. No request is called "tick".
ASSUME GraphConstants ==
    /\ NoGRow \notin GTasks \cup GRows \cup GFlows
    /\ "tick" \notin Authors
    /\ \A b \in Boards :
         /\ b.flow \in GFlows \cup {NoGRow} /\ b.rows \in [GTasks -> GRows \cup {NoGRow}]
         /\ b.toCome \in [asked : SUBSET Verbs, requests : Nat, deaths : Nat]
         /\ b.flow # NoGRow => (b.flow.started => b.flow.ever)
         /\ \A t \in GTasks : b.rows[t] # NoGRow /\ b.rows[t].flow =>
              /\ b.flow # NoGRow
              /\ b.flow.ever \/ b.rows[t].status # "running"

\* A call's place, what it was asked and what it has read: the rows still to
\* be handled, the edges to be cut and related, the row it is about to write.
GCalls == [verb : Verbs \cup {Tick}, at : STRING, id : GTasks \cup {NoGRow},
           todo : SUBSET GTasks, cut : SUBSET Links, wire : SUBSET Links,
           copy : GRows \cup {NoGRow}, mine : SUBSET GTasks, shut : BOOLEAN]

NoGCall == [verb |-> Tick, at |-> "idle", id |-> NoGRow, todo |-> {}, cut |-> {},
            wire |-> {}, copy |-> NoGRow, mine |-> {}, shut |-> FALSE]

HasGRow(t) == gRow[t] # NoGRow
HasFlow == gFlow # NoGRow
CallAt(c, p) == gCall[c].at = p
Is(c, verbs) == gCall[c].verb \in verbs
Becomes(c, call) == gCall' = [gCall EXCEPT ![c] = call]
Ends(c) == Becomes(c, NoGCall)
FlowTasks == {t \in GTasks : HasGRow(t) /\ gRow[t].flow}
Where(statuses) == {t \in GTasks : HasGRow(t) /\ gRow[t].status \in statuses}
LinksOf(t, deps) == {t} \X deps

\* The tasks the tick has listed as ready and not come to yet.
ToClaim == IF gCall[Tick].at \in {"run", "claim", "claiming"} THEN gCall[Tick].todo ELSE {}

\* Lists are handled in the order of record ids, the same one every time.
Foremost(S) == CHOOSE x \in S : TRUE

\* The call is over when nothing is left to cut or relate.
Wires(c, call) ==
    Becomes(c, IF call.cut \cup call.wire = {} THEN NoGCall
               ELSE [call EXCEPT !.at = "wire", !.copy = NoGRow])

(***************************************************************************)
(* Rows. Every transition and reset is a read and a write.                 *)
(***************************************************************************)
\* The fate of a call whose task is gone or may not move: the tick and the
\* workflow verbs log it and go on, the others report it.
Skips(c, t) ==
    IF Is(c, Singles \cup {"promote"}) THEN Ends(c)
    ELSE Becomes(c, [gCall[c] EXCEPT !.todo = @ \ {t}])

HoldsRow(c, t, row) ==
    Becomes(c, [gCall[c] EXCEPT !.at = "write", !.id = t, !.copy = row, !.todo = @ \ {t}])

Transitions(c, t, kind) ==
    IF HasGRow(t) /\ Legal(gRow[t].status, kind)
    THEN HoldsRow(c, t, [gRow[t] EXCEPT !.status = Target[kind]])
    ELSE Skips(c, t)

\* From any status, whatever the state machine says.
Resets(c, t) ==
    IF HasGRow(t) THEN HoldsRow(c, t, [gRow[t] EXCEPT !.status = "pending"])
    ELSE Skips(c, t)

Upserts(c) == Is(c, {"update", "import"})

\* An update of a row that is gone writes nothing, an upsert makes it anew.
\* An edit goes on to the edges, an import to the next task, a transition
\* back to the list it came from.
WritesGRow(c) ==
    /\ CallAt(c, "write")
    /\ LET call == gCall[c]
           t == call.id
           written == HasGRow(t) \/ Upserts(c) IN
       /\ gRow' = IF written THEN [gRow EXCEPT ![t] = call.copy] ELSE gRow
       /\ gOdd' = IF call.verb = "import" /\ HasGRow(t)
                  THEN gOdd \cup LinksOf(t, gRow[t].deps \ call.copy.deps) ELSE gOdd
       /\ gStray' = IF written /\ call.copy.flow /\ ~HasFlow THEN gStray \cup {t} ELSE gStray
       /\ CASE call.verb = "update" -> Wires(c, call)
            [] call.verb = "import" /\ call.todo = {} -> Wires(c, call)
            [] call.verb \in Singles -> Ends(c)
            [] OTHER -> Becomes(c, [call EXCEPT !.at = "each", !.id = NoGRow, !.copy = NoGRow])
    /\ UNCHANGED <<gEdges, gFlow, gToCome>>

(***************************************************************************)
(* Edges, one query each. Relating and unrelating twice is harmless.       *)
(***************************************************************************)
UnrelatesDep(c) ==
    /\ CallAt(c, "wire")
    /\ gCall[c].cut # {}
    /\ LET e == Foremost(gCall[c].cut) IN
         /\ gEdges' = gEdges \ {e}
         /\ Wires(c, [gCall[c] EXCEPT !.cut = @ \ {e}])
    /\ UNCHANGED <<gRow, gFlow, gToCome, ghosts>>

RelatesDep(c) ==
    /\ CallAt(c, "wire") /\ gCall[c].cut = {}
    /\ LET e == Foremost(gCall[c].wire) IN
         /\ gEdges' = gEdges \cup {e}
         /\ gOdd' = gOdd \ {e}
         /\ Wires(c, [gCall[c] EXCEPT !.wire = @ \ {e}])
    /\ UNCHANGED <<gRow, gFlow, gToCome, gStray>>

\* delete_task: the edges of both directions, then the row. The tasks that
\* depend on it keep its id in their rows.
CutsEdges(t) ==
    /\ gEdges' = {e \in gEdges : t \notin {e[1], e[2]}}
    /\ gOdd' = gOdd \cup {e \in gEdges : e[2] = t}

DropsRow(t) == gRow' = [gRow EXCEPT ![t] = NoGRow]

(***************************************************************************)
(* Authoring a task.                                                       *)
(***************************************************************************)
\* Which of the free places a request takes is immaterial.
Requests(c, verb) ==
    /\ c \in Authors /\ CallAt(c, "idle")
    /\ c = Foremost({a \in Authors : CallAt(a, "idle")})
    /\ verb \in gToCome.asked /\ gToCome.requests > 0
    /\ gToCome' = [gToCome EXCEPT !.requests = @ - 1]

Fresh(verb, at) == [NoGCall EXCEPT !.verb = verb, !.at = at]

\* deps_with_reuse: a source that is a known task is a dependency as well.
WithReuse(deps, source) == deps \cup {s \in source : HasGRow(s)}

\* A workflow's task, inline or from a template; the workflow and the source
\* are looked up before the task is inserted.
AddsTask(c) ==
    /\ Requests(c, "add")
    /\ HasFlow
    /\ \E t \in GTasks : \E deps \in SUBSET (GTasks \ {t}), source \in {{}} \cup {{s} : s \in GTasks \ {t}} :
         Becomes(c, [Fresh("add", "insert") EXCEPT !.id = t,
                        !.wire = LinksOf(t, WithReuse(deps, source))])
    /\ UNCHANGED <<gRow, gEdges, gFlow, ghosts>>

CreatesTask(c) ==
    /\ Requests(c, "create")
    /\ \E t \in GTasks : \E deps \in SUBSET (GTasks \ {t}) :
         Becomes(c, [Fresh("create", "insert") EXCEPT !.id = t, !.wire = LinksOf(t, deps)])
    /\ UNCHANGED <<gRow, gEdges, gFlow, ghosts>>

\* create_task refuses an id that is taken: the store refuses it at the write
\* as well, so that the look and the write are one step. The row stands,
\* pending, before the first of its edges does.
InsertsTask(c) ==
    /\ CallAt(c, "insert")
    /\ LET call == gCall[c]
           flow == call.verb = "add" IN
       IF HasGRow(call.id)
       THEN Ends(c) /\ UNCHANGED <<gRow, gStray>>
       ELSE /\ gRow' = [gRow EXCEPT ![call.id] =
                           [status |-> "pending", deps |-> {e[2] : e \in call.wire}, flow |-> flow]]
            /\ gStray' = IF flow /\ (~HasFlow \/ call.id \in ToClaim)
                         THEN gStray \cup {call.id} ELSE gStray
            /\ Wires(c, call)
    /\ UNCHANGED <<gEdges, gFlow, gToCome, gOdd>>

\* Mutant: an edit relates its new dependencies and leaves the old edges.
CutOfKeepsOld(old, deps) == {}

\* The edges an edit drops, by the row it read first.
CutOf(old, deps) == old \ deps

UpdatesTask(c) ==
    /\ Requests(c, "update")
    /\ \E t \in GTasks : \E deps \in SUBSET (GTasks \ {t}) :
         /\ HasGRow(t)
         /\ Becomes(c, [Fresh("update", "load") EXCEPT !.id = t, !.mine = deps,
                           !.cut = LinksOf(t, CutOf(gRow[t].deps, deps)),
                           !.wire = LinksOf(t, deps \ gRow[t].deps)])
    /\ UNCHANGED <<gRow, gEdges, gFlow, ghosts>>

\* update_task reads the row a second time; "mine" is the edit's deps.
LoadsTask(c) ==
    /\ CallAt(c, "load")
    /\ LET call == gCall[c] IN
       IF HasGRow(call.id)
       THEN Becomes(c, [call EXCEPT !.at = "write",
                           !.copy = [gRow[call.id] EXCEPT !.deps = call.mine]])
       ELSE Ends(c)
    /\ UNCHANGED <<gRow, gEdges, gFlow, gToCome, ghosts>>

\* The seeds of a workfile: every row first, then every edge.
ImportsSeeds(c) ==
    /\ Requests(c, "import")
    /\ \E seeds \in (SUBSET GTasks) \ {{}} : \E wire \in SUBSET {e \in seeds \X GTasks : e[1] # e[2]} :
         Becomes(c, [Fresh("import", "each") EXCEPT !.todo = seeds, !.wire = wire])
    /\ UNCHANGED <<gRow, gEdges, gFlow, ghosts>>

\* upsert_task keeps the status of the row it finds and nothing of the
\* workflow it belonged to.
ImportsTask(c) ==
    /\ CallAt(c, "each") /\ Is(c, {"import"})
    /\ LET t == Foremost(gCall[c].todo) IN
         HoldsRow(c, t, [status |-> IF HasGRow(t) THEN gRow[t].status ELSE "pending",
                      deps |-> {e[2] : e \in {w \in gCall[c].wire : w[1] = t}}, flow |-> FALSE])
    /\ UNCHANGED <<gRow, gEdges, gFlow, gToCome, ghosts>>

DeletesGTask(c) ==
    /\ Requests(c, "delete")
    /\ \E t \in GTasks : CutsEdges(t) /\ Becomes(c, [Fresh("delete", "drop") EXCEPT !.id = t])
    /\ UNCHANGED <<gRow, gFlow, gStray>>

DropsTask(c) ==
    /\ CallAt(c, "drop")
    /\ DropsRow(gCall[c].id)
    /\ IF gCall[c].verb = "delete" THEN Ends(c)
       ELSE Becomes(c, [gCall[c] EXCEPT !.at = "each", !.id = NoGRow])
    /\ UNCHANGED <<gEdges, gFlow, gToCome, ghosts>>

(***************************************************************************)
(* One task's lifecycle: the board's drag to Ready, which asks neither the *)
(* dependencies nor the workflow, cancel, and the two retries, which ask   *)
(* for a blocked task first.                                               *)
(***************************************************************************)
MovesGTask(c) ==
    /\ \E t \in GTasks :
         \/ Requests(c, "ready") /\ Becomes(c, [Fresh("ready", "move") EXCEPT !.id = t])
         \/ Requests(c, "cancel") /\ Becomes(c, [Fresh("cancel", "move") EXCEPT !.id = t])
         \/ /\ t \in Where({"blocked"})
            /\ \E verb \in {"retry", "revive"} :
                 Requests(c, verb) /\ Becomes(c, [Fresh(verb, "move") EXCEPT !.id = t])
    /\ UNCHANGED <<gRow, gEdges, gFlow, ghosts>>

ReadsToMove(c) ==
    /\ CallAt(c, "move")
    /\ LET t == gCall[c].id IN
       CASE Is(c, {"ready"}) -> Transitions(c, t, "Ready")
         [] Is(c, {"cancel"}) -> Transitions(c, t, "Block")
         [] Is(c, {"revive"}) -> Transitions(c, t, "Revive")
         [] OTHER -> Resets(c, t)
    /\ UNCHANGED <<gRow, gEdges, gFlow, gToCome, ghosts>>

(***************************************************************************)
(* The workflow. A verb finds the run, changes its row, lists its tasks    *)
(* and handles them one at a time.                                         *)
(***************************************************************************)
CreatesFlow(c) ==
    /\ Requests(c, "add")
    /\ ~HasFlow
    /\ gFlow' = [active |-> TRUE, started |-> FALSE, ever |-> FALSE]
    /\ UNCHANGED <<gRow, gEdges, gCall, ghosts>>

AsksFlow(c) ==
    /\ HasFlow
    /\ \/ \E verb \in {"start", "stop", "resume"} :
             Requests(c, verb) /\ Becomes(c, Fresh(verb, "mark"))
       \/ \E verb \in {"restart", "softRestart", "deleteFlow"} :
             Requests(c, verb) /\ Becomes(c, Fresh(verb, "list"))
    /\ UNCHANGED <<gRow, gEdges, gFlow, ghosts>>

MarksFlow(c) ==
    /\ CallAt(c, "mark")
    /\ IF HasFlow
       THEN /\ gFlow' = IF Is(c, {"start"}) THEN [gFlow EXCEPT !.started = TRUE, !.ever = TRUE]
                        ELSE [gFlow EXCEPT !.active = Is(c, {"resume"})]
            /\ Becomes(c, [gCall[c] EXCEPT !.at = "list"])
       ELSE Ends(c) /\ UNCHANGED gFlow
    /\ UNCHANGED <<gRow, gEdges, gToCome, ghosts>>

\* start promotes by the ids in the rows and only within its own listing.
Roots == {t \in FlowTasks : /\ gRow[t].status = "pending"
                            /\ gRow[t].deps \subseteq (FlowTasks \cap Where({"done"}))}

Listing(verb) ==
    CASE verb = "start" -> Roots
      [] verb = "stop" -> FlowTasks \cap Where({"running"})
      [] verb = "resume" -> FlowTasks \cap Where({"blocked"})
      [] verb = "restart" -> FlowTasks \ Where({"pending"})
      [] verb = "softRestart" -> FlowTasks \ Where({"pending", "done"})
      [] OTHER -> FlowTasks

\* A workflow with live work is not deleted: it is stopped first.
HasLiveWork == FlowTasks \cap Where({"running"}) # {}

ListsFlow(c) ==
    /\ CallAt(c, "list")
    /\ IF Is(c, {"deleteFlow"}) /\ HasLiveWork THEN Ends(c)
       ELSE Becomes(c, [gCall[c] EXCEPT !.at = IF Is(c, {"deleteFlow"}) THEN "again" ELSE "each",
                                        !.todo = Listing(gCall[c].verb)])
    /\ UNCHANGED <<gRow, gEdges, gFlow, gToCome, ghosts>>

\* delete_run looks for the run and lists its tasks for itself.
ListsAgain(c) ==
    /\ CallAt(c, "again")
    /\ IF HasFlow THEN Becomes(c, [gCall[c] EXCEPT !.at = "each", !.todo = FlowTasks])
       ELSE Ends(c)
    /\ UNCHANGED <<gRow, gEdges, gFlow, gToCome, ghosts>>

HandlesTask(c) ==
    /\ CallAt(c, "each") /\ gCall[c].todo # {}
    /\ LET t == Foremost(gCall[c].todo) IN
         \/ Is(c, {"start"}) /\ Transitions(c, t, "Ready")
         \/ Is(c, {"stop"}) /\ Transitions(c, t, "Reclaim")
         \/ Is(c, {"resume", "restart", "softRestart"}) /\ Resets(c, t)
    /\ UNCHANGED <<gRow, gEdges, gFlow, gToCome, ghosts>>

DeletesFlowTask(c) ==
    /\ CallAt(c, "each") /\ Is(c, {"deleteFlow"}) /\ gCall[c].todo # {}
    /\ LET t == Foremost(gCall[c].todo) IN
         /\ CutsEdges(t)
         /\ Becomes(c, [gCall[c] EXCEPT !.at = "drop", !.id = t, !.todo = @ \ {t}])
    /\ UNCHANGED <<gRow, gFlow, gToCome, gStray>>

\* A restart un-activates the run last, a deletion drops its row last.
ClosesFlow(c) ==
    /\ CallAt(c, "each") /\ gCall[c].todo = {}
    /\ Is(c, {"start", "stop", "resume", "restart", "softRestart", "deleteFlow"})
    /\ gFlow' = CASE Is(c, {"deleteFlow"}) -> NoGRow
                  [] Is(c, {"restart", "softRestart"}) /\ HasFlow ->
                        [gFlow EXCEPT !.active = TRUE, !.started = FALSE]
                  [] OTHER -> gFlow
    /\ gStray' = IF Is(c, {"deleteFlow"}) THEN gStray \cup FlowTasks ELSE gStray
    /\ Ends(c)
    /\ UNCHANGED <<gRow, gEdges, gToCome, gOdd>>

(***************************************************************************)
(* Promotion, the tick's and the promote route's, and the claims.          *)
(***************************************************************************)
\* unpromotable_run_ids: only a run that has a row can be shut.
FlowShut == HasFlow /\ ~(gFlow.active /\ gFlow.started)

\* Mutant: promotion goes by the ids in the row, as a start does.
NewlyReadyByRow(shut) ==
    {t \in Where({"pending"}) :
        /\ ~(shut /\ gRow[t].flow)
        /\ gRow[t].deps \subseteq Where({"done"})}

\* Every target of the task's edges is done; a target that is gone is not.
NewlyReady(shut) ==
    {t \in Where({"pending"}) :
        /\ ~(shut /\ gRow[t].flow)
        /\ \A e \in gEdges : e[1] = t => e[2] \in Where({"done"})}

AsksPromote(c) ==
    /\ \/ c = Tick /\ CallAt(c, "idle") /\ UNCHANGED gToCome
          /\ Becomes(c, [NoGCall EXCEPT !.at = "query", !.shut = FlowShut])
       \/ Requests(c, "promote")
          /\ Becomes(c, [Fresh("promote", "query") EXCEPT !.shut = FlowShut])
    /\ UNCHANGED <<gRow, gEdges, gFlow, ghosts>>

QueriesReady(c) ==
    /\ CallAt(c, "query")
    /\ Becomes(c, [gCall[c] EXCEPT !.at = "each", !.todo = NewlyReady(gCall[c].shut)])
    /\ UNCHANGED <<gRow, gEdges, gFlow, gToCome, ghosts>>

PromotesTask(c) ==
    /\ CallAt(c, "each") /\ Is(c, {Tick, "promote"})
    /\ \/ gCall[c].todo # {} /\ Transitions(c, Foremost(gCall[c].todo), "Ready")
       \/ /\ gCall[c].todo = {}
          /\ IF c = Tick THEN Becomes(c, [gCall[c] EXCEPT !.at = "ready"]) ELSE Ends(c)
    /\ UNCHANGED <<gRow, gEdges, gFlow, gToCome, ghosts>>

\* The ready tasks, and which of them belong to the workflow.
TickListsReady ==
    /\ CallAt(Tick, "ready")
    /\ Becomes(Tick, IF Where({"ready"}) = {} THEN NoGCall
                     ELSE [gCall[Tick] EXCEPT !.at = "run", !.todo = Where({"ready"}),
                                              !.mine = FlowTasks])
    /\ UNCHANGED <<gRow, gEdges, gFlow, gToCome, ghosts>>

\* The run is read once for the pass. One that has no row holds nothing back.
TickReadsRun ==
    /\ CallAt(Tick, "run")
    /\ Becomes(Tick, [gCall[Tick] EXCEPT !.at = "claim", !.shut = FlowShut])
    /\ UNCHANGED <<gRow, gEdges, gFlow, gToCome, ghosts>>

\* Mutant: the claim does not ask whether the workflow was started.
ClaimableAnyFlow(t) == TRUE

Claimable(t) == ~(gCall[Tick].shut /\ t \in gCall[Tick].mine)

\* The worktree and the agent are provided for before the row is read.
TickClaims ==
    /\ CallAt(Tick, "claim")
    /\ \/ /\ gCall[Tick].todo = {}
          /\ Ends(Tick)
       \/ /\ gCall[Tick].todo # {}
          /\ LET t == Foremost(gCall[Tick].todo) IN
            IF Claimable(t) /\ HasGRow(t) /\ Legal(gRow[t].status, "Claim")
            THEN Becomes(Tick, [gCall[Tick] EXCEPT !.at = "claiming", !.id = t, !.todo = @ \ {t},
                                    !.copy = [gRow[t] EXCEPT !.status = "running"]])
            ELSE Becomes(Tick, [gCall[Tick] EXCEPT !.todo = @ \ {t}])
    /\ UNCHANGED <<gRow, gEdges, gFlow, gToCome, ghosts>>

TickWritesClaim ==
    /\ CallAt(Tick, "claiming")
    /\ LET t == gCall[Tick].id IN
         gRow' = IF HasGRow(t) THEN [gRow EXCEPT ![t] = gCall[Tick].copy] ELSE gRow
    /\ Becomes(Tick, [gCall[Tick] EXCEPT !.at = "claim", !.id = NoGRow, !.copy = NoGRow])
    /\ UNCHANGED <<gEdges, gFlow, gToCome, ghosts>>

\* The agent, the gate and the landing of a running task.
TaskEnds(t) ==
    /\ t \in Where({"running"})
    /\ \E s \in {"done", "blocked"} : gRow' = [gRow EXCEPT ![t].status = s]
    /\ UNCHANGED <<gEdges, gFlow, gCall, gToCome, ghosts>>

-----------------------------------------------------------------------------

\* The tasks a call has begun to write, or has a row of in its hands.
WrittenBy(c) ==
    LET call == gCall[c] IN
      ({call.id} \ {NoGRow}) \cup {e[1] : e \in call.cut \cup call.wire}
        \cup (IF call.verb \in {"import", "deleteFlow"} THEN call.todo ELSE {})

Contested == {t \in GTasks : \E c, d \in Callers : c # d /\ t \in WrittenBy(c) \cap WrittenBy(d)}

GraphDies ==
    /\ gToCome.deaths > 0
    /\ gToCome' = [gToCome EXCEPT !.deaths = @ - 1]
    /\ gCall' = [c \in Callers |-> NoGCall]
    /\ gMessy' = gMessy \cup UNION {WrittenBy(c) : c \in Callers}
    /\ UNCHANGED <<gRow, gEdges, gFlow, ghosts>>

GraphInit ==
    /\ \E b \in Boards : gFlow = b.flow /\ gRow = b.rows /\ gToCome = b.toCome
    /\ gEdges = {e \in Links : HasGRow(e[1]) /\ e[2] \in gRow[e[1]].deps}
    /\ gCall = [c \in Callers |-> NoGCall]
    /\ gOdd = {} /\ gMessy = {} /\ gStray = {}

\* Taking a request up, and the steps of serving it.
TakesUp(c) ==
    \/ AddsTask(c) \/ CreatesTask(c) \/ UpdatesTask(c) \/ ImportsSeeds(c) \/ DeletesGTask(c)
    \/ MovesGTask(c) \/ CreatesFlow(c) \/ AsksFlow(c) \/ (c # Tick /\ AsksPromote(c))

Serves(c) ==
    \/ InsertsTask(c) \/ LoadsTask(c) \/ WritesGRow(c) \/ UnrelatesDep(c) \/ RelatesDep(c)
    \/ ImportsTask(c) \/ DropsTask(c) \/ ReadsToMove(c)
    \/ MarksFlow(c) \/ ListsFlow(c) \/ ListsAgain(c) \/ HandlesTask(c) \/ DeletesFlowTask(c)
    \/ ClosesFlow(c) \/ QueriesReady(c) \/ PromotesTask(c)

TickWorks ==
    \/ AsksPromote(Tick) \/ Serves(Tick)
    \/ TickListsReady \/ TickReadsRun \/ TickClaims \/ TickWritesClaim

Alive(A) == A /\ gMessy' = gMessy \cup Contested'

GraphNext ==
    \/ Alive(TickWorks)
    \/ \E c \in Authors : Alive(TakesUp(c)) \/ Alive(Serves(c))
    \/ \E t \in GTasks : Alive(TaskEnds(t))
    \/ GraphDies

\* The supervisor ticks on, a request that was taken up is served, and a
\* task that runs comes to an end.
GraphSpec ==
    /\ GraphInit /\ [][GraphNext]_gVars
    /\ WF_liveVars(TickWorks)
    /\ WF_liveVars(\E c \in Authors : Serves(c))
    /\ WF_liveVars(\E t \in GTasks : TaskEnds(t))

-----------------------------------------------------------------------------

GraphTypeOK ==
    /\ gRow \in [GTasks -> GRows \cup {NoGRow}]
    /\ gEdges \subseteq Links
    /\ gFlow \in GFlows \cup {NoGRow}
    /\ \A c \in Callers : gCall[c].verb \in Verbs \cup {Tick} /\ gCall[c].todo \subseteq GTasks
    /\ gToCome \in [asked : SUBSET Verbs, requests : Nat, deaths : Nat]

\* Row and graph agree on a task's dependencies once nobody is writing it,
\* whatever creations, edits, imports and deletions came one after another:
\* the graph promotion follows is the one the author sees. Excepted are the
\* tasks that two calls wrote at once or that a death caught half-written,
\* and the dependencies that were deleted or dropped by a re-import.
\* (create_task, update_task, delete_task, sync_seeds)
GraphMatchesRows ==
    \A t \in GTasks :
        HasGRow(t) /\ t \notin gMessy /\ (\A c \in Callers : t \notin WrittenBy(c)) =>
            \A d \in GTasks : (d \in gRow[t].deps) # (<<t, d>> \in gEdges) => <<t, d>> \in gOdd

\* Creating a workflow does not run it: whatever its authors do to its tasks,
\* dragging them to Ready included, none of them runs before the workflow was
\* started once. Excepted are tasks that outlived the workflow they were meant
\* for, by a write or an addition its deletion crossed; an id the tick had
\* listed when its task was added anew; and torn rows. (claim_and_spawn's guard)
CreateIsNotRun ==
    HasFlow /\ ~gFlow.ever =>
        \A t \in FlowTasks \cap Where({"running"}) : t \in gStray \cup gMessy

Before(t) ==
    {u \in GTasks : \A S \in SUBSET GTasks :
        (\A e \in gEdges : e[1] \in S \cup {t} => e[2] \in S) => u \in S}

\* Something before it is missing, blocked, held back or before itself.
Hopeless(t) ==
    \E u \in {t} \cup Before(t) :
        \/ ~HasGRow(u) \/ u \in Where({"blocked"}) \/ u \in Before(u)
        \/ gRow[u].flow /\ FlowShut /\ u \notin Where({"done"})

\* A task waits for ever only for a reason its author can see in the graph: a
\* dependency that is missing, blocked or circular, or a workflow that is not
\* going. Deleting a task sets free those that waited for it. (newly_ready,
\* delete_task, claim_and_spawn)
NothingWaitsForever ==
    \A t \in GTasks : []<>(t \notin Where({"pending", "ready"}) \/ Hopeless(t))
=============================================================================
