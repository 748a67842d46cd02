----------------------------- MODULE MCServices -----------------------------
(***************************************************************************)
(* The services beside the scheduler's core, a small instance of each. The *)
(* parts share no state with one another (but for the workflow rows, which *)
(* the log tail and the pull requests both write), so a behaviour is one   *)
(* part's.                                                                 *)
(***************************************************************************)
EXTENDS ExtDispatch, LogTail, AutoPr, IssueSync, TaskGraph

CONSTANTS
    Parts,          \* the parts to check
    g, ra, rb, wasm,
    ta, tb

VARIABLE part

registryPart == registryVars
extPart == <<gateVars, eventVars>>
tailPart == tailVars
prPart == prVars
issuePart == issueVars
graphPart == gVars

vars == <<part, registryPart, extPart, rowVars, tailPart, prPart, issuePart, graphPart>>

GateSet == {g}
ReactorSet == {ra, rb}
Contents == [id \in GateSet \cup ReactorSet |-> wasm]

NewTask(deps, flow) == [status |-> "pending", deps |-> deps, flow |-> flow]
Draft == [active |-> TRUE, started |-> FALSE, ever |-> FALSE]
Going == [active |-> TRUE, started |-> TRUE, ever |-> TRUE]

Board(flow, a, b, verbs, requests, deaths) ==
    [flow |-> flow, rows |-> [t \in {ta, tb} |-> IF t = ta THEN a ELSE b],
     toCome |-> [asked |-> verbs, requests |-> requests, deaths |-> deaths]]

\* What authors and operators do to a small board, two or three requests of
\* related verbs at a time.
SomeBoards ==
    LET a == NewTask({}, TRUE)
        b == NewTask({ta}, TRUE)
        alone == NewTask({}, FALSE)
        after(t) == NewTask({t}, FALSE) IN
    {Board(NoGRow, NoGRow, NoGRow, {}, 0, 0),
     Board(Draft, a, b, {"ready", "start", "promote"}, 2, 0),
     Board(Draft, NoGRow, a, {"add", "deleteFlow", "ready"}, 2, 0),
     Board(Going, a, after(ta), {"stop", "restart"}, 2, 0),
     Board(Going, a, b, {"resume", "softRestart"}, 2, 0),
     Board(Going, NoGRow, a, {"retry", "revive"}, 2, 0),
     Board(Going, NoGRow, a, {"cancel", "stop"}, 2, 0),
     Board(NoGRow, NoGRow, alone, {"update", "delete"}, 2, 0),
     Board(NoGRow, after(tb), alone, {"delete"}, 2, 0),
     Board(NoGRow, after(tb), alone, {"update", "create", "delete"}, 1, 1),
     Board(NoGRow, after(tb), NoGRow, {"create"}, 2, 0),
     Board(NoGRow, after(tb), NoGRow, {"import"}, 1, 1)}

\* What befalls the one linked task.
TaskDesk(gh, task, link, people) ==
    [gh |-> gh, task |-> task, link |-> link, people |-> people]
TaskDesks == {TaskDesk(1, 1, 0, 1), TaskDesk(0, 1, 0, 2), TaskDesk(1, 0, 1, 1)}

Init ==
    /\ part \in Parts
    /\ DispatchInit /\ TailInit /\ PrInit /\ IssueInit /\ GraphInit
    /\ part # "graph" => gToCome.requests = 0
    /\ part # "issue" => issueToCome = CHOOSE d \in IssueDesks : TRUE
    /\ IF part = "tail" THEN \E r \in Workflows : runRow[r].active
       ELSE \A r \in Workflows : runRow[r].active

ExtStep ==
    \/ part = "registry" /\ RegistryNext /\ UNCHANGED extPart
    \/ part = "gates" /\ GateNext
    \/ part = "events" /\ EventNext

RowStep ==
    \/ part = "tail" /\ TailNext /\ UNCHANGED prPart
    \/ part = "pr" /\ PrNext /\ UNCHANGED tailPart

Next ==
    /\ UNCHANGED part
    /\ \/ ExtStep /\ UNCHANGED <<rowVars, tailPart, prPart, issuePart, graphPart>>
       \/ RowStep /\ UNCHANGED <<registryPart, extPart, issuePart, graphPart>>
       \/ /\ part = "issue" /\ IssueNext
          /\ UNCHANGED <<registryPart, extPart, rowVars, tailPart, prPart, graphPart>>
       \/ /\ part = "graph" /\ GraphNext
          /\ UNCHANGED <<registryPart, extPart, rowVars, tailPart, prPart, issuePart>>

\* The fairness of each part's own specification, for the part at hand.
Spec ==
    /\ Init
    /\ [][Next]_vars
    /\ WF_<<rowVars, tailVars>>(part = "tail" /\ TailStep)
    /\ WF_<<rowVars, prVars>>(part = "pr" /\ PrStep)
    /\ WF_issueVars(part = "issue" /\ PollStep)
    /\ WF_liveVars(part = "graph" /\ TickWorks)
    /\ WF_liveVars(part = "graph" /\ \E c \in Authors : Serves(c))
    /\ WF_liveVars(part = "graph" /\ \E t \in GTasks : TaskEnds(t))

-----------------------------------------------------------------------------

\* The component at work keeps to the types of its variables: no field is
\* written that the stored row, the record or the request does not have, and no
\* counter leaves its range.
ServicesTypeOK ==
    /\ part \in Parts
    /\ part \in {"registry", "gates", "events"} => DispatchTypeOK
    /\ part = "tail" => TailTypeOK
    /\ part = "pr" => PrTypeOK
    /\ part = "issue" => IssueTypeOK
    /\ part = "graph" => GraphTypeOK
=============================================================================
