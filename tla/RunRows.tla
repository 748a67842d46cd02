------------------------------ MODULE RunRows ------------------------------
(***************************************************************************)
(* The rows of the workflows and the verbs of the store that change one.   *)
(* Each verb but creation reads the whole row, changes a field or two of   *)
(* its copy and writes the whole row back: two awaits of the database,     *)
(* with nothing that keeps another verb from writing in between.           *)
(*                                                                         *)
(* "held" is the row a writer is about to write. The writers are the       *)
(* requests of operators and the supervisor, whose phases take turns.      *)
(***************************************************************************)
EXTENDS Naturals, FiniteSets

CONSTANTS
    Workflows,      \* ids of workflows
    RowClients,     \* operators' requests in flight at once
    NoRow,          \* no such row, or nothing held
    MaxCursor       \* bound on the ids of hcom events

ASSUME MaxCursorAssumption == MaxCursor \in Nat

Supervisor == "supervisor"
Writers == RowClients \cup {Supervisor}

VARIABLES
    runRow,         \* the stored rows
    held            \* per writer, the row it read and changed

rowVars == <<runRow, held>>

Rows == [active : BOOLEAN, started : BOOLEAN, pr : BOOLEAN, autoPr : BOOLEAN,
         cursor : 0..MaxCursor]

ASSUME NoRowAssumption == NoRow \notin Rows /\ NoRow \notin [id : Workflows, row : Rows]

Created(auto) ==
    [active |-> TRUE, started |-> FALSE, pr |-> FALSE, autoPr |-> auto, cursor |-> 0]

HasRow(r) == runRow[r] # NoRow
Holds(w) == held[w] # NoRow

(***************************************************************************)
(* What each verb does to its copy.                                        *)
(***************************************************************************)
StopRun(row) == [row EXCEPT !.active = FALSE]
ResumeRun(row) == [row EXCEPT !.active = TRUE]
MarkStarted(row) == [row EXCEPT !.started = TRUE]
ClearStarted(row) == [row EXCEPT !.started = FALSE, !.active = TRUE, !.pr = FALSE]
SetPrUrl(row) == [row EXCEPT !.pr = TRUE]
UpdateWorkspace(row, auto) == [row EXCEPT !.autoPr = auto]
AdvanceCursor(row, to) == [row EXCEPT !.cursor = IF to > @ THEN to ELSE @]

(***************************************************************************)
(* The two halves of a verb, and the two verbs that are one write.         *)
(***************************************************************************)
LoadsRow(w, r, changed) ==
    /\ ~Holds(w)
    /\ HasRow(r)
    /\ held' = [held EXCEPT ![w] = [id |-> r, row |-> changed]]
    /\ UNCHANGED runRow

\* An update of a row that is gone writes nothing.
WritesRow(w) ==
    /\ Holds(w)
    /\ runRow' = IF HasRow(held[w].id)
                 THEN [runRow EXCEPT ![held[w].id] = held[w].row] ELSE runRow
    /\ held' = [held EXCEPT ![w] = NoRow]

CreateRun(r, auto) ==
    /\ ~HasRow(r)
    /\ runRow' = [runRow EXCEPT ![r] = Created(auto)]
    /\ UNCHANGED held

\* The tasks go first; a workflow with live work is refused before.
DeleteRun(r) ==
    /\ HasRow(r)
    /\ runRow' = [runRow EXCEPT ![r] = NoRow]
    /\ UNCHANGED held

\* Stop and resume, the verbs the supervisor heeds at every step.
LifecycleLoads(c) ==
    \E r \in Workflows :
        /\ HasRow(r)
        /\ LoadsRow(c, r, StopRun(runRow[r])) \/ LoadsRow(c, r, ResumeRun(runRow[r]))

OtherLoads(c) ==
    \E r \in Workflows :
        /\ HasRow(r)
        /\ LET row == runRow[r] IN
             \/ ~row.started /\ LoadsRow(c, r, MarkStarted(row))
             \/ LoadsRow(c, r, ClearStarted(row))
             \/ \E auto \in BOOLEAN : LoadsRow(c, r, UpdateWorkspace(row, auto))

OperatorWrites(c) == WritesRow(c)

RowsLost == held' = [w \in Writers |-> NoRow]

\* Each workflow created, and some of them stopped since.
RowInit ==
    /\ runRow \in [Workflows -> {Created(TRUE), StopRun(Created(TRUE))}]
    /\ held = [w \in Writers |-> NoRow]

RowTypeOK ==
    /\ runRow \in [Workflows -> Rows \cup {NoRow}]
    /\ held \in [Writers -> [id : Workflows, row : Rows] \cup {NoRow}]
=============================================================================
