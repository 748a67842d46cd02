------------------------------ MODULE LogTail ------------------------------
(***************************************************************************)
(* The tail of the supervisor's tick: one drain of hcom's event stream     *)
(* from the least cursor of the active workflows, each event appended to   *)
(* the durable log of the workflow its agent works for, then the cursors   *)
(* advanced.                                                               *)
(*                                                                         *)
(* An event's id is its place in the stream. The tail is a sequence of     *)
(* awaits: anything an operator does may fall between two of its steps,    *)
(* and so may the death of the daemon.                                     *)
(***************************************************************************)
EXTENDS RunRows, Sequences, FiniteSetsExt

CONSTANTS
    DrainCap,           \* newest events one drain returns at most
    MaxUpsets           \* bound on what befalls the tail: failed appends, deaths,
                        \* operators' writes, agents leaving, workflows settling

ASSUME DrainCapAssumption == DrainCap \in Nat \ {0}
ASSUME MaxUpsetsAssumption == MaxUpsets \in Nat

VARIABLES
    stream,             \* the workflow each event's agent works for, in order
    unlisted,           \* events whose agent has left the listing
    finished,           \* workflows whose tasks are all terminal
    logRows,            \* per event, its rows in the log
    chatRows,           \* per event, its bubbles in the task's conversation
    drain,              \* the drain under way
    excused,            \* events dropped for a reason the tail reports
    upsets              \* how much has befallen it so far

tailVars == <<stream, unlisted, finished, logRows, chatRows, drain, excused, upsets>>

EventIds == 1..MaxCursor
Emitted == 1..Len(stream)
EventsOf(r) == {e \in Emitted : stream[e] = r}

\* cursors: the active workflows as listed, with their cursors. todo: the
\* events still to append. touched: the highest event appended, by workflow.
NoDrain == [at |-> "idle", cursors |-> <<>>, batch |-> {}, todo |-> {},
            touched |-> <<>>, left |-> {}]

Upset == upsets < MaxUpsets /\ upsets' = upsets + 1

DrainAt(p) == drain.at = p
Active(r) == HasRow(r) /\ runRow[r].active
Snapshot == {r \in Workflows : Active(r)}

TailBegins ==
    /\ DrainAt("idle") /\ ~Holds(Supervisor)
    /\ Snapshot # {}
    /\ drain' = [NoDrain EXCEPT !.at = "drain",
                     !.cursors = [r \in Snapshot |-> runRow[r].cursor]]
    /\ UNCHANGED <<rowVars, stream, unlisted, finished, logRows, chatRows, excused, upsets>>

Listed == DOMAIN drain.cursors

\* A mutant: the drain starts where the most advanced workflow stands.
LowestIsHighest == Max({drain.cursors[r] : r \in Listed})

Lowest == Min({drain.cursors[r] : r \in Listed})

Newer == {e \in Emitted : e > Lowest}
Newest(S) == {e \in S : e + DrainCap > Len(stream)}

\* Nothing newer ends the pass.
TailDrains ==
    /\ DrainAt("drain")
    /\ IF Newer = {} THEN drain' = NoDrain
       ELSE drain' = [drain EXCEPT !.at = "list", !.batch = Newest(Newer)]
    /\ excused' = excused \cup (Newer \ Newest(Newer))
    /\ UNCHANGED <<rowVars, stream, unlisted, finished, logRows, chatRows, upsets>>

\* The listing names the agents; an event of an agent it lacks is dropped,
\* and so is one of a workflow that was not listed as active.
TailResolves ==
    /\ DrainAt("list")
    /\ LET known == drain.batch \ unlisted IN
         /\ drain' = [drain EXCEPT !.at = "append",
                          !.todo = {e \in known : stream[e] \in Listed /\ HasRow(stream[e])}]
         /\ excused' = excused \cup (drain.batch \cap unlisted)
                         \cup {e \in known : ~HasRow(stream[e])}
    /\ UNCHANGED <<rowVars, stream, unlisted, finished, logRows, chatRows, upsets>>

Touches(r, e) ==
    [s \in DOMAIN drain.touched \cup {r} |-> IF s = r THEN e ELSE drain.touched[s]]

\* A mutant: the append does not look for the row first.
AppendsAlways(rows, e) == [rows EXCEPT ![e] = @ + 1]

AppendsOnce(rows, e) == [rows EXCEPT ![e] = IF @ = 0 THEN 1 ELSE @]

\* The bubble of a message in the task's conversation, once, too.
MirrorsChat(rows, e) == AppendsOnce(rows, e)

\* The line, and for a message of the agent its bubble; losing the bubble is
\* no failure of the append.
TailAppends(mirrors) ==
    /\ DrainAt("append") /\ drain.todo # {}
    /\ IF mirrors THEN UNCHANGED upsets ELSE Upset
    /\ LET e == Min(drain.todo) IN
         /\ logRows' = AppendsOnce(logRows, e)
         /\ chatRows' = IF mirrors THEN MirrorsChat(chatRows, e) ELSE chatRows
         /\ drain' = [drain EXCEPT !.todo = @ \ {e}, !.touched = Touches(stream[e], e)]
    /\ UNCHANGED <<rowVars, stream, unlisted, finished, excused>>

TailAppendFails ==
    /\ DrainAt("append") /\ drain.todo # {}
    /\ upsets < MaxUpsets
    /\ upsets' = upsets + 1
    /\ drain' = [drain EXCEPT !.todo = @ \ {Min(@)}]
    /\ excused' = excused \cup {Min(drain.todo)}
    /\ UNCHANGED <<rowVars, stream, unlisted, finished, logRows, chatRows>>

TailWritten ==
    /\ DrainAt("append") /\ drain.todo = {}
    /\ drain' = [drain EXCEPT !.at = "advance", !.left = DOMAIN drain.touched]
    /\ UNCHANGED <<rowVars, stream, unlisted, finished, logRows, chatRows, excused, upsets>>

\* The cursor of one workflow: the verb of the store, unless the row is gone
\* or the cursor is there already.
Advances(r, to) ==
    /\ drain' = [drain EXCEPT !.left = @ \ {r}]
    /\ IF HasRow(r) /\ runRow[r].cursor < to
       THEN LoadsRow(Supervisor, r, AdvanceCursor(runRow[r], to))
       ELSE ~Holds(Supervisor) /\ UNCHANGED rowVars

TailAdvances(r) ==
    /\ DrainAt("advance") /\ r \in drain.left
    /\ Advances(r, drain.touched[r])
    /\ UNCHANGED <<stream, unlisted, finished, logRows, chatRows, excused, upsets>>

TailAdvanced ==
    /\ DrainAt("advance") /\ drain.left = {} /\ ~Holds(Supervisor)
    /\ drain' = [drain EXCEPT !.at = "forward",
                     !.left = {r \in Listed \ DOMAIN drain.touched :
                                   drain.cursors[r] < Max(drain.batch)}]
    /\ UNCHANGED <<rowVars, stream, unlisted, finished, logRows, chatRows, excused, upsets>>

\* A mutant: no finished workflow is stepped over the backlog.
ForwardsNone(r) == FALSE

ForwardsFinished(r) == r \in finished

\* A workflow that got no event and is finished steps over the batch.
TailForwards(r) ==
    /\ DrainAt("forward") /\ r \in drain.left
    /\ IF ForwardsFinished(r) THEN Advances(r, Max(drain.batch))
       ELSE /\ drain' = [drain EXCEPT !.left = @ \ {r}]
            /\ ~Holds(Supervisor) /\ UNCHANGED rowVars
    /\ UNCHANGED <<stream, unlisted, finished, logRows, chatRows, excused, upsets>>

SupervisorWrites ==
    /\ WritesRow(Supervisor)
    /\ UNCHANGED tailVars

TailEnds ==
    /\ DrainAt("forward") /\ drain.left = {} /\ ~Holds(Supervisor)
    /\ drain' = NoDrain
    /\ UNCHANGED <<rowVars, stream, unlisted, finished, logRows, chatRows, excused, upsets>>

(***************************************************************************)
(* The rest of the world.                                                  *)
(***************************************************************************)
AgentEmits(r) ==
    /\ Len(stream) < MaxCursor
    /\ stream' = Append(stream, r)
    /\ UNCHANGED <<rowVars, unlisted, finished, logRows, chatRows, drain, excused, upsets>>

\* Its agents exit or are reaped: what they said keeps its name only.
AgentsLeave(r) ==
    /\ Upset
    /\ EventsOf(r) \ unlisted # {}
    /\ unlisted' = unlisted \cup EventsOf(r)
    /\ UNCHANGED <<rowVars, stream, finished, logRows, chatRows, drain, excused>>

\* Its tasks all come to rest, or an operator revives one.
TasksSettle(r) ==
    /\ Upset
    /\ finished' = IF r \in finished THEN finished \ {r} ELSE finished \cup {r}
    /\ UNCHANGED <<rowVars, stream, unlisted, logRows, chatRows, drain, excused>>

OperatorsWriteRows ==
    /\ \E c \in RowClients :
          \/ LifecycleLoads(c) /\ Upset
          \/ OperatorWrites(c) /\ UNCHANGED upsets
    /\ UNCHANGED <<stream, unlisted, finished, logRows, chatRows, drain, excused>>

\* The next daemon finds the rows and the log, and no drain.
TailDies ==
    /\ Upset
    /\ RowsLost
    /\ drain' = NoDrain
    /\ UNCHANGED <<runRow, stream, unlisted, finished, logRows, chatRows, excused>>

TailInit ==
    /\ RowInit
    /\ stream = <<>>
    /\ unlisted = {}
    /\ finished = {}
    /\ logRows = [e \in EventIds |-> 0]
    /\ chatRows = [e \in EventIds |-> 0]
    /\ drain = NoDrain
    /\ excused = {}
    /\ upsets = 0

TailStep ==
    \/ TailBegins \/ TailDrains \/ TailResolves \/ TailAppends(TRUE) \/ TailWritten
    \/ TailAdvanced \/ TailEnds \/ SupervisorWrites
    \/ \E r \in Workflows : TailAdvances(r) \/ TailForwards(r)

TailNext ==
    \/ TailStep \/ TailAppends(FALSE) \/ TailAppendFails \/ TailDies \/ OperatorsWriteRows
    \/ \E r \in Workflows : AgentEmits(r) \/ AgentsLeave(r) \/ TasksSettle(r)

\* The supervisor ticks for as long as the daemon lives.
TailSpec ==
    /\ TailInit
    /\ [][TailNext]_<<rowVars, tailVars>>
    /\ WF_<<rowVars, tailVars>>(TailStep)

-----------------------------------------------------------------------------

TailTypeOK ==
    /\ RowTypeOK
    /\ stream \in Seq(Workflows) /\ Len(stream) <= MaxCursor
    /\ unlisted \subseteq Emitted /\ excused \subseteq Emitted
    /\ finished \subseteq Workflows
    /\ logRows \in [EventIds -> Nat] /\ chatRows \in [EventIds -> Nat]
    /\ drain.batch \subseteq Emitted /\ drain.todo \subseteq drain.batch
    /\ upsets \in 0..MaxUpsets

\* No event is skipped in silence: one at or below its workflow's cursor is
\* in the log, or the tail dropped it for a cause it knows of. Stops and
\* resumes, torn writes of the row, deaths between the append and the cursor
\* only make it read an event again. (hcom_tail drains from the least cursor
\* and advances a cursor after its rows are written.)
NoSilentSkip ==
    \A e \in Emitted :
        /\ HasRow(stream[e])
        /\ e <= runRow[stream[e]].cursor
        => logRows[e] > 0 \/ e \in excused

\* Reading an event again adds neither a line nor a bubble, however far a
\* death or a torn write of the row has thrown the cursor back.
NoDuplicateLine == \A e \in EventIds : logRows[e] <= 1 /\ chatRows[e] <= 1

\* The log as its reader knows it: the cursor of a workflow is its mark.
Marks == [r \in Workflows |-> IF HasRow(r) THEN runRow[r].cursor ELSE NoRow]

Diary == INSTANCE RunLog WITH MaxSaid <- MaxCursor, Reach <- DrainCap, NoMark <- NoRow,
                              said <- stream, gone <- unlisted, lines <- logRows,
                              bubbles <- chatRows, lost <- excused, mark <- Marks

\* The tail keeps the log it promises: each line once and in the order in
\* which the agents spoke, the bubble never before its line, nothing missing
\* but for a cause, no cursor past what is to be written. Drains that read
\* again what was read, deaths half way through and rows written back from an
\* old copy are steps of that log or none. (tail_hcom, append_log_once)
FollowsRunLog == Diary!Spec

\* A finished workflow holds the drain back, at the beginning of what every
\* workflow still at work has behind it.
Pins(r) ==
    /\ Active(r) /\ r \in finished
    /\ runRow[r].cursor < Len(stream)
    /\ \A s \in Workflows \ {r} :
          Active(s) /\ s \notin finished => runRow[r].cursor < runRow[s].cursor

\* The tail is never wedged behind a finished workflow: though its agents are
\* gone and no event is its own any more, it does not hold the drain back for
\* good. (Step 6 of tail_hcom.)
NeverWedged == \A r \in Workflows : []<>~Pins(r)
=============================================================================
