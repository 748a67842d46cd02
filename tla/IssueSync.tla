----------------------------- MODULE IssueSync -----------------------------
(***************************************************************************)
(* One task linked to a GitHub issue, and what keeps the two in step: the  *)
(* drive loop closes the issue when the task is done, the supervisor polls *)
(* the issue and drives the task by it, operators link and unlink.         *)
(*                                                                         *)
(* Every write of the row reads it first and writes all of it back. A      *)
(* write of the linkage takes the linkage from the caller's copy and the   *)
(* rest from the row it reads, and it is an upsert.                        *)
(***************************************************************************)
EXTENDS Naturals, TaskStatus

CONSTANTS
    Issues,             \* issues of the repository
    Linkers,            \* operators' requests in flight at once
    NoTask,             \* the task's row is gone
    NoIssue,            \* not linked
    IssueDesks          \* a bound: what befalls a task in one behaviour, how many
                        \* calls of gh that fail, verbs of operators on the task
                        \* and on its linkage, and moves of people on GitHub

UpsetKinds == {"gh", "task", "link", "people"}
ASSUME IssueConstants == NoIssue \notin Issues /\ IssueDesks \subseteq [UpsetKinds -> Nat]

VARIABLES
    taskRow,            \* the row, or NoTask
    liveIssue,          \* the state of each issue on GitHub
    writing,            \* per actor, the row it has read and is to write
    closer,             \* the drive loop and the copy of the task it was given
    poll,               \* the supervisor's poll and the copy it has
    asked,              \* per operator, the linkage to save
    opened,             \* a person has reopened or linked an issue; kept for
                        \* the property only
    issueToCome         \* how many of each kind of upset are still to come

issueVars == <<taskRow, liveIssue, writing, closer, poll, asked, opened, issueToCome>>

Loop == "loop"
Poll == "poll"
Actors == Linkers \cup {Loop, Poll}

IssueStates == {"open", "closed"}
Linkages == [url : Issues \cup {NoIssue}, closes : BOOLEAN,
             synced : IssueStates \cup {"unknown"}]
TaskRows == [status : Status, link : Linkages]
Unlinked == [url |-> NoIssue, closes |-> FALSE, synced |-> "unknown"]

HasTask == taskRow # NoTask
Writing(a) == writing[a] # NoTask
IssueUpset(kind) ==
    /\ issueToCome[kind] > 0
    /\ issueToCome' = [issueToCome EXCEPT ![kind] = @ - 1]

(***************************************************************************)
(* The store.                                                              *)
(***************************************************************************)
Reads(a, row, upsert) ==
    /\ ~Writing(a)
    /\ writing' = [writing EXCEPT ![a] = [row |-> row, upsert |-> upsert]]
    /\ UNCHANGED taskRow

TransitionReads(a, kind) ==
    /\ HasTask /\ Legal(taskRow.status, kind)
    /\ Reads(a, [taskRow EXCEPT !.status = Target[kind]], FALSE)

\* Refused, or the task is gone: nothing happens.
TransitionRefused(kind) == ~(HasTask /\ Legal(taskRow.status, kind))

ResetReads(a) ==
    /\ HasTask
    /\ Reads(a, [taskRow EXCEPT !.status = "pending"], FALSE)

LinkReads(a, link) ==
    /\ HasTask
    /\ Reads(a, [taskRow EXCEPT !.link = link], TRUE)

\* An upsert makes the row anew if it was deleted meanwhile.
StoreWrites(a) ==
    /\ Writing(a)
    /\ taskRow' = IF HasTask \/ writing[a].upsert THEN writing[a].row ELSE taskRow
    /\ writing' = [writing EXCEPT ![a] = NoTask]

(***************************************************************************)
(* The drive loop of the task. It closes by the copy it was claimed with.  *)
(***************************************************************************)
NoLoop == [at |-> "idle", link |-> Unlinked]
LoopGoes(p) == closer' = [closer EXCEPT !.at = p]

LoopClaims ==
    /\ closer.at = "idle"
    /\ TransitionReads(Loop, "Claim")
    /\ closer' = [at |-> "run", link |-> taskRow.link]
    /\ UNCHANGED <<liveIssue, poll, asked, opened, issueToCome>>

LoopGates ==
    /\ closer.at = "run" /\ ~Writing(Loop)
    /\ \/ TransitionReads(Loop, "Gate") /\ LoopGoes("gate")
       \/ TransitionRefused("Gate") /\ closer' = NoLoop /\ UNCHANGED <<taskRow, writing>>
    /\ UNCHANGED <<liveIssue, poll, asked, opened, issueToCome>>

LoopLands ==
    /\ closer.at = "gate" /\ ~Writing(Loop)
    /\ \/ TransitionReads(Loop, "Done") /\ LoopGoes("close")
       \/ TransitionRefused("Done") /\ closer' = NoLoop /\ UNCHANGED <<taskRow, writing>>
    /\ UNCHANGED <<liveIssue, poll, asked, opened, issueToCome>>

LoopBlocks ==
    /\ closer.at \in {"run", "gate"} /\ ~Writing(Loop)
    /\ TransitionReads(Loop, "Block")
    /\ closer' = NoLoop
    /\ UNCHANGED <<liveIssue, poll, asked, opened, issueToCome>>

\* A mutant: the close is recorded whether GitHub took it or not.
AfterFailedCloseRecords == "record"

AfterFailedClose == "idle"

ClosesOnDone ==
    /\ closer.at = "close" /\ ~Writing(Loop)
    /\ IF closer.link.closes /\ closer.link.url # NoIssue
       THEN \/ /\ liveIssue' = [liveIssue EXCEPT ![closer.link.url] = "closed"]
               /\ LoopGoes("record")
               /\ UNCHANGED issueToCome
            \/ IssueUpset("gh") /\ UNCHANGED liveIssue
               /\ closer' = IF AfterFailedClose = "idle" THEN NoLoop
                            ELSE [closer EXCEPT !.at = AfterFailedClose]
       ELSE closer' = NoLoop /\ UNCHANGED <<liveIssue, issueToCome>>
    /\ UNCHANGED <<taskRow, writing, poll, asked, opened>>

RecordsClose ==
    /\ closer.at = "record" /\ ~Writing(Loop)
    /\ IF HasTask THEN LinkReads(Loop, [closer.link EXCEPT !.synced = "closed"])
       ELSE UNCHANGED <<taskRow, writing>>
    /\ closer' = NoLoop
    /\ UNCHANGED <<liveIssue, poll, asked, opened, issueToCome>>

(***************************************************************************)
(* The supervisor: its promotion, and its poll, which decides by the row   *)
(* as it was listed.                                                       *)
(***************************************************************************)
NoPoll == [at |-> "idle", row |-> NoTask, live |-> "unknown"]

Promotes ==
    /\ poll.at = "idle"
    /\ HasTask /\ taskRow.status = "pending"
    /\ TransitionReads(Poll, "Ready")
    /\ UNCHANGED <<liveIssue, closer, poll, asked, opened, issueToCome>>

PollLists ==
    /\ poll.at = "idle" /\ ~Writing(Poll)
    /\ HasTask /\ taskRow.link.url # NoIssue
    /\ poll' = [NoPoll EXCEPT !.at = "view", !.row = taskRow]
    /\ UNCHANGED <<taskRow, liveIssue, writing, closer, asked, opened, issueToCome>>

PollViews ==
    /\ poll.at = "view"
    /\ \/ /\ poll' = [poll EXCEPT !.at = "act", !.live = liveIssue[poll.row.link.url]]
          /\ UNCHANGED issueToCome
       \/ IssueUpset("gh") /\ poll' = NoPoll
    /\ UNCHANGED <<taskRow, liveIssue, writing, closer, asked, opened>>

SawClose == poll.live = "closed" /\ poll.row.link.synced # "closed"
SawReopen == poll.live = "open" /\ poll.row.link.synced = "closed"

\* The move the change asks of the task, if any.
PollMoves(kind) ==
    \/ kind = "ExternalDone" /\ SawClose /\ poll.row.status # "done"
    \/ kind = "Revive" /\ SawReopen /\ IsTerminal(poll.row.status)

\* A mutant: a refused move leaves the state unrecorded.
AfterRefusalStops == "idle"

\* A refused move is passed over, the state recorded all the same.
AfterRefusal == "record"

\* What it listed is of no use from here on.
PollRecords == [poll EXCEPT !.at = "record", !.row = NoTask]

PollActs ==
    /\ poll.at = "act"
    /\ \/ \E kind \in {"ExternalDone", "Revive"} :
             /\ PollMoves(kind)
             /\ \/ /\ TransitionReads(Poll, kind)
                   /\ poll' = PollRecords
                \/ /\ TransitionRefused(kind)
                   /\ poll' = [PollRecords EXCEPT !.at = AfterRefusal]
                   /\ UNCHANGED <<taskRow, writing>>
       \/ /\ \A kind \in {"ExternalDone", "Revive"} : ~PollMoves(kind)
          /\ poll' = IF poll.live = poll.row.link.synced THEN NoPoll ELSE PollRecords
          /\ UNCHANGED <<taskRow, writing>>
    /\ UNCHANGED <<liveIssue, closer, asked, opened, issueToCome>>

\* record_state takes a fresh copy, and set_issue_link reads once more.
RecordsState ==
    /\ poll.at = "record" /\ ~Writing(Poll)
    /\ poll' = IF HasTask /\ taskRow.link.synced # poll.live
               THEN [poll EXCEPT !.at = "save",
                                 !.row = [taskRow EXCEPT !.link.synced = poll.live]]
               ELSE NoPoll
    /\ UNCHANGED <<taskRow, liveIssue, writing, closer, asked, opened, issueToCome>>

PollSaves ==
    /\ poll.at = "save"
    /\ IF HasTask THEN LinkReads(Poll, poll.row.link) ELSE UNCHANGED <<taskRow, writing>>
    /\ poll' = NoPoll
    /\ UNCHANGED <<liveIssue, closer, asked, opened, issueToCome>>

(***************************************************************************)
(* Operators.                                                              *)
(***************************************************************************)
NoAsk == [at |-> "idle", link |-> Unlinked]
Asks(c, at, link) == asked' = [asked EXCEPT ![c] = [at |-> at, link |-> link]]

\* Create and link: the row is read, then GitHub is asked.
BeginsLink(c) ==
    /\ asked[c].at = "idle" /\ ~Writing(c) /\ HasTask /\ IssueUpset("link")
    /\ Asks(c, "gh", taskRow.link)
    /\ UNCHANGED <<taskRow, liveIssue, writing, closer, poll, opened>>

CreatesIssue(c, i) ==
    /\ asked[c].at = "gh"
    /\ liveIssue[i] = "open"
    /\ Asks(c, "save", [asked[c].link EXCEPT !.url = i, !.synced = "open"])
    /\ opened' = TRUE
    /\ UNCHANGED <<taskRow, liveIssue, writing, closer, poll, issueToCome>>

LinksIssue(c, i) ==
    /\ asked[c].at = "gh"
    /\ Asks(c, "save", [asked[c].link EXCEPT !.url = i, !.synced = liveIssue[i]])
    /\ opened' = TRUE
    /\ UNCHANGED <<taskRow, liveIssue, writing, closer, poll, issueToCome>>

UnlinksIssue(c) ==
    /\ asked[c].at = "idle" /\ ~Writing(c) /\ HasTask /\ IssueUpset("link")
    /\ Asks(c, "save", Unlinked)
    /\ UNCHANGED <<taskRow, liveIssue, writing, closer, poll, opened>>

SetsCloseOnDone(c, on) ==
    /\ asked[c].at = "idle" /\ ~Writing(c) /\ HasTask /\ IssueUpset("link")
    /\ taskRow.link.url # NoIssue
    /\ Asks(c, "save", [taskRow.link EXCEPT !.closes = on])
    /\ UNCHANGED <<taskRow, liveIssue, writing, closer, poll, opened>>

SavesLink(c) ==
    /\ asked[c].at = "save"
    /\ IF HasTask THEN LinkReads(c, asked[c].link) ELSE UNCHANGED <<taskRow, writing>>
    /\ asked' = [asked EXCEPT ![c] = NoAsk]
    /\ UNCHANGED <<liveIssue, closer, poll, opened, issueToCome>>

\* The task verbs: promotion, revival, blocking and the reset; deletion.
MovesTask(c) ==
    /\ asked[c].at = "idle" /\ IssueUpset("task")
    /\ ResetReads(c) \/ \E kind \in {"Revive", "Block"} : TransitionReads(c, kind)
    /\ UNCHANGED <<liveIssue, closer, poll, asked, opened>>

DeletesTask ==
    /\ HasTask /\ IssueUpset("task")
    /\ taskRow' = NoTask
    /\ UNCHANGED <<liveIssue, writing, closer, poll, asked, opened>>

PersonCloses(i) ==
    /\ liveIssue[i] = "open" /\ IssueUpset("people")
    /\ liveIssue' = [liveIssue EXCEPT ![i] = "closed"]
    /\ UNCHANGED <<taskRow, writing, closer, poll, asked, opened>>

PersonReopens(i) ==
    /\ liveIssue[i] = "closed" /\ IssueUpset("people")
    /\ liveIssue' = [liveIssue EXCEPT ![i] = "open"]
    /\ opened' = TRUE
    /\ UNCHANGED <<taskRow, writing, closer, poll, asked>>

ActorWrites(a) ==
    /\ StoreWrites(a)
    /\ UNCHANGED <<liveIssue, closer, poll, asked, opened, issueToCome>>

IssueInit ==
    /\ taskRow \in {[status |-> "pending", link |-> [url |-> i, closes |-> TRUE, synced |-> "open"]] :
                        i \in Issues}
    /\ liveIssue = [i \in Issues |-> "open"]
    /\ writing = [a \in Actors |-> NoTask]
    /\ closer = NoLoop
    /\ poll = NoPoll
    /\ asked = [c \in Linkers |-> NoAsk]
    /\ opened = FALSE
    /\ issueToCome \in IssueDesks

PollStep ==
    \/ PollLists \/ PollViews \/ PollActs \/ RecordsState \/ PollSaves
    \/ ActorWrites(Poll)

LoopStep ==
    \/ LoopClaims \/ LoopGates \/ LoopLands \/ LoopBlocks \/ ClosesOnDone \/ RecordsClose
    \/ ActorWrites(Loop)

OperatorStep(c) ==
    \/ BeginsLink(c) \/ UnlinksIssue(c) \/ SavesLink(c) \/ MovesTask(c)
    \/ \E on \in BOOLEAN : SetsCloseOnDone(c, on)
    \/ \E i \in Issues : CreatesIssue(c, i) \/ LinksIssue(c, i)
    \/ ActorWrites(c)

IssueNext ==
    \/ PollStep \/ Promotes \/ LoopStep
    \/ \E c \in Linkers : OperatorStep(c)
    \/ DeletesTask
    \/ \E i \in Issues : PersonCloses(i) \/ PersonReopens(i)

\* The supervisor polls every few ticks; a handler and a loop come to the
\* end of what they have begun.
IssueSpec ==
    /\ IssueInit
    /\ [][IssueNext]_issueVars
    /\ WF_issueVars(PollStep)

-----------------------------------------------------------------------------

IssueTypeOK ==
    /\ taskRow \in TaskRows \cup {NoTask}
    /\ liveIssue \in [Issues -> IssueStates]
    /\ writing \in [Actors -> [row : TaskRows, upsert : BOOLEAN] \cup {NoTask}]
    /\ closer.link \in Linkages
    /\ poll.row \in TaskRows \cup {NoTask}
    /\ asked \in [Linkers -> [at : {"idle", "gh", "save"}, link : Linkages]]
    /\ \E d \in IssueDesks : \A kind \in UpsetKinds : issueToCome[kind] \in 0..d[kind]

\* A close that close-on-done made never comes back as a reopening: the poll
\* revives no task before a person has reopened or linked an issue.
\* (close_on_done records the close after GitHub took it.)
NoBounce ==
    [][ (poll.at = "act" /\ poll' # poll /\ writing'[Poll] # writing[Poll]
            /\ SawReopen) => opened ]_issueVars

\* The linkage comes to rest: whatever interleaving of closes, reopenings,
\* links, torn writes and refused moves came before, the state recorded for
\* the linked issue comes to be the issue's own. (reverse_sync)
StateSettles ==
    []<>(HasTask /\ taskRow.link.url # NoIssue =>
            taskRow.link.synced = liveIssue[taskRow.link.url])
=============================================================================
