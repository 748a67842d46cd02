# A TLA+ model of lazybones

lazybones is a daemon that drives boards of coding tasks to merge. A task is
claimed, gets a git worktree and an agent started through the `hcom` program,
its work is gated and merged, and what depends on it becomes ready. Operators
author and steer workflows over HTTP and through agents' tools while this runs;
services beside the scheduler follow the agents' log, open pull requests, keep
GitHub issues in step, run extensions, synchronise two machines and publish
documents. This directory holds a TLA+ model of the scheduler and of each of
these, TLC configurations that check them on small instances, and theorems about
them, proved with TLAPS for every size.

Paths below are relative to `src/crates/` unless they start with `src/`.

## 1. The system

### Components, their state, their operations

| component | state | operations | what makes it correct |
|---|---|---|---|
| task lifecycle (`lazybones-store/src/task/status.rs`, `transition.rs`) | a status per task | `Transition` and the edges | only legal moves; terminal statuses rest until a human acts |
| task rows (`lazybones-store/src/task/`) | status, retry counter, heartbeat, session, worktree, branch, `base_commit`, issue link | transition, reset, bump, heartbeat, list, `newly_ready`, upsert | no lost update; a reset forgets the attempt |
| run rows (`lazybones-store/src/run/`) | lifecycle, `started_at`, PR URL, log cursor, workspace | start, stop, resume, clear, advance, record | a stopped run does no work |
| task graph (`lazybones-store/src/task/depend.rs`, `create.rs`, `update.rs`, `workfile/sync.rs`) | a task's `deps` and the `depends_on` edges | create, add, edit, import, delete, promote | row and graph agree; nothing waits for what is gone |
| supervisor tick (`lazybones-engine/src/scheduler/tick.rs`, `reclaim.rs`, `run.rs`) | the locals of one pass | reconcile, reap, re-attach, promote, claim and spawn | budget, dependencies, turns in a shared tree, recovery |
| drive loop (`scheduler/finish.rs`) | `Driving` set; per task a loop with `seen`, idle time | await, gate, land, record, block | one loop per task; done means landed; every loop ends |
| block and auto-retry (`scheduler/block.rs`) | retry counter in the row | Block, bump, Revive | retries are bounded |
| git (`scheduler/worktree.rs`, `merge.rs`, `gate.rs`) | trees, branches, base, remote | provision, commit, gate, merge, push, teardown, hard restart | landed work is the task's own; nothing is lost |
| settings (`lazybones-engine/src/config.rs`, `scheduler/effective.rs`) | configuration, workspace, the task's fields, the loop's copies | load, edit, claim, reattach | a task lands where it worked |
| hcom (external; `lazybones-engine/src/hcom/`) | agents by tag, event log | spawn, list, wait, kill | agents are gone when nobody waits for them |
| operator API (`lazybones-api/src/routes/`) | the request being served | start, stop, stop-reset, resume, restart, cancel, retry, chat, heartbeat, plain lifecycle routes | a verb's effect holds against a concurrent tick |
| log tail (`scheduler/hcom_tail.rs`) | cursor per run | drain, append, advance, fast-forward | no event lost, none twice |
| issue sync (`scheduler/issue.rs`) | synced state per task | `reverse_sync`, `close_on_done`, link | the two sides converge; no echo |
| auto PR (`scheduler/auto_pr.rs`) | `pr_url`, a summarizer agent | `open_pr` | one PR per completed run; no pile of agents |
| extensions (`lazybones-ext`) | rows, registry in memory, bytes; breaker and cycle counters | install, delete, enable, reload; gate check, react, trip, reset | row and registry agree; a faulty extension is cut off; chains are bounded |
| content sync (`lazybones-engine/src/sync/`, `lazybones-jobs`) | store, checkout, remote; running jobs | pull, push, timed push, boot pull | no edit is lost between two machines |
| management agent (`lazybones-engine/src/management/`) | conversation rows, a turn's cursor | launch, drain, append, confirm | every turn is answered, no reply twice |
| documents (`lazybones-api/src/routes/documents.rs` and beside it, `assets.rs`) | document, pages, references, sources; asset row and bytes | create, edit, attach, upload, delete | no orphan resurfaces; an upload is served |
| publishing (`routes/document_gh.rs`, `lazybones-gh`) | a checkout, remote branches, the document's links | branch, commit, push, open, panel verbs | a PR shows its own document |
| catalogue (templates, skills, branding, agents, secrets, preferences, follow-ups) | a row each | create, edit, delete, attach, seed at boot | an answered write holds |
| git panel (`routes/gh.rs`) | issues, pull requests, worktrees | close, merge, comment, remove, prune | what is answered has happened |
| file views (`routes/files.rs`, `lazybones-gh/src/repo.rs`) | none | the tree with its change marks | a changed file is shown changed |
| views and streams, wasm host, event log, auth, rendering, CLI, UI | | | reads, glue and presentation: not modelled |

### How they interact

```
 operators --HTTP--> routes --+                  +--> hcom --> agents
 agents ---MCP----> tools ----+                  |      ^  (DONE, BLOCKED, exit)
                              v                  |      |
        tick (every tick_secs) --> store  <--- drive loops (one task each)
             |    ^ listings,      (rows)         ^   ^
             |    | budget          ^             |   | await_signal
             |    |                 |             |   +--> git: gate, land
             +----+---- spawn_resume, Driving ----+            |
             |                      |                          v
             +--> tails of a tick: log tail, issue sync,    remote, GitHub
                  auto PR                                      ^
             sync jobs, chat turns, document requests ---------+
```

Everything is shared through the store, git and hcom; the only shared memory is
the `Driving` set, the extension registry and the breaker. There is one tick at a
time. Drive loops, sync jobs and chat turns are tokio tasks, HTTP handlers and
tool calls run concurrently with all of it, agents are processes of their own, and
all in-memory state dies with the daemon while the store, git and the agents live
on.

### What is hard

* The tick works from listings: a status, a run row, hcom's table and a count of
  free slots are read early in a pass and used after other actors have moved.
* A drive loop never reads its row again. It learns of a stop, a reclaim or a
  reset only when a transition is refused, and a transition is judged by the
  status it targets, so that some late ones are not refused.
* `block()` is three writes; a stop is one write and then two calls per task.
* A store verb is a select and a write of the whole row, so two of them can undo
  each other's fields.
* A landing is some ten git commands in a repository that other loops, agents and
  operators use; so is a publication, and a sync with two machines.
* A row and what belongs to it (edges, registry record, bytes, files, pages) are
  written one after another, and either may fail.
* A daemon death between any two of these steps, and a recovery that has to tell
  a task that waits for its agent from one that is past it.

`PROJECT.json` lists each hazard at its line with the property that covers it.

## 2. The modules

| module | models |
|---|---|
| `TaskStatus` | statuses, edges, transitions and their targets |
| `Board` | constants, variables and types; how rows are read; the verbs of the store and of hcom |
| `DriveLoop` | `finish.rs` and, for a loop, `block.rs` |
| `Tick` | `tick.rs`, `reclaim.rs` and, for the tick, `block.rs` |
| `OperatorApi` | the HTTP handlers that change a board's state |
| `Scheduler` | the composition with agents, time and crashes; fairness; every property |
| `Plan` | the abstract promise: dependencies land first, slots are respected, done is final |
| `RunLog` | the abstract promise of the log: each line once, in order, nothing missing but for a cause |
| `RunRows` | a workflow's row, read and written whole by every verb |
| `LogTail`, `AutoPr` | `hcom_tail.rs` and `auto_pr.rs`, both over `RunRows` |
| `IssueSync` | one linked task and its issue |
| `TaskGraph` | the authoring of tasks and workflows against tick and claims |
| `Extensions`, `ExtDispatch` | the registry; gate checks, reactions, breaker and cycle guard over it |
| `Landing` | a task's work in git, from claim to done |
| `Settings` | which settings and which tree each read of a claim, a loop and a landing sees |
| `ContentSync` | two machines and their remote |
| `AgentChat` | turns of the management agent |
| `Book`, `Publishing` | documents in the store, and in git |
| `Shelf` | the small records of the catalogue |
| `FileTree`, `Panel` | the operator's views of a checkout and of GitHub |
| `MCScheduler`, `MCServices`, `MCWorkshop` | the instances the runs use |
| `SchedulerTypes`, `SchedulerBounds`, `SchedulerLanding`, `SchedulerPlan` | proofs about `Scheduler` |
| `ServicesProofs`, `WorkshopProofs`, `SyncProofs`, `SettingsLanding` | proofs about the other modules |

`Board` is extended by `DriveLoop` and `OperatorApi`, `DriveLoop` by `Tick` (the
tick starts loops), and `Scheduler` extends `Tick` and `OperatorApi`; it INSTANCEs
`Plan`, and `LogTail` `RunLog`. `ExtDispatch` extends `Extensions`. `MCServices` puts side by side
`ExtDispatch`, `LogTail`, `AutoPr`, `IssueSync` and `TaskGraph`, `MCWorkshop` the
rest. What is put side by side there shares no state (`LogTail` and `AutoPr` share
the run rows, but take no steps together): a behaviour is one part's, so that one
run checks them all at the sum of their sizes.

### State of the scheduler

| variable | in the code |
|---|---|
| `task` | the task rows: `status`, `retry_count` |
| `run` | the run rows: `lifecycle`, `started_at.is_some()` |
| `agents` | hcom's table, as the number of agents in each state that carry a task's tag |
| `beating` | tasks whose heartbeat is younger than `stale_after_secs` |
| `driving` | the `Driving` set |
| `loop` | the drive loops: where each one is, and `seen`. Two places per task, so that "one loop per task" can fail |
| `tick` | where the pass is, and its locals: the tasks of the listing still to handle, hcom's listing, the slots, the cached runs, the busy shared runs |
| `oper` | the request being served: what is left of its listing |
| `merged` | history: tasks whose branch landed since their last reset |
| `crashes` | how often the daemon died |

### Steps of the scheduler

Each query and each write of the tick is a step of its own, and so is each write
of a loop and of a handler. A store verb that reads a row and writes it back is
one step here; `RunRows`, `IssueSync` and `TaskGraph` take it apart. A pass is

    TickBegins (hcom list) -> TickSweeps, TickKillsWedged, TickReclaims (per status)
    -> TickReaps -> TickListsOrphans, TickReattaches (per status)
    -> TickExcludesRuns, TickFindsReady, TickPromotes
    -> TickCountsRunning, TickCountsGating -> TickListsReady, TickListsRunning
    -> TickConsiders, TickSpawns, TickClaims (per task)

and `TickBlocks`, `TickBumps`, `TickRevives` when it calls `block()`. A loop goes

    await -> signalled -> gate -> land -> record -> exit

with `block -> bump -> revive -> exit` from `await`, `gate` and `land`.

Taken as free choices: what an agent does and when, whether hcom's listing, a
kill, a spawn, a gate or a landing succeeds, and when `AWAIT_SECS`,
`IDLE_DONE_SECS` and `stale_after_secs` are over. Taken as never failing: the
store. Two simplifications are commented where they are made: the reaping of
finished tasks' agents is one step, and the tasks of different runs are
considered in any order within a pass.

### State and steps of the other modules

| module | state | a step is |
|---|---|---|
| `RunRows` | `runRow`, and in `held` the copy each writer has read | the read or the write of a whole row |
| `LogTail` | `stream` (hcom's events by workflow), `logRows`, `chatRows`, the `drain` under way | the listing of active runs, the drain, one append, one mirror into the chat, the read and the write of one cursor, the fast-forward of finished runs; a post, a failed append, a death |
| `AutoPr` | live summarizers per workflow, the branch's PR, the pass and the workflow in hand | reap, spawn, the wait, the kill after it, the look for an existing PR, its creation, the read and the write that record it |
| `IssueSync` | the task's row, the issues, each actor's copy (`writing`), the loop's and the poll's state | one row read, one row write, one `gh` call |
| `TaskGraph` | `gRow`, `gEdges`, `gFlow`, per request how far it is | one row read or written, one edge related or cut, one tick action (promote, claim, end) |
| `Extensions` | `extRow`, `extReg`, `extBlobs`, requests | one write of row, registry or bytes: create or undo, enable before or after the registry |
| `ExtDispatch` | breaker, alerts, per loop its gate check, the event chain of one dispatch | taking the enabled set, one guest's call and its verdict or fault, the trip, an emission within depth, re-entry and rate |
| `Landing` | `tip`, `remoteTip`, `trees`, `dirty`, `mainHead`; per task status, phase and baseline. A commit is the attempt whose work it is, a branch the set of its commits | one git command or one row write: claim, gate and its verdict, commit, empty check, merge or fast-forward, push and its retry, record, teardown; a hard restart. A claim in the shared setting looks at the tasks at work only, so that a sibling may be claimed while one is at its gate or landing |
| `Settings` | `conf`, `space`, `job`, the trees that exist, the loop's copies (`drive`) | boot, the read and the write of a workspace edit, a task edit, the tick's cached workspace, provision, claim, landing, reattach |
| `ContentSync` | per machine `rows` (version and lifecycle), `files`, `head`; `cloud`; the jobs | open, fetch and fast-forward, one row read or written by an import, the export of one kind, commit, push; a timer, a boot, a failed call |
| `AgentChat` | `thread`, live agents, per turn its phase, cursor and batch; per reply its prose rows, cards and refusing lines; the notes | launch or send, pin, poll, drain, one look-up, one append, one append that failed and is passed over, end with a note or with one that failed |
| `Book` | `bookHeld`, `pageRow`, `sourceRow`, `linked`, `assetRow`, `blobs` | one row or one file looked up, written or deleted |
| `Publishing` | `headBranch`, `local`, index, files, `upstream`, `prs`, `paperRow` | one git or gh command, one write of the row |
| `Shelf` | one `entry` per kind, requests, `toSeed` | one look or one statement; one seed |
| `FileTree` | HEAD, index, files, merge base, the tree under way | one of the tree's git commands; an edit, a stage, a commit, a landing |
| `Panel` | items, comments, linked trees, requests | one gh or git command; an event on GitHub or in a tree |

Variables kept for a property only are marked so where they are declared
(`merged`, `excused`, `opened`, `gOdd`, `gMessy`, `gStray`, `spoiled`, `strays`,
`served`, `entangled`, `settled`, and of a turn `lost`, `mute`, `deserted`): each names the steps it stands for, and none
guards an action.

## 3. What the runs check

| run | instance | properties |
|---|---|---|
| `Unattended` | t2 depends on t1, one run, one slot, one crash, no operator, the tick fair | `DepsBeforeWork`, `FollowsPlan`, `ReadyIsPromoted` |
| `Contended` | a task in a run and a standalone one, one slot | `WithinBudget` |
| `SharedTree` | two tasks of a Shared run, two slots | `OneRunsPerSharedTree` |
| `Operated` | one task with one auto-retry, every workflow and task verb, the plain claim | `TypeOK`, `DrivenOnce`, `DoneIsMerged`, `RetriesNearCap` |
| `Recovery` | one task with one auto-retry, heartbeats, two crashes, fair | `GatingIsAtGate`, `NoneStaysInFlight` |
| `Services` | the modules of `MCServices`, one at a time, fair | `ServicesTypeOK`, `NoGhostRecord`, `FaultingGateIsShed`, `FaultNeverPasses`, `NoSilentSkip`, `FollowsRunLog`, `NeverWedged`, `NoSwarm`, `PrIsRecorded`, `NoBounce`, `StateSettles`, `GraphMatchesRows`, `CreateIsNotRun`, `NothingWaitsForever` |
| `Workshop` | the modules of `MCWorkshop`, one at a time | `WorkshopTypeOK`, `DoneIsLanded`, `NotFalselyEmpty`, `LandsWhereItWorked`, `ArrivesUpToDate`, `LifecycleIsLocal`, `CloudOnlyAdvances`, `TurnIsAnswered`, `NoReplyTwice`, `MadeAnewIsEmpty`, `UploadedIsServed`, `PrShowsOnlyItsDocument`, `AnsweredWriteHolds`, `ChangeIsShown`, `AnsweredIsDone` |

Scheduler:

* `FollowsPlan` is refinement: with `waiting`, `underway`, `stuck` and `done`
  read off the statuses, every step of the daemon is a step of `Plan` or a
  stutter. It includes what no single invariant says: a task is begun only with
  a free slot and with all its dependencies landed, and done is final.
* `ReadyIsPromoted` says of the second task of a chain that it gets its turn once the first
  has landed, though a pass listed the ready tasks before that or died between the
  listing and the promotion. Its negative half, that a task of a workflow nobody
  started or that was stopped is left alone until it is started, and then not forgotten, is in
  `NothingWaitsForever` (`FlowShut`): a stopped run on the scheduler's own board
  has too many states for the fairness to be checked.
* None of these runs has an operator who resets a dependency. What is left of the
  order then is not checked but proved (`WorkFollowsDeps`, `EachTaskWaitsItsTurn`).
* `DoneIsMerged` relates the row to what git did, across stops, resets and
  re-claims in the middle of a landing.
* `GatingIsAtGate` is about recovery from a stale listing: a task listed as
  running that is gating by the time it is re-attached must not be given a loop
  that waits for its agent.
* `RetriesNearCap` is not `retries <= cap`: TLC finds a task blocked by its loop
  and by the tick at once, both within the cap, both bumping. One above the cap
  is the most there can be.

Services:

* `NoGhostRecord`: the rollback of a failed install and a concurrent delete leave
  no record in memory that the store does not know.
* `FaultNeverPasses` and `FaultingGateIsShed`: gates fail closed, and several loops
  that fault on one gate at once trip its breaker and alert the operator once.
* `NoSilentSkip`, `FollowsRunLog`, `NeverWedged`: the drain starts at the least
  cursor and appends before it advances, so a death or a torn row write only makes
  it read again; the look-up before each append makes that harmless; and a
  finished workflow does not hold the least cursor back. `FollowsRunLog` is
  refinement: read as `RunLog` reads it, the tail writes what an agent said once and
  after all that was said before it for the same workflow, never a bubble before its
  line, and drops nothing but what is too far back, of an agent that left, of a
  workflow that there is not, or failed to be appended when its turn came.
* `NoSwarm`, `PrIsRecorded`: attempts at a pull request leave no agents behind and
  come to an end.
* `NoBounce`, `StateSettles`: a close made by the daemon does not come back as a
  reopening, and the recorded state comes to be the issue's.
* `GraphMatchesRows`, `CreateIsNotRun`, `NothingWaitsForever`: the two copies of a
  dependency agree once nobody writes, a workflow that was only created does not
  run, and what waits for ever waits for something its author can see.

Workshop:

* `DoneIsLanded`, `NotFalselyEmpty`: over failed pushes, merges that are retried
  and attempts that died, done means landed and empty means nothing was made. The
  layouts in which tasks work in the one checkout have one slot; with two, the
  claim of a sibling moves the head under a task that is at its gate (section 6).
* `LandsWhereItWorked`: edits of workspace, task and configuration between claim
  and landing never make a workflow's loop land in another repository.
* `ArrivesUpToDate`, `CloudOnlyAdvances`, `LifecycleIsLocal`: two machines used one
  after the other lose nothing, unless one of three mishaps struck that the model
  names (see section 6): an import over edits not pushed, a push from a store that
  had not imported what its checkout pulled, a commit whose push failed.
* `TurnIsAnswered`, `NoReplyTwice`: every reply a turn took from the thread is shown
  when it is over, unless an append of that reply failed; a turn that took none has
  left a note, unless the note failed, too, or no agent was alive; and no reply has
  two messages or two cards unless turns overlapped.
* `MadeAnewIsEmpty`, `UploadedIsServed`: the order in which rows, pages and bytes
  are written makes re-creation and upload safe.
* `PrShowsOnlyItsDocument`: branches start at the base and not where the checkout
  happens to be.
* `AnsweredWriteHolds`: look-then-write edits, seeding and deletion of small rows.
* `ChangeIsShown`: a tree put together from three git commands at three moments.
* `AnsweredIsDone`: the panel's act-then-look requests.

Five runs show where the code does not do what its comments say. Each checks one
property that states the comment; TLC's trace is the counterexample.

| run | property | what happens |
|---|---|---|
| `StopRace` | `StoppedIsQuiet` | the tick read the run before the stop and claims after it; a task of the stopped run runs on |
| `SharedGate` | `SharedTreeHeldUntilLanded` | a sibling starts in the shared tree while a task is gating in it |
| `SlowStart` | `StartupIsNotExit` | a loop that outlived a reclaim takes the next agent, which has not registered, for an exit |
| `PausedFirst` | `IdleSlotIsUsed` | a paused run's ready task takes the slot of every pass and is then skipped; another run's task is never claimed |
| `BranchWipe` | `BaseSurvives` | a hard restart in branch mode removes "the worktree", which is the repository |

### Bounds

Scheduler: boards have one or two tasks and one or two runs. The hazards listed
are between two parties over one task, or between two tasks over one slot, tree or
run; a third task adds traffic and no new conflict of this kind, and what a board
of any size satisfies is proved where section 4 says so. `MaxAgents` (1) bounds
the agents on a tag: past it a spawn fails, as it may at any time. `MaxCrashes` is
0, 1 or 2: two let a recovery be hit by a crash. `Copy` gives each task two loop
places. One operator request is served at a time; handlers are interleaved with
everything else. `Operated` leaves the plain gate and done routes closed: with
them a caller makes any task done himself, and `DoneIsMerged` would be about him.
The plain ready and block routes write nothing that start and cancel do not, and
heartbeats are in `Recovery`. No symmetry is used: listings are ordered.

Services: one gate and two reactors with two checking loops, one of the two
clients acting during dispatch; `Threshold` 2 (a streak needs two faults),
`MaxDepth` 3, at most `MaxEvents` 8 events in a dispatch; two workflows, so that
one can hold the other's cursor back, three hcom events, a drain of two (so that it
can overflow), one mishap for the tail and two for an attempt at a pull request
(the second hits the recovery from the first); one linked task with one issue and
two or three upsets (`IssueDesks`); two tasks and two authors on twelve boards
(`SomeBoards`), each with the two or three verbs that can disagree over it.

Workshop: two landing tasks in six layouts (tree mode, strategy, remote, slots:
two where tasks have trees of their own or of their workflow, one where they have the
checkout), one accident and one revive; two machines, one task and one workflow, each edited twice
at most, checkouts of two commits, either two jobs at once and no upset or one job
and one upset; two turns, two replies, one upset, in both profiles with the session
each has; two pages, one source, one reference and a file in two scopes, four calls
and one mishap; two documents at five desks; three requesters, three requests and a
fault for each group of kinds; three tasks, two repositories and two workspaces;
two files in a directory and one beside it, three touches; two panel clients, two
calls, one event. Each hazard listed needs two parties and one failure, and these
give both. What is bounded only to make TLC end (`MaxCursor`, `MaxReplies`,
`MaxVersion`, `MaxCommits`, the counts of calls and mishaps) is a constant, and the
theorems hold for each of its values.

Deadlock is checked in every scheduler run. `vars` has no step that is always
possible, but the tick always is: a board with nothing to do is one that is ticked.
In `Services` and `Workshop` it is not: a part stops when its bounded requests and
mishaps are used up.

### Fairness

Scheduler: weak fairness of the tick, of each drive loop and of a request once it is
being served: the supervisor is a `loop` around an interval timer (`run.rs`), a drive
loop waits only for hcom's `wait` with a time limit and for a bounded number of
slices (`finish.rs`), a handler is an async function that runs to its end. The
ceiling is what makes the loop's fairness honest: `LoopGivesUp` is always possible
while it waits. `ReadyIsPromoted` needs the
tick alone (`TickingSpec`). Nothing is assumed of agents, operators, hcom, heartbeats
or crashes.

Services: weak fairness of the steps the supervisor itself takes (`TailStep`,
`PrStep`, `PollStep`, `TickWorks`), for the same reason: it ticks as long as the daemon
lives, and each of its awaits has a time limit. `NothingWaitsForever` also assumes
that a request once begun is served (`Serves`) and that a running task comes to an
end (`TaskEnds`), which is `NoneStaysInFlight` of the scheduler. Nothing is assumed
of operators, people on GitHub, agents or failures. `Workshop` has no liveness.

## 4. What is proved

All theorems are of a module's specification without its fairness, from the
assumptions the modules name and from the condition in the table, for every value
of the constants: any set of tasks, dependencies, runs, caps and slots, any
clients, workflows, machines, records and bounds.

| theorem | states | condition |
|---|---|---|
| `TypeCorrect` | `[]TypeOK` | |
| `OneLoopPerTask` | `[]DrivenOnce` | |
| `BudgetHolds` | `[]WithinBudget` | the plain claim route is not used |
| `RetriesBounded` | `[]RetriesNearCap` | |
| `DoneHasLanded` | `[]DoneIsMerged` | the plain gate and done routes are not used |
| `GatingNeverAwaits` | `[]GatingIsAtGate` | the same |
| `SharedTasksTakeTurns` | `[]OneRunsPerSharedTree` | the plain claim route is not used |
| `WorkFollowsDeps` | `[]DepsBeforeWork` | `OrderedRoutes`, see below |
| `EachTaskWaitsItsTurn` | `[](InHand(t) => DepsDone(t))` | every step `LeavesOrder(t)` |
| `WorkFollowsDepsLetBe` | `[]DepsBeforeWork` | every step leaves the order of every task |
| `ImplementsPlan` | `FollowsPlan` | `OrderedRoutes`, and no plain claim, gate or done |
| `NoGhosts` | `[]NoGhostRecord` | |
| `GatesFailClosed`, `FaultingGatesAreShed` | `[]FaultNeverPasses`, `[]FaultingGateIsShed` | |
| `NothingIsSkipped`, `NoLineTwice` | `[]NoSilentSkip`, `[]NoDuplicateLine` | |
| `ImplementsRunLog` | `FollowsRunLog` | |
| `AttemptsDoNotSwarm` | `[]NoSwarm` | |
| `ClosesDoNotBounce` | `NoBounce` | |
| `GraphIsWhatRowsSay`, `CreatingDoesNotRun` | `[]GraphMatchesRows`, `[]CreateIsNotRun` | |
| `LandingInType` | `[]LandTypeOK` | |
| `EmptyMeansEmpty` | `[]NotFalselyEmpty` | |
| `DoneHasItsWorkLanded` | `[]DoneIsLanded` | `OneInTheCheckout`: one slot wherever tasks work in the checkout |
| `WhoWorksAloneLands` | `[]DoneIsLanded` | `[]OneAtATime`: no two tasks work in the checkout at once |
| `LandsThere` | `[]LandsWhereItWorked` | |
| `WorkflowsStayLocal`, `ArrivalIsUpToDate`, `CloudAdvances` | `[]LifecycleIsLocal`, `[]ArrivesUpToDate`, `CloudOnlyAdvances` | |
| `TurnsAreAnswered`, `RepliesAppearOnce` | `[]TurnIsAnswered`, `[]NoReplyTwice` | |
| `AnewIsEmpty`, `AnsweredUploadsAreServed` | `[]MadeAnewIsEmpty`, `[]UploadedIsServed` | |
| `AnswersHold` | `[]AnsweredWriteHolds` | |
| `AnswersAreDone` | `[]AnsweredIsDone` | |
| `TreeShowsChanges` | `[]ChangeIsShown` | |
| `PrsShowTheirDocument` | `[]PrShowsOnlyItsDocument` | |
| `ServicesKeepType`, `WorkshopKeepsType` | `[]ServicesTypeOK`, `[]WorkshopTypeOK` | |

`SchedulerTypes`, `SchedulerBounds`, `SchedulerLanding` and `SchedulerPlan` hold the
scheduler's theorems, `ServicesProofs` those from `NoGhosts` to `CreatingDoesNotRun`
and `ServicesKeepType`, `SettingsLanding` the one on settings, `SyncProofs` those on the sync, the tree,
publishing, documents and the catalogue, `WorkshopProofs` the others. What the constants are assumed to be is in the
modules: that the names of things differ, and that what one constant says is in the set
another gives (`GraphConstants`, `PublishConstants`, `SettingsConstants`,
`ShelfConstants`, `PanelConstants`), that a directory lies in finitely many others and in
none that lies in it (`FileTreeConstants`), that bounds are numbers (`GuardAssumption`,
`MaxUpsetsAssumption`). TLC evaluates each on the runs that use its module.

### The scheduler

* **Types** (`TInv`). Types alone are not inductive: the tick writes to the task it
  has in hand and a request acts by its verb. `TInv` adds that the task in hand is
  one of those still to handle and that a request under way has a verb.
* **One loop** (`DrivenOnce`) is inductive on top of `TInv`: a loop starts only where
  the id was not in `Driving`, an exit takes out id and loop together, a crash both.
* **Budget** (`BudgetInv`). The property says nothing of the slots the tick has counted
  and not yet used. `BudgetInv` follows the pass: after the first query the running
  tasks are at most the count (they may turn gating in between and be counted
  twice, which errs on the safe side); after the second, tasks in flight and free
  slots are within the limit; from the cut of the ready list to the last claim,
  tasks in flight and tasks still to consider are. Only the tick adds to the
  tasks in flight, so what it counted can only shrink while it works.
* **Retries** (`RetryInv`). It speaks of who *owes* a bump: one who does was granted it
  within the cap, and when the loop and the tick both owe one, both were granted it
  against the same count. That there is no third is `DrivenOnce`.
* **Landing** (`LandInv`). A loop about to record a gating task has landed it; a
  gating task's loop is at the gate or past it; and (`ListedRunning`) the tick does not
  hold a gating task without a loop on its list of *running* orphans, since only a
  crash takes the loop from a gating task and a crash also empties the tick.
* **Turns** (`BusyInv`). From the listing of the running tasks to the end of the pass
  the busy set covers every run with a running task: only the pass itself puts
  tasks to work, and it marks what it claims.
* **Order** (`OrderInv`). Whatever the tick, a loop or a request holds on to (its list,
  its task, a blocked task that guidance may revive) has its dependencies done.
  `OrderedRoutes` excludes the requests that take a landing back (stop-reset, resume,
  restarts, clean retry, plain ready), after which dependents that have begun stand
  without it, and guidance together with cancel or the plain block: a task blocked
  before its dependencies were done is revived to ready without a look at them.
* **Turn** (`TurnInv`). The same without restricting the requests: what may go wrong is
  said of the steps. A step `LeavesOrder(t)` if it takes no finished dependency back
  while `t` is ready, in flight, or on the list of the tick or in a loop, and does not
  send `t` off early by a plain ready or a guided revival. Then no listing however old,
  no crash, retry, start, stop, plain claim, gate or done puts `t` to work too soon, whatever
  happens to the other tasks meanwhile. The behaviours excluded for `t` are those that
  the code allows and that break the order; all others are covered, so a reset of a task
  that nothing in hand depends on, which `OrderedRoutes` excludes, is not.
* **Plan** (`ImplementsPlan`). With types, budget, landing and order at hand every action
  is matched with `Begin`, `Land`, `Finish` and so on, or leaves the phases alone.
  The plain claim, gate and done routes write statuses the plan has others for.

Shared lemmas: `TaskWrites` (who writes a task row, and how), `TickEnters` (how the tick
gets to a bump or a re-attachment), and facts about the store's verbs.

### The services

* **Registry** (`RegistryInv` = types and the property): each write of a handler that
  takes a row away from a record, or gives a record without one, is made by a request
  that `WillSettle`.
* **Gates** (`GateInv`). `VerdictsKept`: what a check took up it has still to ask or has
  heard, until it faults. `Shedding`: a gate that has not tripped has a streak below the
  threshold; one that has, a streak that with the checks still to ask it stays below
  threshold and loops, since a trip keeps new checks from taking it up.
* **Tail** (`TailInv`). Call an event told when it is in the log or was dropped for a known
  cause. At or below a cursor, be it stored, listed, or in the copy a writer holds, every
  event of the workflow is told (`RowsSafe`, `CursorsSafe`); up to the greatest id of a batch,
  every event of a listed workflow is told or still to append (`BatchSafe`), and nothing is
  left to append when the cursors advance (`AppendsSafe`).
* **Log** (`ImplementsRunLog`). The same invariant makes the refinement go through: the
  first event still to append is due, for one said before it for the same workflow is told
  or would be among the rest (`FirstIsDue`); a row that is written moves one mark, to where
  `RowsSafe` of the next state has everything told (`RowsMoveMarks`).
* **Pull requests** (`SwarmInv`). Before a spawn the live agents are as many as the kills
  that failed at most, since the attempt has reaped.
* **Issues** (`BounceInv`). While no person has reopened or linked an issue there is one
  issue such that every copy of the linkage (the row, what a writer is about to save,
  the close loop's, the poll's, a linker's) is of it or of none, and records a close
  only if it is closed. An old copy written back may say "open" of a closed issue,
  which the poll reads as a close; never the other way round.
* **Graph** (`GraphInv`). A task is held while a request is at it. `GraphInv` says what the
  holder knows of the edges it has still to cut or to relate, that two holders of one
  task make it messy, and that a task nobody holds has the edges its row says. For the
  workflow it follows each task from the request that makes it: where there is no
  workflow its tasks are excepted, and what the tick holds on its list to claim is
  standalone, of a started workflow, or excepted.

* **Types** (`ServicesInv`). One invariant per part, since a behaviour is one part's; most are
  those above with the sets that what is remembered lies in (`TailRest`: what a drain
  appends is of its batch and was emitted). That no extension emits more in a reaction
  than the cycle guard's window has (`EventsInType`) and that no streak of a breaker passes
  its cap are in it.

### Work that leaves the store

* **Types and frame of the landing** (`TypedFrame`): which phases go with which status,
  which trees and branches exist at each.
* **Empty** (`EmptyInv`). The baseline of a task whose claims could all read the head does
  not contain its own work (`BaseKnown`), and the work an attempt made stays in its tree
  or on its branch (`WorkKept`), so that an empty comparison means there was none.
* **Done** (`DoneInv`). `WorkIsSafe` follows the work of each task through its phases: in
  reach, saved, on base, pushed, recorded. Branches only gain commits, so what others
  do in between takes nothing away; in branch mode that needs `Alone`, at most one task
  past its claim, which is what `OneInTheCheckout` gives for every behaviour and
  `OneAtATime` says of one. Without it the property is false: the checkout is moved
  under a task. The shared setting is no substitute for the one slot, since the claim
  asks for tasks at work and not for those at their gate.
* **Settings** (`Landings`). The loop's copies, the job's and the tree's agree by mode and
  repository; the workspace's repository never changes, because an edit writes back
  the one it read.
* **Sync** (`SyncFrame`, `SyncSafe`). While nothing is spoiled: logs only grow, the files of
  a checkout are no older than its log and no newer than its store unless it is
  behind, what a push has read is newer than what the log holds, what a pull brings is
  taken in row by row. The attempt to prove an earlier `ArrivesUpToDate` showed it false
  beyond TLC's bounds: a commit whose push failed is not pushed by the next push,
  which finds nothing to commit. That mishap is now the third reason, `"unsent"`.
* **Chat** (`ChatInv`). Where a turn's cursor, batch and pin stand in each phase, and that
  what it took and has no longer to persist is shown or lost, with a row, a card or a
  line to show for it and not merely handled (`TurnInOrder`); and that a look-up that
  found no row is still right when the row is written (`OneRowEach`), as long as no two
  turns drained at once.
* **Book** (`BookInv`). `PagesSafe`: where there is no document, and where its deletion has come
  to the pages, every page still there is one that deletion will take or one added while
  it ran. `FileSafe`: nothing answered is being deleted, and an upload that meets no
  deletion writes its bytes beside its row.
* **Catalogue** (`ShelfInv`). Nobody is served while the daemon seeds (`SeedsAlone`); nobody is at
  work on a record settled as written, and only requests that cannot make one are at
  work on a record settled as gone (`Recorded`).
* **Panel** (`PanelInv`). Per request, what its remaining commands presuppose
  (`RequestSound`), under which each step of others keeps it or marks it overtaken.
* **Tree** (`TreeInv`). Two sets, the files different all along and those the same all
  along, are true of the checkout until the answer. Once the status has been taken, a
  file of the first is marked, or was found on the branch in both index and HEAD,
  where the diff against the merge base is sure to find it; one of the second is not
  marked, and neither is a directory over it.
* **Publishing** (`PubInv`). Until two requests meet: what a document's branch has beyond
  the base on GitHub is of that document; the local base has nothing GitHub's has not;
  only the request about to commit has anything in the index; and a request's steps
  follow each other in order, so that a branch is named right after it was made and
  a file committed right after it was added.

* **Types of all these** (`WorkshopInv`). One invariant per part, since a behaviour is one
  part's. Most types lean on more than types: a checkout's log stays within
  `MaxCommits` because it is cut from logs that do (`LogsShort`); a landing finds its
  repository because the main trees of the settings stay and every copy of settings names
  a repository; the request at "open" has a branch because the steps of a publication
  follow each other in order, which holds also where two requests met in the checkout;
  an item has no more comments than there were calls because every comment, made or
  still to make, is counted by a call of its own (`Commenting`).

### What the attempts found

Proofs that would not go through were followed by a look at why:

* `ArrivesUpToDate` (above) and `CreateIsNotRun` were false beyond TLC's bounds. Of the
  latter: a standalone task listed by the tick as ready, deleted and added anew to a
  workflow nobody started, is claimed by the list; and a task added between
  `deleteFlow`'s listing and its last deletion outlives the workflow. Both need more
  requests than the run has; both are in the code, and `gStray` now names them.
* `FileTree` took a new directory that holds nothing but a directory for one git reports
  by its inner name; git collapses to the outermost (`Outermost`).
* `Publishing` had no answer for a merge that deletes the head branch in a checkout whose
  base was deleted, and left out that the base is pulled after it (`Pulled`). Merges are
  merge commits; a squash or a rebase brings the same files as other commits and is
  left out.

### Only model-checked

* Liveness (`NoneStaysInFlight`, `ReadyIsPromoted`, `NeverWedged`, `PrIsRecorded`,
  `StateSettles`, `NothingWaitsForever`): outside what TLAPS handles.

Every invariant and every action property a passing run checks is stated by a theorem,
and so are the two refinements.
## 5. What is not modelled

* In the scheduler the store's verbs are atomic; in the code each reads a row and
  writes it whole. Which updates get lost is in `RunRows`, `IssueSync` and
  `TaskGraph`, without loops and agents.
* In the scheduler a landing or a gate succeeds or fails; `Landing` has what git does,
  for the tasks of one workflow in one repository. The gate's commands have no content.
* An agent that hcom still lists as `dead` is taken as parked and then gone.
* Texts, layout and rendering of documents; the fields of catalogue records (one
  version number); the text of pull requests, prompts and notes.
* Views and streams, the event log, the wasm host, auth, CLI and UI: reads, glue and
  presentation, with no state of their own that moves. The probe of hcom at start-up
  (`lazybones-api/src/engine/detect.rs`).

## 6. Divergences

Met while modelling, besides the five that have a run. Those marked (m) are
behaviours of the model that a property excepts by name.

Scheduler and landing:

* "`worktrees: false` forces serial execution" (`docs/scheduler.md:64`, `config.rs:50`): it makes
  all tasks work in the one checkout (`worktree.rs:95`) and serialises nothing, which is why
  `DoneHasItsWorkLanded` needs `OneInTheCheckout`. With more slots than one, in branch mode
  or with worktrees off, a sibling's claim moves the head of the checkout (`checkout -B`)
  while a task is at its gate or landing; the shared setting keeps out only siblings of a
  task that is *running* (`tick.rs:195-233`). The task then commits to the sibling's branch,
  lands nothing of its own, and is recorded done.
* A task whose sibling in the same tree was gated red, or one revived empty, lands the
  sibling's leftovers as its own work (`finish.rs:345`, `373-379`).
* With mode New and a named tree, or with Reuse, siblings work in one tree with nothing to
  serialise them, and the first that is done tears it down (`worktree.rs:12-17`, `316-332`).
* A claim that could not read the head and is claimed again takes its own commit for
  its baseline (m, `blind`).
* A loop that outlives a reclaim goes on with the old claim's settings, and a restart
  gives running tasks the edited ones, though "an edit never disturbs running work"
  (`workflows_update.rs:15-17`; m, `fresh`).

Services:

* A stop between the read and the write of a cursor or a pull request is undone by
  the write (`run/stop.rs:3-7`); the tail and the attempts survive it, the stop does not.
* A completed run that is restarted gets the old merged pull request recorded again
  (`start.rs:60-61`); a pull request may be opened for a run stopped during the wait.
* "An absent or killed gate never waves a branch through" (`dispatch.rs:13-14`): a gate whose
  breaker tripped is no longer asked, and branches pass without it.
* A reopened issue does not revive a task that is done: the move is refused
  (`docs/issue-linkage-scope.md:133` says it revives).
* `set_issue_link` is documented to leave the status alone (`store/task/issue.rs:7-8`); it
  is a read and an upsert, and may write an old status back.
* A task is inserted before its edges are: a tick in between promotes it early
  (`depend.rs:3`; m, `gMessy`). A death there loses the edges for good, since an edit
  compares with the row (m). A re-import keeps old edges (m, `gOdd`).
* An edit's select and upsert resurrects a deleted task or resets a running one
  (`update.rs:5`; m). Nothing refuses a dependency cycle (m, `Hopeless`).
* A start judges readiness by the rows and a promotion by the edges, though "the plan
  graph, and the stored `deps` all agree" (`sync.rs`).
* Tools and routes have drifted: a tool's start skips the preflight and its retry the
  check of the run, though `orchestrate.rs:16` says they "can never drift".

Sync (all m, `spoiled`): a commit whose push failed is reported clean by the next push
(`sync.rs:253-273`); the pull at boot imports over edits not pushed (`import.rs:24`); a push
from a store that has not imported what its checkout pulled takes edits back. Files of
deleted records stay (`export.rs:25-28`).

Chat: a reply with a proposal and an explanation, as the prompt asks for (`prompt.rs:52`), is
stored as prose first, under the id by which the card is then looked up, so that the
card never appears (`runner.rs:316-356`, `store.rs:151-193`; `confirm.rs:26-27` prefers a
visible card to a lost action). An append that fails is logged and passed over: the
turn counts as answered and its cursor is past the reply (`runner.rs:324-330`, `352-354`; m,
`lost`), and so is a note that fails (`302-309`, `agent_chat.rs:112`; m, `mute`), so that a turn
can end without a word. A failed listing of agents ends a turn in silence, too (m,
`deserted`); a failed reading of the latest id makes it drain from the start, so that what
it answers with may be older turns' replies; a line that refuses a proposal carries no id
and is repeated when its reply is drained again; overlapping turns may show a reply
twice (m, `overlapped`). A turn ends without a word also when the daemon restarts, which
the model leaves out.

Documents and catalogue: concurrent edits of a document lose fields (whole-row writes); a
publication that failed half way cannot be repeated, for its branch exists; a commit goes
to whatever branch is checked out and takes everything staged (m, `entangled`); a page
added while its document is deleted reappears in the next of the same id (m, `strays`);
references and sources outlive the document; an edit of a deleted agent brings it back
(m); bundled records that were deleted come back at boot although `agent/seed.rs:4-7` says
they are not clobbered (m); a template's attachments outlive it.

Views: git's `-z` output names a renamed file's new path first, `repo.rs:218-222` keys it by the
old, so that a staged rename is untagged (m); untracked files are tagged but missing from
the view of the diff.

## 7. Plan

Every safety property a run checks is proved. What is left, in this order:

1. Abstract specifications of the other services, as `Plan` is one of the scheduler, 
   and `RunLog` one of the tail, with the refinement checked and then proved: the registry
   as a set of installed extensions, the graph as one relation.
2. `ImplementsPlan` under less than `OrderedRoutes`, as `EachTaskWaitsItsTurn` has it for
   the order: `Plan` would need a step that takes a landing back.
3. `WhoWorksAloneLands` per task, for a task that was alone in the checkout while
   others were not.

## 8. Running it

    tlasany Scheduler.tla
    tlc -workers 2 -config Operated.cfg MCScheduler
    tlapm SchedulerTypes.tla

The runs take between half a minute and four minutes each. Definitions whose
comment begins with "Mutant" are not part of the model: each is a plausible bug in
the definition that follows it, and replacing that definition by it makes TLC
report the property the mutant is listed with.
