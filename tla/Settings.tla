------------------------------ MODULE Settings ------------------------------
(***************************************************************************)
(* What settings a task works under: the daemon's configuration, parsed    *)
(* once at boot, the workspace row of the workflow and the task's own      *)
(* fields, resolved most-specific-first when a task is claimed, handed to  *)
(* its drive loop by value, and resolved anew when a restarted daemon      *)
(* takes the task up again. Meanwhile operators edit all three.            *)
(*                                                                         *)
(* A tree is where a task works: its repository and the key that names it. *)
(***************************************************************************)
EXTENDS Naturals

CONSTANTS
    Jobs, FlowJobs,     \* the tasks; those of the workflow
    Flow,               \* the workflow's key
    ReuseFrom,          \* per task, the task it reuses the tree of, or NoTask
    NoTask, NoTree, Unset, Unchanged, Garbled,
    Repos, RepoState,   \* repositories, and what is found at each
    Surroundings,       \* the files and environments a daemon may start in
    Spaces,             \* the workspaces an operator may ask for
    JobEdits,           \* the fields a task edit may ask for
    Benches             \* what may happen in a behaviour: the tasks at work, and
                        \* how many edits, restarts and claims there are; a bound

ASSUME SettingsConstants ==
    /\ FlowJobs \subseteq Jobs /\ NoTask \notin Jobs
    /\ \A w \in Spaces : /\ "repo" \in DOMAIN w /\ w = [key \in DOMAIN w |-> w[key]]
                         /\ w.repo \in Repos
    /\ Repos # {}
    /\ \A s \in Surroundings : {s.env.repo, s.file.repo} \subseteq Repos \cup {Unset}
    /\ \A b \in Benches : {b.edits, b.restarts} \subseteq Nat

VARIABLES
    bench,          \* one of Benches; never changes
    conf,           \* the running daemon's configuration
    space,          \* the workspace of the workflow's row
    job,            \* the task rows
    standing,       \* per tree that exists, the crates found in it
    edit,           \* an edit of the workspace between its read and its write
    tick,           \* the supervisor's pass over the ready tasks
    drive,          \* per task, the drive loop's copies of row and settings
    claude,         \* the folders Claude's configuration trusts, and its state
    edits, restarts, claims

setVars == <<bench, conf, space, job, standing, edit, tick, drive, claude, edits, restarts, claims>>

(***************************************************************************)
(* The configuration: the environment wins over the file, the file over    *)
(* the default. A number or a switch that does not parse is passed over; a *)
(* merge strategy that is not known is the default.                        *)
(***************************************************************************)
Or(value, default) == IF value = Unset THEN default ELSE value

EnvOr(s, key, default) == Or(s.env[key], Or(s.file[key], default))
EnvSwitch(s, key, default) ==
    Or(IF s.env[key] = Garbled THEN Unset ELSE s.env[key], Or(s.file[key], default))

MergeNamed(name) == IF name \in {"merge", "pr"} THEN name ELSE "fast-forward"

Loaded(s) ==
    [repo |-> EnvOr(s, "repo", CHOOSE r \in Repos : TRUE),
     prefix |-> EnvOr(s, "prefix", "lazy"),
     tool |-> EnvOr(s, "tool", "claude"),
     gate |-> EnvOr(s, "gate", "workspace"),
     merge |-> MergeNamed(EnvOr(s, "merge", "fast-forward")),
     worktrees |-> EnvSwitch(s, "worktrees", TRUE),
     trust |-> EnvSwitch(s, "trust", TRUE)]

(***************************************************************************)
(* The settings of one task. A Shared task lands as a pull request,        *)
(* whatever the workspace says.                                            *)
(***************************************************************************)
MergeFor(mode, resolved) == IF mode = "shared" THEN "pr" ELSE resolved

Standalone(row) ==
    [repo |-> conf.repo, prefix |-> conf.prefix, mode |-> row.mode, name |-> Unset,
     tool |-> Or(row.tool, conf.tool), gate |-> conf.gate, merge |-> conf.merge,
     trust |-> Or(row.trust, conf.trust)]

InFlow(row, ws) ==
    LET mode == Or(row.override, ws.mode)
    IN  [repo |-> ws.repo, prefix |-> Or(ws.prefix, conf.prefix), mode |-> mode,
         name |-> ws.name, tool |-> Or(row.tool, Or(ws.tool, conf.tool)),
         gate |-> Or(ws.gate, conf.gate),
         merge |-> MergeFor(mode, Or(ws.merge, conf.merge)),
         trust |-> Or(row.trust, conf.trust)]

Resolve(j, row, ws) == IF j \in FlowJobs THEN InFlow(row, ws) ELSE Standalone(row)

(***************************************************************************)
(* Edits. The workspace is replaced as a whole, but for the repository.    *)
(***************************************************************************)
NoEdit == [body |-> NoTask, row |-> NoTask]

Edited == edits < bench.edits /\ edits' = edits + 1

\* A mutant: the body as it came.
MovesRepo(row, body) == body

KeepsRepo(row, body) == [body EXCEPT !.repo = row.repo]

EditReads(body) ==
    /\ edit = NoEdit /\ Edited
    /\ edit' = [body |-> body, row |-> space]
    /\ UNCHANGED <<bench, conf, space, job, standing, tick, drive, claude, restarts, claims>>

EditWrites ==
    /\ edit # NoEdit
    /\ space' = KeepsRepo(edit.row, edit.body)
    /\ edit' = NoEdit
    /\ UNCHANGED <<bench, conf, job, standing, tick, drive, claude, edits, restarts, claims>>

EditsJob(j, e) ==
    /\ Edited
    /\ job' = [job EXCEPT ![j].tool = e.tool, ![j].mode = e.mode,
                          ![j].trust = IF e.trust = Unchanged THEN @ ELSE e.trust]
    /\ UNCHANGED <<bench, conf, space, standing, edit, tick, drive, claude, restarts, claims>>

(***************************************************************************)
(* Where a task works.                                                     *)
(***************************************************************************)
MainTree(repo) == [repo |-> repo, key |-> "main"]
Tree(repo, key) == [repo |-> repo, key |-> key]

ModeIn(j, eff) ==
    IF ~conf.worktrees THEN "branch"
    ELSE IF eff.mode = "shared" /\ j \notin FlowJobs THEN "new" ELSE eff.mode

KeyOf(j, eff) == Or(eff.name, IF ModeIn(j, eff) = "shared" THEN Flow ELSE j)

OwnBranch(j, row, eff) == Or(row.branch, [prefix |-> eff.prefix, key |-> j])

\* The tree of the task named to reuse it from, as its row has it now, or else
\* the task's own; NoTree when it is not known.
ReusedTree(j, row) == IF ReuseFrom[j] # NoTask THEN job[ReuseFrom[j]].tree ELSE row.tree

\* The tree and the branch to work in.
Place(j, row, eff) ==
    IF ModeIn(j, eff) = "reuse"
    THEN [tree |-> ReusedTree(j, row),
          branch |-> OwnBranch(j, row, eff)]
    ELSE IF ModeIn(j, eff) = "branch"
    THEN [tree |-> MainTree(eff.repo), branch |-> OwnBranch(j, row, eff)]
    ELSE [tree |-> Tree(eff.repo, KeyOf(j, eff)),
          branch |-> [prefix |-> eff.prefix, key |-> KeyOf(j, eff)]]

Exists(tree) == tree \in DOMAIN standing

\* A tree that is made anew holds what its repository holds.
WithTree(tree) ==
    [t \in DOMAIN standing \cup {tree} |-> IF Exists(t) THEN standing[t] ELSE standing[MainTree(t.repo)]]

\* Only Claude asks whether to trust the folder it is started in.
Bootstraps(eff) == eff.tool = "claude" /\ eff.trust

\* Claude's configuration: a folder is added to what can be read of it, and a
\* file that had garbage after it is written back clean. One that cannot be
\* read at all is left alone.
SeedsTrust(eff, tree) ==
    IF Bootstraps(eff) /\ claude.state # "lost"
    THEN [trusted |-> claude.trusted \cup {tree}, state |-> "clean"]
    ELSE claude

(***************************************************************************)
(* The pass of the supervisor. It holds the listed rows, and the run as it *)
(* was at the first task of it, until it ends.                             *)
(***************************************************************************)
NoPass == [at |-> "idle", todo |-> {}, rows |-> NoTask, space |-> NoTask, job |-> NoTask,
           eff |-> NoTask, place |-> NoTask]

\* What keeps a workflow from starting over HTTP: its repository is not there,
\* is no work tree, or does not ignore the daemon's own directory. The tools'
\* start does not look.
Problems(repo) == IF RepoState[repo] = "sound" THEN {} ELSE {RepoState[repo]}

StartsFlow ==
    /\ \E j \in FlowJobs : job[j].status = "pending"
    /\ Problems(space.repo) = {}
    /\ job' = [j \in Jobs |-> IF j \in FlowJobs /\ job[j].status = "pending"
                             THEN [job[j] EXCEPT !.status = "ready"] ELSE job[j]]
    /\ UNCHANGED <<bench, conf, space, standing, edit, tick, drive, claude, edits, restarts, claims>>

Ready == {j \in Jobs : job[j].status = "ready"}

TickListsReady ==
    /\ tick = NoPass /\ Ready # {}
    /\ claims < bench.claims
    /\ tick' = [NoPass EXCEPT !.at = "next", !.todo = Ready, !.rows = job]
    /\ UNCHANGED <<bench, conf, space, job, standing, edit, drive, claude, edits, restarts, claims>>

TickResolves(j) ==
    /\ tick.at = "next" /\ j \in tick.todo
    /\ LET run == IF j \in FlowJobs /\ tick.space = NoTask THEN space ELSE tick.space
       IN  tick' = [tick EXCEPT !.at = "provision", !.job = j, !.todo = @ \ {j}, !.space = run,
                                !.eff = Resolve(j, tick.rows[j], run)]
    /\ UNCHANGED <<bench, conf, space, job, standing, edit, drive, claude, edits, restarts, claims>>

\* block() writes to the row as it is now; the pass goes on.
TickGivesUp ==
    LET j == tick.job
    IN  /\ tick.at \in {"provision", "claim"}
        /\ job' = [job EXCEPT ![j].status =
                      IF @ \in {"ready", "running", "gating"} THEN "blocked" ELSE @]
        /\ tick' = [tick EXCEPT !.at = "next"]
        /\ UNCHANGED <<bench, conf, space, standing, edit, drive, claude, edits, restarts, claims>>

TickProvisions ==
    LET place == Place(tick.job, tick.rows[tick.job], tick.eff)
    IN  /\ tick.at = "provision"
        /\ place.tree # NoTree
        /\ ModeIn(tick.job, tick.eff) = "reuse" => Exists(place.tree)
        /\ standing' = WithTree(place.tree)
        /\ claude' = SeedsTrust(tick.eff, place.tree)
        /\ tick' = [tick EXCEPT !.at = "claim", !.place = place]
        /\ UNCHANGED <<bench, conf, space, job, edit, drive, edits, restarts, claims>>

NoDrive == [on |-> FALSE, eff |-> NoTask, tree |-> NoTree, branch |-> Unset, cut |-> NoTask,
            fresh |-> FALSE]

\* The agent is spawned, the row claimed and a loop started, unless one for
\* an earlier claim is still there.
TickClaimsFor(j) ==
    /\ tick.at = "claim" /\ j = tick.job
    /\ job[j].status = "ready"
    /\ job' = [job EXCEPT ![j].status = "running", ![j].tree = tick.place.tree,
                          ![j].branch = tick.place.branch, ![j].cut = tick.eff]
    /\ drive' = [drive EXCEPT ![j] =
                    IF @.on THEN [@ EXCEPT !.fresh = FALSE]
                    ELSE [on |-> TRUE, eff |-> tick.eff, tree |-> tick.place.tree,
                          branch |-> tick.place.branch, cut |-> tick.eff, fresh |-> TRUE]]
    /\ claims' = claims + 1
    /\ tick' = [tick EXCEPT !.at = "next"]
    /\ UNCHANGED <<bench, conf, space, standing, edit, claude, edits, restarts>>

TickClaimRefused ==
    /\ tick.at = "claim" /\ job[tick.job].status # "ready"
    /\ tick' = [tick EXCEPT !.at = "next"]
    /\ UNCHANGED <<bench, conf, space, job, standing, edit, drive, claude, edits, restarts, claims>>

TickEnds ==
    /\ tick.at = "next"
    /\ tick' = NoPass
    /\ UNCHANGED <<bench, conf, space, job, standing, edit, drive, claude, edits, restarts, claims>>

\* A task whose agent is gone goes back to ready; its loop lives on.
Reclaims(j) ==
    /\ tick = NoPass /\ job[j].status \in {"running", "gating"}
    /\ job' = [job EXCEPT ![j].status = "ready"]
    /\ UNCHANGED <<bench, conf, space, standing, edit, tick, drive, claude, edits, restarts, claims>>

(***************************************************************************)
(* The daemon dies and starts again, perhaps elsewhere configured, and     *)
(* takes up what was in flight by the rows as they are now.                *)
(***************************************************************************)
Restarts(s) ==
    /\ restarts < bench.restarts /\ restarts' = restarts + 1
    /\ conf' = Loaded(s)
    /\ tick' = NoPass /\ edit' = NoEdit
    /\ drive' = [j \in Jobs |-> NoDrive]
    /\ UNCHANGED <<bench, space, job, standing, claude, edits, claims>>

Reattaches(j) ==
    /\ tick = NoPass
    /\ job[j].status \in {"running", "gating"} /\ ~drive[j].on
    /\ drive' = [drive EXCEPT ![j] =
                    [on |-> TRUE, eff |-> Resolve(j, job[j], space), tree |-> job[j].tree,
                     branch |-> job[j].branch, cut |-> job[j].cut, fresh |-> FALSE]]
    /\ UNCHANGED <<bench, conf, space, job, standing, edit, tick, claude, edits, restarts, claims>>

(***************************************************************************)
(* The loop of a task. It never reads the row again: repository, branch,   *)
(* tree, gate and strategy are the copies it was given.                    *)
(***************************************************************************)

\* The gate's workspace commands are kept where the tree has a workspace, run
\* crate by crate where it only has crates, and cannot be run where it has
\* neither.
Preflight(gate, found) ==
    IF gate # "workspace" \/ found = "workspace" THEN "as given"
    ELSE IF found = "members" THEN "per crate" ELSE "unfixable"

AgentMakesCrates(j, found) ==
    /\ job[j].status = "running" /\ Exists(job[j].tree)
    /\ standing' = [standing EXCEPT ![job[j].tree] = found]
    /\ UNCHANGED <<bench, conf, space, job, edit, tick, drive, claude, edits, restarts, claims>>

\* Two of Claude's starts rewrite its configuration at once.
ClaudesCollide(left) ==
    /\ \E i, j \in Jobs : i # j /\ job[i].status = "running" /\ job[j].status = "running"
    /\ claude' = [claude EXCEPT !.state = left]
    /\ UNCHANGED <<bench, conf, space, job, standing, edit, tick, drive, edits, restarts, claims>>

DriveGates(j) ==
    /\ drive[j].on /\ job[j].status = "running"
    /\ job' = [job EXCEPT ![j].status = "gating"]
    /\ UNCHANGED <<bench, conf, space, standing, edit, tick, drive, claude, edits, restarts, claims>>

\* A landed task's own or reused tree is removed; a shared one stays, and so
\* does the main checkout.
TornDown(j) ==
    IF conf.worktrees /\ drive[j].eff.mode \in {"new", "reuse"} /\ drive[j].tree.key # "main"
    THEN {drive[j].tree} ELSE {}

DriveLands(j) ==
    /\ drive[j].on /\ job[j].status = "gating" /\ Exists(drive[j].tree)
    /\ Preflight(drive[j].eff.gate, standing[drive[j].tree]) # "unfixable"
    /\ job' = [job EXCEPT ![j].status = "done"]
    /\ standing' = [t \in DOMAIN standing \ TornDown(j) |-> standing[t]]
    /\ drive' = [drive EXCEPT ![j] = NoDrive]
    /\ UNCHANGED <<bench, conf, space, edit, tick, claude, edits, restarts, claims>>

DriveBlocks(j) ==
    /\ drive[j].on /\ job[j].status \in {"running", "gating"}
    /\ job' = [job EXCEPT ![j].status = "blocked"]
    /\ drive' = [drive EXCEPT ![j] = NoDrive]
    /\ UNCHANGED <<bench, conf, space, standing, edit, tick, claude, edits, restarts, claims>>

\* A loop whose transition is refused ends.
DriveEnds(j) ==
    /\ drive[j].on /\ job[j].status \notin {"running", "gating"}
    /\ drive' = [drive EXCEPT ![j] = NoDrive]
    /\ UNCHANGED <<bench, conf, space, job, standing, edit, tick, claude, edits, restarts, claims>>

Retries(j) ==
    /\ job[j].status = "blocked"
    /\ job' = [job EXCEPT ![j].status = "ready"]
    /\ UNCHANGED <<bench, conf, space, standing, edit, tick, drive, claude, edits, restarts, claims>>

-----------------------------------------------------------------------------

NewJob(j) ==
    [status |-> IF j \notin bench.jobs THEN "done" ELSE IF j \in FlowJobs THEN "pending"
                ELSE "ready", tool |-> Unset,
     mode |-> "new", override |-> IF ReuseFrom[j] = NoTask THEN Unset ELSE "reuse",
     trust |-> Unset, tree |-> NoTree, branch |-> Unset, cut |-> NoTask]

SetInit ==
    /\ bench \in Benches
    /\ \E s \in Surroundings : conf = Loaded(s)
    /\ space \in Spaces
    /\ job = [j \in Jobs |-> NewJob(j)]
    /\ standing = [t \in {MainTree(r) : r \in Repos} |-> "bare"]
    /\ edit = NoEdit
    /\ tick = NoPass
    /\ drive = [j \in Jobs |-> NoDrive]
    /\ claude = [trusted |-> {}, state |-> "clean"]
    /\ edits = 0 /\ restarts = 0 /\ claims = 0

SetNext ==
    \/ \E body \in Spaces : EditReads(body)
    \/ EditWrites
    \/ StartsFlow
    \/ TickListsReady \/ TickGivesUp \/ TickProvisions \/ TickClaimRefused \/ TickEnds
    \/ \E s \in Surroundings : Restarts(s)
    \/ \E left \in {"trailing", "lost"} : ClaudesCollide(left)
    \/ \E j \in Jobs :
          \/ \E e \in JobEdits : EditsJob(j, e)
          \/ TickResolves(j) \/ TickClaimsFor(j) \/ Reclaims(j) \/ Reattaches(j)
          \/ \E found \in {"members", "workspace"} : AgentMakesCrates(j, found)
          \/ DriveGates(j) \/ DriveLands(j) \/ DriveBlocks(j) \/ DriveEnds(j) \/ Retries(j)

SetSpec == SetInit /\ [][SetNext]_setVars

-----------------------------------------------------------------------------

Modes == {"new", "reuse", "branch", "shared"}

SetTypeOK ==
    /\ \A j \in Jobs : /\ job[j].status \in {"pending", "ready", "running", "gating", "done", "blocked"}
                      /\ drive[j].on \in BOOLEAN /\ drive[j].fresh \in BOOLEAN
    /\ \A t \in DOMAIN standing : standing[t] \in {"bare", "members", "workspace"}
    /\ claude.state \in {"clean", "trailing", "lost"}
    /\ edits \in 0..bench.edits /\ restarts \in 0..bench.restarts

\* A loop lands where its task worked. Whatever was edited since, and over
\* every restart and every loop that outlives its claim, the repository a
\* workflow's loop merges in is the one its tree was made in, and a Shared
\* workflow is never merged into its base. As long as the loop is the one its
\* claim started, everything else it goes by is what its tree was provisioned
\* with, though workspace, task and configuration may have changed.
\* Code: scheduler/effective.rs, tick.rs (claim_and_spawn, reattach_orphans),
\* store run/update.rs.
LandsWhereItWorked ==
    \A j \in Jobs : drive[j].on =>
        /\ j \in FlowJobs /\ drive[j].cut.mode # "reuse" => drive[j].eff.repo = drive[j].tree.repo
        /\ j \in FlowJobs /\ drive[j].eff.mode = "shared" => drive[j].eff.merge = "pr"
        /\ drive[j].fresh => /\ drive[j].eff = job[j].cut
                             /\ drive[j].tree = job[j].tree /\ drive[j].branch = job[j].branch
=============================================================================
