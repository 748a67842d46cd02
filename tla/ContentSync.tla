---------------------------- MODULE ContentSync ----------------------------
(***************************************************************************)
(* Content sync: two machines and a git repository in the cloud between    *)
(* them. A push exports the store into the files of the checkout, commits  *)
(* and pushes; a pull fast-forwards the checkout and imports its files.    *)
(* Pull and push are jobs that anyone may start, on a timer, at boot or by *)
(* request; nothing keeps two jobs out of one checkout.                    *)
(*                                                                         *)
(* One operator works at one machine at a time, pushes before leaving and  *)
(* pulls on arrival: the use the code is written for. A record is its      *)
(* version, the number of the edit that made it, and its lifecycle.        *)
(***************************************************************************)
EXTENDS Naturals, FiniteSets, Sequences, SequencesExt

CONSTANTS
    Machines,
    Home,           \* the machine the operator starts at
    Docs,           \* records imported over what is there: documents, skills, templates
    SyncTasks,      \* records whose lifecycle an import keeps
    SyncRuns,       \* records an import only creates
    MaxVersion,     \* bound on the edits of a record; a workflow is made only
    MaxCommits,     \* bound on the commits of a checkout
    Regimes         \* what is tried together; a bound: the records the operator
                    \* edits, how many jobs run at once over all machines, and how
                    \* many failed calls, cut imports, deaths and moves of a
                    \* lifecycle there are

ASSUME HomeAssumption == Home \in Machines /\ "nobody" \notin Machines
\* A record is of one kind.
ASSUME KindsAssumption == SyncRuns \cap (Docs \cup SyncTasks) = {} /\ Docs \cap SyncTasks = {}
ASSUME SyncBoundsAssumption ==
    /\ MaxVersion \in Nat \ {0} /\ MaxCommits \in Nat
    /\ \A r \in Regimes : /\ {r.jobs, r.upsets} \subseteq Nat
                          /\ r.records \subseteq Docs \cup SyncTasks \cup SyncRuns

VARIABLES
    regime,         \* one of Regimes; never changes
    rows,           \* per machine, its store
    files,          \* per machine, the files of its checkout
    head,           \* per machine, the commits of its checkout, or NoCheckout
    cloud,          \* the commits of the remote's branch
    pulls, pushes,  \* per machine, the job of each kind that is running
    operator,       \* where the operator is, and whether pulled and pushed
    owned,          \* per machine and workflow, the lifecycle it gave it itself
    lags,           \* machines whose store has not taken in what was pulled
    spoiled,        \* what has spoiled the sync: see SpoiledBy
    syncUpsets

syncVars == <<regime, rows, files, head, cloud, pulls, pushes, operator, owned, lags, spoiled,
              syncUpsets>>

Records == Docs \cup SyncTasks \cup SyncRuns
Record == [version : 0..MaxVersion, active : BOOLEAN]
Absent == [version |-> 0, active |-> FALSE]
Nothing == [r \in Records |-> Absent]
Commits == [by : Machines, files : [Records -> Record]]
NoCheckout == <<[by |-> "nobody", files |-> Nothing]>>

\* The passes of an export and of an import over the kinds, in order.
Passes == <<Docs, SyncTasks, SyncRuns>>
NoJob == [at |-> "idle", pass |-> 1, read |-> Nothing, todo |-> {}, since |-> FALSE]

SyncUpset == syncUpsets < regime.upsets /\ syncUpsets' = syncUpsets + 1
Running == {m \in Machines : pulls[m].at # "idle"} \X {"pull"}
           \cup {m \in Machines : pushes[m].at # "idle"} \X {"push"}
CheckedOut(m) == head[m] # NoCheckout
Unpushed(m) == CheckedOut(m) /\ ~IsPrefix(head[m], cloud)
FilesAt(log) == IF log = <<>> THEN Nothing ELSE Last(log).files

\* "unsaved": an import went over edits that no push had taken.
\* "stale": an export wrote a store over files newer than it.
\* "unsent": a push of the operator's edits was a success though the remote
\* has not got them.
SpoiledBy(reason) == spoiled' = spoiled \cup {reason}
Working(m) == operator.at = m
HasUnsaved(m) == Working(m) /\ operator.pulled /\ ~operator.saved

(***************************************************************************)
(* A checkout there is is used, with the remote set anew. Else it is       *)
(* cloned; when that fails, or the branch is not there yet, an empty one   *)
(* is made.                                                                *)
(***************************************************************************)
UsesCheckout(m) == CheckedOut(m) /\ UNCHANGED <<head, files, syncUpsets>>

Clones(m) ==
    /\ ~CheckedOut(m) /\ cloud # <<>>
    /\ head' = [head EXCEPT ![m] = cloud]
    /\ files' = [files EXCEPT ![m] = FilesAt(cloud)]
    /\ UNCHANGED syncUpsets

InitsEmpty(m) ==
    /\ ~CheckedOut(m)
    /\ IF cloud = <<>> THEN UNCHANGED syncUpsets ELSE SyncUpset
    /\ head' = [head EXCEPT ![m] = <<>>]
    /\ UNCHANGED files

ChecksOut(m) == UsesCheckout(m) \/ Clones(m) \/ InitsEmpty(m)

\* A clone brings files that the store has not got.
LagsAfter(m) == IF head'[m] # head[m] /\ head'[m] # <<>> THEN lags \cup {m} ELSE lags

(***************************************************************************)
(* The pull job.                                                           *)
(***************************************************************************)
PullGoes(m, p) == pulls' = [pulls EXCEPT ![m].at = p]
PullFails(m) == pulls' = [pulls EXCEPT ![m] = NoJob]

PullStarts(m) ==
    /\ pulls[m].at = "idle"
    /\ pulls' = [pulls EXCEPT ![m] = [NoJob EXCEPT !.at = "open", !.since = Working(m)]]
    /\ UNCHANGED <<rows, files, head, cloud, pushes, operator, owned, lags, spoiled, syncUpsets>>

PullOpens(m) ==
    /\ pulls[m].at = "open"
    /\ ChecksOut(m)
    /\ lags' = LagsAfter(m)
    /\ PullGoes(m, "pull")
    /\ UNCHANGED <<rows, cloud, pushes, operator, owned, spoiled>>

\* git pull --ff-only: what has diverged is an error, and so is a fast-forward
\* over files that were exported and not committed.
PullForwards(m) ==
    /\ pulls[m].at = "pull"
    /\ LET news == cloud # <<>> /\ ~IsPrefix(cloud, head[m])
           possible == IsPrefix(head[m], cloud) /\ files[m] = FilesAt(head[m])
       IN  \/ /\ news /\ possible
              /\ head' = [head EXCEPT ![m] = cloud]
              /\ files' = [files EXCEPT ![m] = FilesAt(cloud)]
              /\ lags' = lags \cup {m}
              /\ PullGoes(m, "read")
              /\ UNCHANGED syncUpsets
           \/ /\ ~news /\ cloud # <<>>
              /\ PullGoes(m, "read")
              /\ UNCHANGED <<head, files, lags, syncUpsets>>
           \/ /\ cloud = <<>> \/ (news /\ ~possible)
              /\ PullFails(m)
              /\ UNCHANGED <<head, files, lags, syncUpsets>>
           \/ SyncUpset /\ PullFails(m) /\ UNCHANGED <<head, files, lags>>
    /\ UNCHANGED <<rows, cloud, pushes, operator, owned, spoiled>>

\* All files of a kind are read before the first of its records is written.
PullReads(m) ==
    /\ pulls[m].at = "read"
    /\ pulls[m].pass <= Len(Passes)
    /\ LET found == {r \in Passes[pulls[m].pass] : files[m][r] # Absent} IN
         pulls' = IF found = {} THEN [pulls EXCEPT ![m].pass = @ + 1]
                  ELSE [pulls EXCEPT ![m].at = "write", ![m].todo = found,
                                     ![m].read = [r \in Records |->
                                         IF r \in found THEN files[m][r] ELSE Absent]]
    /\ IF HasUnsaved(m) THEN SpoiledBy("unsaved") ELSE UNCHANGED spoiled
    /\ UNCHANGED <<rows, files, head, cloud, pushes, operator, owned, lags, syncUpsets>>

\* A mutant: a record that is there is left alone, whatever its kind.
ImportsNewOnly(row, file) == IF row = Absent THEN file ELSE row

\* The file wins.
ImportsContent(row, file) == file

\* The file wins, the lifecycle stays.
ImportsTask(row, file) ==
    IF row = Absent THEN file ELSE [file EXCEPT !.active = row.active]

\* A mutant: a workflow is imported as a document is.
ImportsRunAnew(row, file) == file

ImportsRun(row, file) == IF row = Absent THEN file ELSE row

Imported(r, row, file) ==
    IF r \in Docs THEN ImportsContent(row, file)
    ELSE IF r \in SyncTasks THEN ImportsTask(row, file)
    ELSE ImportsRun(row, file)

\* A malformed file or a failing store ends the import where it is.
PullWrites(m, r) ==
    /\ pulls[m].at = "write" /\ r \in pulls[m].todo
    /\ \/ /\ rows' = [rows EXCEPT ![m][r] = Imported(r, @, pulls[m].read[r])]
          /\ pulls' = IF pulls[m].todo # {r} THEN [pulls EXCEPT ![m].todo = @ \ {r}]
                      ELSE [pulls EXCEPT ![m] = [NoJob EXCEPT !.at = "read",
                                !.pass = pulls[m].pass + 1, !.since = pulls[m].since]]
          /\ owned' = IF rows[m][r] = Absent
                      THEN [owned EXCEPT ![m][r] = pulls[m].read[r].active] ELSE owned
          /\ UNCHANGED syncUpsets
       \/ SyncUpset /\ PullFails(m) /\ UNCHANGED <<rows, owned>>
    /\ IF HasUnsaved(m) THEN SpoiledBy("unsaved") ELSE UNCHANGED spoiled
    /\ UNCHANGED <<files, head, cloud, pushes, operator, lags>>

PullEnds(m) ==
    /\ pulls[m].at = "read" /\ pulls[m].pass > Len(Passes)
    /\ pulls' = [pulls EXCEPT ![m] = NoJob]
    /\ lags' = lags \ {m}
    /\ operator' = IF Working(m) /\ pulls[m].since
                   THEN [operator EXCEPT !.pulled = TRUE] ELSE operator
    /\ UNCHANGED <<rows, files, head, cloud, pushes, owned, spoiled, syncUpsets>>

(***************************************************************************)
(* The push job.                                                           *)
(***************************************************************************)
PushGoes(m, p) == pushes' = [pushes EXCEPT ![m].at = p]
SyncPushFails(m) == pushes' = [pushes EXCEPT ![m] = NoJob]

\* What the operator hears. A push counts when it was begun after the edits.
PushReports(m) ==
    /\ pushes' = [pushes EXCEPT ![m] = NoJob]
    /\ operator' = IF Working(m) /\ pushes[m].since
                   THEN [operator EXCEPT !.saved = TRUE] ELSE operator

PushStarts(m) ==
    /\ pushes[m].at = "idle"
    /\ pushes' = [pushes EXCEPT ![m] = [NoJob EXCEPT !.at = "open", !.since = TRUE]]
    /\ UNCHANGED <<rows, files, head, cloud, pulls, operator, owned, lags, spoiled, syncUpsets>>

PushOpens(m) ==
    /\ pushes[m].at = "open"
    /\ ChecksOut(m)
    /\ lags' = LagsAfter(m)
    /\ PushGoes(m, "export")
    /\ UNCHANGED <<rows, cloud, pulls, operator, owned, spoiled>>

\* One kind: listed and written. A file whose record is gone stays.
PushExports(m) ==
    /\ pushes[m].at = "export"
    /\ files' = [files EXCEPT ![m] = [r \in Records |->
           IF r \in Passes[pushes[m].pass] /\ rows[m][r] # Absent
           THEN rows[m][r] ELSE @[r]]]
    /\ pushes' = IF pushes[m].pass = Len(Passes)
                 THEN [pushes EXCEPT ![m].at = "commit"]
                 ELSE [pushes EXCEPT ![m].pass = @ + 1]
    /\ IF m \in lags THEN SpoiledBy("stale") ELSE UNCHANGED spoiled
    /\ UNCHANGED <<rows, head, cloud, pulls, operator, owned, lags, syncUpsets>>

\* Nothing staged: a success without a push, whether the remote has the last
\* commit or not.
PushCommits(m) ==
    /\ pushes[m].at = "commit"
    /\ IF files[m] = FilesAt(head[m])
       THEN /\ PushReports(m) /\ UNCHANGED head
            /\ IF HasUnsaved(m) /\ pushes[m].since /\ Unpushed(m)
               THEN SpoiledBy("unsent") ELSE UNCHANGED spoiled
       ELSE /\ Len(head[m]) < MaxCommits
            /\ head' = [head EXCEPT ![m] = Append(@, [by |-> m, files |-> files[m]])]
            /\ PushGoes(m, "push")
            /\ UNCHANGED <<operator, spoiled>>
    /\ UNCHANGED <<rows, files, cloud, pulls, owned, lags, syncUpsets>>

\* A mutant: push --force.
AcceptsAny(log) == TRUE

\* The remote takes fast-forwards only.
Accepts(log) == IsPrefix(cloud, log)

PushSends(m) ==
    /\ pushes[m].at = "push"
    /\ \/ /\ Accepts(head[m])
          /\ cloud' = head[m]
          /\ PushReports(m)
          /\ UNCHANGED syncUpsets
       \/ /\ IF Accepts(head[m]) THEN SyncUpset ELSE UNCHANGED syncUpsets
          /\ SyncPushFails(m)
          /\ UNCHANGED <<cloud, operator>>
    /\ UNCHANGED <<rows, files, head, pulls, owned, lags, spoiled>>

(***************************************************************************)
(* The registered jobs, and who starts them: the routes of the sync, the   *)
(* route that runs any job by its name, the timer, and the boot.           *)
(***************************************************************************)
RunNow(m, name) ==
    /\ Cardinality(Running) < regime.jobs
    /\ (name = "pull" /\ PullStarts(m)) \/ (name = "push" /\ PushStarts(m))

\* An operator asks for a pull at arrival, not over edits of the day.
PostPull(m) == ~HasUnsaved(m) /\ RunNow(m, "pull")
PostPush(m) == RunNow(m, "push")
AutoPush(m) == RunNow(m, "push")

\* A daemon dies and boots: its jobs are gone, and it pulls at once if the
\* operator wants it to.
Boots(m, pullsNow) ==
    /\ SyncUpset
    /\ pulls' = [pulls EXCEPT ![m] = IF pullsNow
           THEN [NoJob EXCEPT !.at = "open", !.since = Working(m)] ELSE NoJob]
    /\ pushes' = [pushes EXCEPT ![m] = NoJob]
    /\ UNCHANGED <<rows, files, head, cloud, operator, owned, lags, spoiled>>

(***************************************************************************)
(* The operator and the local scheduler.                                   *)
(***************************************************************************)
Edits(m, r) ==
    /\ Working(m) /\ operator.pulled /\ pulls[m].at = "idle"
    /\ rows[m][r].version < IF r \in SyncRuns THEN 1 ELSE MaxVersion
    /\ rows' = [rows EXCEPT ![m][r].version = @ + 1]
    /\ operator' = [operator EXCEPT !.saved = FALSE]
    /\ pushes' = [pushes EXCEPT ![m].since = FALSE]
    /\ UNCHANGED <<files, head, cloud, pulls, owned, lags, spoiled, syncUpsets>>

Leaves(m, n) ==
    /\ Working(m) /\ m # n
    /\ operator.pulled /\ operator.saved
    /\ operator' = [at |-> n, pulled |-> FALSE, saved |-> TRUE]
    /\ pulls' = [pulls EXCEPT ![m].since = FALSE]
    /\ UNCHANGED <<rows, files, head, cloud, pushes, owned, lags, spoiled, syncUpsets>>

\* The machine stops or resumes a workflow of its own.
LifecycleMoves(m, r) ==
    /\ SyncUpset
    /\ rows[m][r] # Absent
    /\ rows' = [rows EXCEPT ![m][r].active = ~@]
    /\ owned' = [owned EXCEPT ![m][r] = ~rows[m][r].active]
    /\ UNCHANGED <<files, head, cloud, pulls, pushes, operator, lags, spoiled>>

SyncInit ==
    /\ regime \in Regimes
    /\ rows = [m \in Machines |-> Nothing]
    /\ files = [m \in Machines |-> Nothing]
    /\ head = [m \in Machines |-> NoCheckout]
    /\ cloud = <<>>
    /\ pulls = [m \in Machines |-> NoJob]
    /\ pushes = [m \in Machines |-> NoJob]
    /\ operator = [at |-> Home, pulled |-> TRUE, saved |-> TRUE]
    /\ owned = [m \in Machines |-> [r \in Records |-> FALSE]]
    /\ lags = {} /\ spoiled = {} /\ syncUpsets = 0

SyncJobs(m) ==
    \/ PullOpens(m) \/ PullForwards(m) \/ PullReads(m) \/ PullEnds(m)
    \/ \E r \in Records : PullWrites(m, r)
    \/ PushOpens(m) \/ PushExports(m) \/ PushCommits(m) \/ PushSends(m)

SyncNext ==
    /\ UNCHANGED regime
    /\ \E m \in Machines :
          \/ PostPull(m) \/ PostPush(m) \/ AutoPush(m)
          \/ \E b \in BOOLEAN : Boots(m, b)
          \/ SyncJobs(m)
          \/ \E r \in regime.records : Edits(m, r)
          \/ \E r \in SyncRuns : LifecycleMoves(m, r)
          \/ \E n \in Machines : Leaves(m, n)

SyncSpec == SyncInit /\ [][SyncNext]_syncVars

-----------------------------------------------------------------------------

JobStates == {"idle", "open", "pull", "read", "write", "export", "commit", "push"}

SyncTypeOK ==
    /\ regime \in Regimes
    /\ rows \in [Machines -> [Records -> Record]]
    /\ files \in [Machines -> [Records -> Record]]
    /\ \A m \in Machines :
          /\ CheckedOut(m) => head[m] \in Seq(Commits) /\ Len(head[m]) <= MaxCommits
          /\ pulls[m].at \in JobStates /\ pushes[m].at \in JobStates
          /\ pulls[m].todo \subseteq Records
    /\ cloud \in Seq(Commits)
    /\ owned \in [Machines -> [Records -> BOOLEAN]]
    /\ lags \subseteq Machines /\ spoiled \subseteq {"unsaved", "stale", "unsent"}
    /\ syncUpsets \in 0..regime.upsets

\* The remote's newest commit never holds an older version of a document or
\* task than one before it: pushes of two machines, whether by the operator or
\* the timer, add to each other's work, as long as no push exported a store
\* that had not taken in the files its checkout pulled, and no import went
\* over edits that were not pushed. (commit_and_push, pull --ff-only)
CloudOnlyAdvances ==
    [][spoiled' = {} => \A r \in Docs \cup SyncTasks :
           FilesAt(cloud')[r].version >= FilesAt(cloud)[r].version]_syncVars

\* Whoever arrives and has pulled works on the newest version of everything,
\* made at whichever machine, as long as nothing has spoiled the sync: the
\* timer's pushes, overlapping jobs, restarts and failed calls at either
\* machine lose no edit. (pull, push, import_all, export_all)
ArrivesUpToDate ==
    operator.pulled /\ spoiled = {} =>
        \A r \in Docs \cup SyncTasks, m \in Machines :
            rows[m][r].version <= rows[operator.at][r].version

\* No import touches the lifecycle of a workflow: it is what this machine made
\* it last, though pulls of another machine's snapshot interleave with its own
\* stops and resumes. (import_all: the local edge owns workflow lifecycle.)
LifecycleIsLocal ==
    \A m \in Machines, r \in SyncRuns :
        rows[m][r] # Absent => rows[m][r].active = owned[m][r]
=============================================================================
