-------------------------- MODULE SettingsLanding --------------------------
(***************************************************************************)
(* That a loop lands where its task worked, for every set of tasks,        *)
(* workspaces, surroundings and bounds. What carries it: the repository of *)
(* the workspace never changes, for an edit writes back the one it read;   *)
(* so whatever settings the supervisor or a restarted daemon resolves, now *)
(* or from a row it holds, name that one repository.                       *)
(***************************************************************************)
EXTENDS Settings, TLAPS

\* The fields of the records the steps update.
RowShape(r) ==
    r = [status |-> r.status, tool |-> r.tool, mode |-> r.mode, override |-> r.override,
         trust |-> r.trust, tree |-> r.tree, branch |-> r.branch, cut |-> r.cut]

PassShape(r) ==
    r = [at |-> r.at, todo |-> r.todo, rows |-> r.rows, space |-> r.space, job |-> r.job,
         eff |-> r.eff, place |-> r.place]

DriveShape(r) ==
    r = [on |-> r.on, eff |-> r.eff, tree |-> r.tree, branch |-> r.branch, cut |-> r.cut,
         fresh |-> r.fresh]

Shapes ==
    /\ job = [j \in Jobs |-> job[j]] /\ \A j \in Jobs : RowShape(job[j])
    /\ drive = [j \in Jobs |-> drive[j]] /\ \A j \in Jobs : DriveShape(drive[j])
    /\ PassShape(tick)
    /\ "repo" \in DOMAIN space /\ space = [key \in DOMAIN space |-> space[key]]
    /\ edit # NoEdit => edit.body \in Spaces

\* A workflow's settings, and a tree cut with them.
Named(eff) == eff.repo = space.repo /\ (eff.mode = "shared" => eff.merge = "pr")
CutThere(cut, tree) == cut.mode # "reuse" => tree.repo = space.repo

\* Who holds a copy of the workspace, or of settings, holds this repository.
Copies ==
    /\ edit # NoEdit => edit.row.repo = space.repo
    /\ tick.space # NoTask => tick.space.repo = space.repo
    /\ tick.at \in {"provision", "claim"} /\ tick.job \in FlowJobs => Named(tick.eff)
    /\ tick.at = "claim" /\ tick.job \in FlowJobs => CutThere(tick.eff, tick.place.tree)

Rows ==
    \A j \in FlowJobs : job[j].status \in {"running", "gating"} => CutThere(job[j].cut, job[j].tree)

Drives ==
    \A j \in Jobs : drive[j].on =>
        /\ j \in FlowJobs => Named(drive[j].eff) /\ CutThere(drive[j].cut, drive[j].tree)
        /\ drive[j].fresh => /\ drive[j].eff = job[j].cut
                             /\ drive[j].tree = job[j].tree /\ drive[j].branch = job[j].branch

Landings == Shapes /\ Copies /\ Rows /\ Drives

-----------------------------------------------------------------------------

\* What resolve returns for a task of the workflow names the workspace's
\* repository and keeps a Shared one from being merged.
LEMMA FlowSettings ==
  ASSUME NEW row, NEW ws PROVE
    /\ InFlow(row, ws).repo = ws.repo
    /\ InFlow(row, ws).mode = "shared" => InFlow(row, ws).merge = "pr"
BY DEF InFlow, MergeFor

\* A tree that provision makes or finds by its key is in the settings' repository.
LEMMA PlaceIsThere ==
  ASSUME NEW j, NEW row, NEW eff, eff.mode # "reuse"
  PROVE Place(j, row, eff).tree.repo = eff.repo
BY DEF Place, ModeIn, Tree, MainTree

\* Before the first claim nothing holds another repository.
LEMMA InitLandings == SetInit => Landings
<1> SUFFICES ASSUME SetInit PROVE Landings OBVIOUS
<1> USE DEF SetInit
<1>1. Shapes
  BY SettingsConstants DEF Shapes, RowShape, PassShape, DriveShape, NewJob, NoDrive, NoPass
<1>2. Copies
  BY DEF Copies, NoPass
<1>3. Rows
  BY SettingsConstants DEF Rows, NewJob
<1>4. Drives
  BY DEF Drives, NoDrive
<1> QED BY <1>1, <1>2, <1>3, <1>4 DEF Landings

\* The edit keeps the row it read, so the repository.
LEMMA EditReadsLands ==
  ASSUME Landings, NEW body \in Spaces, EditReads(body)
  PROVE  Landings'
<1> USE SettingsConstants DEF Landings, EditReads, NoEdit
<1>1. Shapes'
  BY DEF Shapes, RowShape, PassShape, DriveShape
<1>2. Copies'
  BY DEF Copies, Shapes, PassShape, Named, CutThere
<1>3. Rows'
  BY DEF Rows, Copies, Shapes, RowShape, PassShape, CutThere
<1>4. Drives'
  BY DEF Drives, Rows, Copies, Shapes, RowShape, PassShape, DriveShape, Named, CutThere
<1> QED BY <1>1, <1>2, <1>3, <1>4

\* The workspace written back has the repository that was read.
LEMMA EditWritesLands ==
  ASSUME Landings, EditWrites
  PROVE  Landings'
<1> USE SettingsConstants DEF Landings, EditWrites, KeepsRepo, NoEdit
<1>1. Shapes'
  BY DEF Shapes, RowShape, PassShape, DriveShape
<1>2. Copies'
  BY DEF Copies, Shapes, PassShape, Named, CutThere
<1>3. Rows'
  BY DEF Rows, Copies, Shapes, RowShape, PassShape, CutThere
<1>4. Drives'
  BY DEF Drives, Rows, Copies, Shapes, RowShape, PassShape, DriveShape, Named, CutThere
<1> QED BY <1>1, <1>2, <1>3, <1>4

\* A start moves rows and cuts no tree. (workflows_start)
LEMMA StartsFlowLands ==
  ASSUME Landings, StartsFlow
  PROVE  Landings'
<1> USE SettingsConstants DEF Landings, StartsFlow
<1>1. Shapes'
  BY DEF Shapes, RowShape, PassShape, DriveShape
<1>2. Copies'
  BY DEF Copies, Shapes, PassShape, Named, CutThere
<1>3. Rows'
  <2> SUFFICES ASSUME NEW k \in FlowJobs, job'[k].status \in {"running", "gating"}
               PROVE  job'[k].cut.mode # "reuse" => job'[k].tree.repo = space'.repo
    BY DEF Rows, CutThere
  <2>1. k \in Jobs /\ RowShape(job[k]) /\ job = [i \in Jobs |-> job[i]]
    BY DEF Shapes
  <2>2. job'[k].cut = job[k].cut /\ job'[k].tree = job[k].tree
    BY <2>1 DEF RowShape
  <2>3. job[k].status \in {"running", "gating"} /\ space' = space
    BY <2>1 DEF RowShape
  <2> QED BY <2>2, <2>3 DEF Rows, CutThere
<1>4. Drives'
  BY DEF Drives, Rows, Copies, Shapes, RowShape, PassShape, DriveShape, Named, CutThere
<1> QED BY <1>1, <1>2, <1>3, <1>4

\* An edit of a task's settings leaves what its tree was cut with. (tasks_update)
LEMMA EditsJobLands ==
  ASSUME Landings, NEW j \in Jobs, NEW e, EditsJob(j, e)
  PROVE  Landings'
<1> USE SettingsConstants DEF Landings, EditsJob
<1>1. Shapes'
  BY DEF Shapes, RowShape, PassShape, DriveShape
<1>2. Copies'
  BY DEF Copies, Shapes, PassShape, Named, CutThere
<1>3. Rows'
  <2> SUFFICES ASSUME NEW k \in FlowJobs, job'[k].status \in {"running", "gating"}
               PROVE  job'[k].cut.mode # "reuse" => job'[k].tree.repo = space'.repo
    BY DEF Rows, CutThere
  <2>1. k \in Jobs /\ RowShape(job[k]) /\ job = [i \in Jobs |-> job[i]]
    BY DEF Shapes
  <2>2. job'[k].cut = job[k].cut /\ job'[k].tree = job[k].tree
    BY <2>1 DEF RowShape
  <2>3. job[k].status \in {"running", "gating"} /\ space' = space
    BY <2>1 DEF RowShape
  <2> QED BY <2>2, <2>3 DEF Rows, CutThere
<1>4. Drives'
  BY DEF Drives, Rows, Copies, Shapes, RowShape, PassShape, DriveShape, Named, CutThere
<1> QED BY <1>1, <1>2, <1>3, <1>4

\* A tick lists rows and holds no workspace yet. (tick)
LEMMA TickListsReadyLands ==
  ASSUME Landings, TickListsReady
  PROVE  Landings'
<1> USE SettingsConstants DEF Landings, TickListsReady, NoPass
<1>1. Shapes'
  BY DEF Shapes, RowShape, PassShape, DriveShape
<1>2. Copies'
  BY DEF Copies, Shapes, PassShape, Named, CutThere
<1>3. Rows'
  BY DEF Rows, Copies, Shapes, RowShape, PassShape, CutThere
<1>4. Drives'
  BY DEF Drives, Rows, Copies, Shapes, RowShape, PassShape, DriveShape, Named, CutThere
<1> QED BY <1>1, <1>2, <1>3, <1>4

\* A pass resolves from the workspace, or from its copy.
LEMMA TickResolvesLands ==
  ASSUME Landings, NEW j \in Jobs, TickResolves(j)
  PROVE  Landings'
<1> USE SettingsConstants DEF Landings, TickResolves
<1>1. Shapes'
  BY DEF Shapes, RowShape, PassShape, DriveShape
<1>2. Copies'
  BY FlowSettings DEF Copies, Resolve, Shapes, PassShape, Named, CutThere
<1>3. Rows'
  BY DEF Rows, Copies, Shapes, RowShape, PassShape, CutThere
<1>4. Drives'
  BY FlowSettings DEF Drives, Resolve, Rows, Copies, Shapes, RowShape, PassShape, DriveShape, Named, CutThere
<1> QED BY <1>1, <1>2, <1>3, <1>4

\* A pass that gives a task up writes no tree. (tick's early exits)
LEMMA TickGivesUpLands ==
  ASSUME Landings, TickGivesUp
  PROVE  Landings'
<1> USE SettingsConstants DEF Landings, TickGivesUp
<1>1. Shapes'
  <2>1. job' = [k \in Jobs |-> job'[k]] /\ \A k \in Jobs : RowShape(job'[k])
    BY DEF Shapes, RowShape
  <2>2. PassShape(tick')
    BY DEF Shapes, PassShape
  <2>3. drive' = drive /\ space' = space /\ edit' = edit
    OBVIOUS
  <2>4. (\A k \in Jobs : DriveShape(drive[k]))' /\ (drive = [k \in Jobs |-> drive[k]])'
    BY <2>3 DEF Shapes, DriveShape
  <2> HIDE DEF TickGivesUp
  <2> QED BY <2>1, <2>2, <2>3, <2>4 DEF Shapes
<1>2. Copies'
  BY DEF Copies, Shapes, PassShape, Named, CutThere
<1>3. Rows'
  <2> SUFFICES ASSUME NEW k \in FlowJobs, job'[k].status \in {"running", "gating"}
               PROVE  job'[k].cut.mode # "reuse" => job'[k].tree.repo = space'.repo
    BY DEF Rows, CutThere
  <2>1. k \in Jobs /\ RowShape(job[k]) /\ job = [i \in Jobs |-> job[i]]
    BY DEF Shapes
  <2>2. job'[k].cut = job[k].cut /\ job'[k].tree = job[k].tree
    BY <2>1 DEF RowShape
  <2>3. job[k].status \in {"running", "gating"} /\ space' = space
    BY <2>1 DEF RowShape
  <2> QED BY <2>2, <2>3 DEF Rows, CutThere
<1>4. Drives'
  BY DEF Drives, Rows, Copies, Shapes, RowShape, PassShape, DriveShape, Named, CutThere
<1> QED BY <1>1, <1>2, <1>3, <1>4

\* What is provisioned is in the repository that was resolved.
LEMMA TickProvisionsLands ==
  ASSUME Landings, TickProvisions
  PROVE  Landings'
<1> USE SettingsConstants DEF Landings, TickProvisions
<1>1. Shapes'
  BY DEF Shapes, RowShape, PassShape, DriveShape
<1>2. Copies'
  BY PlaceIsThere DEF Copies, Shapes, PassShape, Named, CutThere
<1>3. Rows'
  BY DEF Rows, Copies, Shapes, RowShape, PassShape, CutThere
<1>4. Drives'
  BY PlaceIsThere DEF Drives, Rows, Copies, Shapes, RowShape, PassShape, DriveShape, Named, CutThere
<1> QED BY <1>1, <1>2, <1>3, <1>4

\* A loop starts with what the pass resolved; one that is still there is no
\* longer taken for the claim's own.
LEMMA TickClaimsForLands ==
  ASSUME Landings, NEW j \in Jobs, TickClaimsFor(j)
  PROVE  Landings'
<1> USE SettingsConstants DEF Landings, TickClaimsFor
<1>a. /\ tick.at = "claim" /\ tick.job = j /\ space' = space /\ edit' = edit
      /\ job = [i \in Jobs |-> job[i]] /\ drive = [i \in Jobs |-> drive[i]]
      /\ RowShape(job[j]) /\ DriveShape(drive[j]) /\ PassShape(tick)
  BY DEF Shapes
<1>b. \A k \in Jobs \ {j} : job'[k] = job[k] /\ drive'[k] = drive[k]
  BY <1>a
<1>c. /\ job' = [i \in Jobs |-> job'[i]]
      /\ job'[j].status = "running" /\ job'[j].tree = tick.place.tree
      /\ job'[j].branch = tick.place.branch /\ job'[j].cut = tick.eff
      /\ RowShape(job'[j])
  BY <1>a DEF RowShape
<1>d. /\ drive' = [i \in Jobs |-> drive'[i]]
      /\ DriveShape(drive'[j])
      /\ drive[j].on => /\ drive'[j].eff = drive[j].eff /\ drive'[j].tree = drive[j].tree
                        /\ drive'[j].cut = drive[j].cut /\ drive'[j].fresh = FALSE
      /\ ~drive[j].on => drive'[j] = [on |-> TRUE, eff |-> tick.eff, tree |-> tick.place.tree,
                                     branch |-> tick.place.branch, cut |-> tick.eff, fresh |-> TRUE]
  BY <1>a DEF DriveShape
<1>1. Shapes'
  <2>1. \A k \in Jobs : RowShape(job'[k])
    BY <1>b, <1>c DEF Shapes
  <2>2. \A k \in Jobs : DriveShape(drive'[k])
    BY <1>b, <1>d DEF Shapes
  <2>3. PassShape(tick')
    BY <1>a DEF PassShape
  <2>4. space' = [key \in DOMAIN space' |-> space'[key]] /\ "repo" \in DOMAIN space'
    BY <1>a DEF Shapes
  <2> QED
    BY <1>a, <1>c, <1>d, <2>1, <2>2, <2>3, <2>4 DEF Shapes, RowShape, DriveShape, PassShape
<1>2. Copies'
  BY DEF Copies, Shapes, PassShape, Named, CutThere
<1>3. Rows'
  <2> SUFFICES ASSUME NEW k \in FlowJobs, job'[k].status \in {"running", "gating"}
               PROVE  job'[k].cut.mode # "reuse" => job'[k].tree.repo = space'.repo
    BY DEF Rows, CutThere
  <2>1. CASE k = j
    BY <1>a, <1>c, <2>1 DEF Copies, CutThere
  <2>2. CASE k # j
    <3>1. job'[k] = job[k] /\ space' = space
      BY <1>a, <1>b, <2>2
    <3>2. job[k].status \in {"running", "gating"} => CutThere(job[k].cut, job[k].tree)
      BY DEF Rows
    <3> QED BY <3>1, <3>2 DEF CutThere
  <2> QED BY <2>1, <2>2
<1>4. Drives'
  BY DEF Drives, Rows, Copies, Shapes, RowShape, PassShape, DriveShape, Named, CutThere
<1> QED BY <1>1, <1>2, <1>3, <1>4

\* A claim refused leaves the row as it was. (transition)
LEMMA TickClaimRefusedLands ==
  ASSUME Landings, TickClaimRefused
  PROVE  Landings'
<1> USE SettingsConstants DEF Landings, TickClaimRefused
<1>1. Shapes'
  BY DEF Shapes, RowShape, PassShape, DriveShape
<1>2. Copies'
  BY DEF Copies, Shapes, PassShape, Named, CutThere
<1>3. Rows'
  BY DEF Rows, Copies, Shapes, RowShape, PassShape, CutThere
<1>4. Drives'
  BY DEF Drives, Rows, Copies, Shapes, RowShape, PassShape, DriveShape, Named, CutThere
<1> QED BY <1>1, <1>2, <1>3, <1>4

\* The end of a pass drops what it held.
LEMMA TickEndsLands ==
  ASSUME Landings, TickEnds
  PROVE  Landings'
<1> USE SettingsConstants DEF Landings, TickEnds, NoPass
<1>1. Shapes'
  BY DEF Shapes, RowShape, PassShape, DriveShape
<1>2. Copies'
  BY DEF Copies, Shapes, PassShape, Named, CutThere
<1>3. Rows'
  BY DEF Rows, Copies, Shapes, RowShape, PassShape, CutThere
<1>4. Drives'
  BY DEF Drives, Rows, Copies, Shapes, RowShape, PassShape, DriveShape, Named, CutThere
<1> QED BY <1>1, <1>2, <1>3, <1>4

\* A reclaim leaves the tree in the row and starts no loop. (reclaim)
LEMMA ReclaimsLands ==
  ASSUME Landings, NEW j \in Jobs, Reclaims(j)
  PROVE  Landings'
<1> USE SettingsConstants DEF Landings, Reclaims
<1>1. Shapes'
  BY DEF Shapes, RowShape, PassShape, DriveShape
<1>2. Copies'
  BY DEF Copies, Shapes, PassShape, Named, CutThere
<1>3. Rows'
  <2> SUFFICES ASSUME NEW k \in FlowJobs, job'[k].status \in {"running", "gating"}
               PROVE  job'[k].cut.mode # "reuse" => job'[k].tree.repo = space'.repo
    BY DEF Rows, CutThere
  <2>1. k \in Jobs /\ RowShape(job[k]) /\ job = [i \in Jobs |-> job[i]]
    BY DEF Shapes
  <2>2. job'[k].cut = job[k].cut /\ job'[k].tree = job[k].tree
    BY <2>1 DEF RowShape
  <2>3. job[k].status \in {"running", "gating"} /\ space' = space
    BY <2>1 DEF RowShape
  <2> QED BY <2>2, <2>3 DEF Rows, CutThere
<1>4. Drives'
  BY DEF Drives, Rows, Copies, Shapes, RowShape, PassShape, DriveShape, Named, CutThere
<1> QED BY <1>1, <1>2, <1>3, <1>4

\* A restart drops the pass and the loops, not the rows. (run)
LEMMA RestartsLands ==
  ASSUME Landings, NEW s \in Surroundings, Restarts(s)
  PROVE  Landings'
<1> USE SettingsConstants DEF Landings, Restarts, NoPass, NoDrive, NoEdit
<1>1. Shapes'
  BY DEF Shapes, RowShape, PassShape, DriveShape
<1>2. Copies'
  BY DEF Copies, Shapes, PassShape, Named, CutThere
<1>3. Rows'
  BY DEF Rows, Copies, Shapes, RowShape, PassShape, CutThere
<1>4. Drives'
  BY DEF Drives, Rows, Copies, Shapes, RowShape, PassShape, DriveShape, Named, CutThere
<1> QED BY <1>1, <1>2, <1>3, <1>4

\* A restarted daemon resolves anew, in the same repository.
LEMMA ReattachesLands ==
  ASSUME Landings, NEW j \in Jobs, Reattaches(j)
  PROVE  Landings'
<1> USE SettingsConstants DEF Landings, Reattaches
<1>1. Shapes'
  BY DEF Shapes, RowShape, PassShape, DriveShape
<1>2. Copies'
  BY FlowSettings DEF Copies, Resolve, Shapes, PassShape, Named, CutThere
<1>3. Rows'
  BY DEF Rows, Copies, Shapes, RowShape, PassShape, CutThere
<1>4. Drives'
  <2>1. /\ space' = space /\ job' = job
        /\ drive'[j] = [on |-> TRUE, eff |-> Resolve(j, job[j], space), tree |-> job[j].tree,
                         branch |-> job[j].branch, cut |-> job[j].cut, fresh |-> FALSE]
        /\ \A k \in Jobs \ {j} : drive'[k] = drive[k]
    BY DEF Shapes
  <2>2. j \in FlowJobs => CutThere(job[j].cut, job[j].tree)
    BY DEF Rows
  <2>3. Drives
    OBVIOUS
  <2> HIDE DEF Landings, Reattaches
  <2>4. j \in FlowJobs => Named(Resolve(j, job[j], space))
    BY FlowSettings DEF Resolve, Named
  <2> DEFINE Right(k) ==
        /\ k \in FlowJobs => Named(drive'[k].eff) /\ CutThere(drive'[k].cut, drive'[k].tree)
        /\ drive'[k].fresh => /\ drive'[k].eff = job'[k].cut
                             /\ drive'[k].tree = job'[k].tree /\ drive'[k].branch = job'[k].branch
  <2>5. Right(j)
    BY <2>1, <2>2, <2>4
  <2>6. \A k \in Jobs \ {j} : drive'[k].on => Right(k)
    BY <2>1, <2>3 DEF Drives
  <2>7. \A k \in Jobs : drive'[k].on => Right(k)
    BY <2>5, <2>6
  <2> QED BY <2>1, <2>7 DEF Drives, Named, CutThere
<1> QED BY <1>1, <1>2, <1>3, <1>4

\* What the agent does in its tree touches no row.
LEMMA AgentMakesCratesLands ==
  ASSUME Landings, NEW j \in Jobs, NEW found, AgentMakesCrates(j, found)
  PROVE  Landings'
<1> USE SettingsConstants DEF Landings, AgentMakesCrates
<1>1. Shapes'
  BY DEF Shapes, RowShape, PassShape, DriveShape
<1>2. Copies'
  BY DEF Copies, Shapes, PassShape, Named, CutThere
<1>3. Rows'
  BY DEF Rows, Copies, Shapes, RowShape, PassShape, CutThere
<1>4. Drives'
  BY DEF Drives, Rows, Copies, Shapes, RowShape, PassShape, DriveShape, Named, CutThere
<1> QED BY <1>1, <1>2, <1>3, <1>4

\* Nor does one agent's rewrite of Claude's own settings over another's.
LEMMA ClaudesCollideLands ==
  ASSUME Landings, NEW left, ClaudesCollide(left)
  PROVE  Landings'
<1> USE SettingsConstants DEF Landings, ClaudesCollide
<1>1. Shapes'
  BY DEF Shapes, RowShape, PassShape, DriveShape
<1>2. Copies'
  BY DEF Copies, Shapes, PassShape, Named, CutThere
<1>3. Rows'
  BY DEF Rows, Copies, Shapes, RowShape, PassShape, CutThere
<1>4. Drives'
  BY DEF Drives, Rows, Copies, Shapes, RowShape, PassShape, DriveShape, Named, CutThere
<1> QED BY <1>1, <1>2, <1>3, <1>4

\* A loop gates with the settings it was given. (gate)
LEMMA DriveGatesLands ==
  ASSUME Landings, NEW j \in Jobs, DriveGates(j)
  PROVE  Landings'
<1> USE SettingsConstants DEF Landings, DriveGates
<1>1. Shapes'
  BY DEF Shapes, RowShape, PassShape, DriveShape
<1>2. Copies'
  BY DEF Copies, Shapes, PassShape, Named, CutThere
<1>3. Rows'
  <2> SUFFICES ASSUME NEW k \in FlowJobs, job'[k].status \in {"running", "gating"}
               PROVE  job'[k].cut.mode # "reuse" => job'[k].tree.repo = space'.repo
    BY DEF Rows, CutThere
  <2>1. k \in Jobs /\ RowShape(job[k]) /\ job = [i \in Jobs |-> job[i]]
    BY DEF Shapes
  <2>2. job'[k].cut = job[k].cut /\ job'[k].tree = job[k].tree
    BY <2>1 DEF RowShape
  <2>3. job[k].status \in {"running", "gating"} /\ space' = space
    BY <2>1 DEF RowShape
  <2> QED BY <2>2, <2>3 DEF Rows, CutThere
<1>4. Drives'
  BY DEF Drives, Rows, Copies, Shapes, RowShape, PassShape, DriveShape, Named, CutThere
<1> QED BY <1>1, <1>2, <1>3, <1>4

\* A loop lands and tears down with them. (merge, teardown)
LEMMA DriveLandsLands ==
  ASSUME Landings, NEW j \in Jobs, DriveLands(j)
  PROVE  Landings'
<1> USE SettingsConstants DEF Landings, DriveLands, NoDrive
<1>1. Shapes'
  BY DEF Shapes, RowShape, PassShape, DriveShape
<1>2. Copies'
  BY DEF Copies, Shapes, PassShape, Named, CutThere
<1>3. Rows'
  <2> SUFFICES ASSUME NEW k \in FlowJobs, job'[k].status \in {"running", "gating"}
               PROVE  job'[k].cut.mode # "reuse" => job'[k].tree.repo = space'.repo
    BY DEF Rows, CutThere
  <2>1. k \in Jobs /\ RowShape(job[k]) /\ job = [i \in Jobs |-> job[i]]
    BY DEF Shapes
  <2>2. job'[k].cut = job[k].cut /\ job'[k].tree = job[k].tree
    BY <2>1 DEF RowShape
  <2>3. job[k].status \in {"running", "gating"} /\ space' = space
    BY <2>1 DEF RowShape
  <2> QED BY <2>2, <2>3 DEF Rows, CutThere
<1>4. Drives'
  BY DEF Drives, Rows, Copies, Shapes, RowShape, PassShape, DriveShape, Named, CutThere
<1> QED BY <1>1, <1>2, <1>3, <1>4

\* A loop that blocks its task keeps its tree. (block)
LEMMA DriveBlocksLands ==
  ASSUME Landings, NEW j \in Jobs, DriveBlocks(j)
  PROVE  Landings'
<1> USE SettingsConstants DEF Landings, DriveBlocks, NoDrive
<1>1. Shapes'
  BY DEF Shapes, RowShape, PassShape, DriveShape
<1>2. Copies'
  BY DEF Copies, Shapes, PassShape, Named, CutThere
<1>3. Rows'
  <2> SUFFICES ASSUME NEW k \in FlowJobs, job'[k].status \in {"running", "gating"}
               PROVE  job'[k].cut.mode # "reuse" => job'[k].tree.repo = space'.repo
    BY DEF Rows, CutThere
  <2>1. k \in Jobs /\ RowShape(job[k]) /\ job = [i \in Jobs |-> job[i]]
    BY DEF Shapes
  <2>2. job'[k].cut = job[k].cut /\ job'[k].tree = job[k].tree
    BY <2>1 DEF RowShape
  <2>3. job[k].status \in {"running", "gating"} /\ space' = space
    BY <2>1 DEF RowShape
  <2> QED BY <2>2, <2>3 DEF Rows, CutThere
<1>4. Drives'
  BY DEF Drives, Rows, Copies, Shapes, RowShape, PassShape, DriveShape, Named, CutThere
<1> QED BY <1>1, <1>2, <1>3, <1>4

\* A loop that ends leaves its row.
LEMMA DriveEndsLands ==
  ASSUME Landings, NEW j \in Jobs, DriveEnds(j)
  PROVE  Landings'
<1> USE SettingsConstants DEF Landings, DriveEnds, NoDrive
<1>1. Shapes'
  BY DEF Shapes, RowShape, PassShape, DriveShape
<1>2. Copies'
  BY DEF Copies, Shapes, PassShape, Named, CutThere
<1>3. Rows'
  BY DEF Rows, Copies, Shapes, RowShape, PassShape, CutThere
<1>4. Drives'
  BY DEF Drives, Rows, Copies, Shapes, RowShape, PassShape, DriveShape, Named, CutThere
<1> QED BY <1>1, <1>2, <1>3, <1>4

\* An operator's retry keeps the row's tree. (tasks_retry)
LEMMA RetriesLands ==
  ASSUME Landings, NEW j \in Jobs, Retries(j)
  PROVE  Landings'
<1> USE SettingsConstants DEF Landings, Retries
<1>1. Shapes'
  BY DEF Shapes, RowShape, PassShape, DriveShape
<1>2. Copies'
  BY DEF Copies, Shapes, PassShape, Named, CutThere
<1>3. Rows'
  <2> SUFFICES ASSUME NEW k \in FlowJobs, job'[k].status \in {"running", "gating"}
               PROVE  job'[k].cut.mode # "reuse" => job'[k].tree.repo = space'.repo
    BY DEF Rows, CutThere
  <2>1. k \in Jobs /\ RowShape(job[k]) /\ job = [i \in Jobs |-> job[i]]
    BY DEF Shapes
  <2>2. job'[k].cut = job[k].cut /\ job'[k].tree = job[k].tree
    BY <2>1 DEF RowShape
  <2>3. job[k].status \in {"running", "gating"} /\ space' = space
    BY <2>1 DEF RowShape
  <2> QED BY <2>2, <2>3 DEF Rows, CutThere
<1>4. Drives'
  BY DEF Drives, Rows, Copies, Shapes, RowShape, PassShape, DriveShape, Named, CutThere
<1> QED BY <1>1, <1>2, <1>3, <1>4

\* Every step keeps the repository of whoever holds one.
LEMMA NextLandings == Landings /\ [SetNext]_setVars => Landings'
<1> SUFFICES ASSUME Landings, [SetNext]_setVars PROVE Landings'
  OBVIOUS
<1>1. CASE UNCHANGED setVars
  BY <1>1 DEF setVars, Landings, Shapes, RowShape, PassShape, DriveShape, Copies, Rows, Drives,
       Named, CutThere
<1>2. CASE SetNext
  BY <1>2, EditReadsLands, EditWritesLands, StartsFlowLands, EditsJobLands,
     TickListsReadyLands, TickResolvesLands, TickGivesUpLands, TickProvisionsLands,
     TickClaimsForLands, TickClaimRefusedLands, TickEndsLands, ReclaimsLands, RestartsLands,
     ReattachesLands, AgentMakesCratesLands, ClaudesCollideLands, DriveGatesLands,
     DriveLandsLands, DriveBlocksLands, DriveEndsLands, RetriesLands DEF SetNext
<1> QED BY <1>1, <1>2

\* For every set of tasks, workspaces, edits, surroundings and bounds: a loop
\* lands in the repository its tree was made in, and goes by the settings the
\* tree was provisioned with as long as it is its claim's own. (effective.rs,
\* tick.rs, run/update.rs)
THEOREM LandsThere == SetSpec => []LandsWhereItWorked
<1>1. SetSpec => []Landings
  BY InitLandings, NextLandings, PTL DEF SetSpec
<1>2. Landings => LandsWhereItWorked
  BY SettingsConstants DEF Landings, Drives, Named, CutThere, LandsWhereItWorked
<1> QED BY <1>1, <1>2, PTL


-----------------------------------------------------------------------------
(***************************************************************************)
(* The types of the settings. What is found in a tree is of its            *)
(* repository, so the main trees stay and every copy of settings names a   *)
(* repository.                                                             *)
(***************************************************************************)
JobStatuses == {"pending", "ready", "running", "gating", "done", "blocked"}
Findings == {"bare", "members", "workspace"}

JobsTyped == \A j \in Jobs : job[j].status \in JobStatuses
DrivesTyped == \A j \in Jobs : drive[j].on \in BOOLEAN /\ drive[j].fresh \in BOOLEAN
ReposTyped ==
    /\ conf.repo \in Repos /\ space.repo \in Repos
    /\ tick.at = "provision" => tick.eff.repo \in Repos
TreesTyped ==
    /\ \A r \in Repos : MainTree(r) \in DOMAIN standing
    /\ \A t \in DOMAIN standing : standing[t] \in Findings
ClaudeTyped ==
    claude = [trusted |-> claude.trusted, state |-> claude.state]
    /\ claude.state \in {"clean", "trailing", "lost"}
CountsTyped == bench \in Benches /\ edits \in 0..bench.edits /\ restarts \in 0..bench.restarts

SetRest == JobsTyped /\ DrivesTyped /\ ReposTyped /\ TreesTyped /\ ClaudeTyped /\ CountsTyped

LEMMA LoadedRepo == ASSUME NEW s \in Surroundings PROVE Loaded(s).repo \in Repos
<1>1. (CHOOSE r \in Repos : TRUE) \in Repos
  BY SettingsConstants
<1>2. {s.env["repo"], s.file["repo"]} \subseteq Repos \cup {Unset}
  BY SettingsConstants
<1> QED
  BY <1>1, <1>2 DEF Loaded, EnvOr, Or

\* One row's status is written.
LEMMA StatusWritten ==
  ASSUME Landings, JobsTyped, NEW j \in Jobs, NEW r,
         r.status \in JobStatuses, job' = [job EXCEPT ![j] = r]
  PROVE  JobsTyped'
BY DEF Landings, Shapes, JobsTyped

LEMMA StatusSet ==
  ASSUME Landings, JobsTyped, NEW j \in Jobs, NEW status \in JobStatuses,
         job' = [job EXCEPT ![j].status = status]
  PROVE  JobsTyped'
<1> DEFINE r == [job[j] EXCEPT !.status = status]
<1>1. r.status = status
  BY DEF Landings, Shapes, RowShape
<1>2. job' = [job EXCEPT ![j] = r]
  OBVIOUS
<1> HIDE DEF r
<1> QED
  BY <1>1, <1>2, StatusWritten

LEMMA DriveSet ==
  ASSUME Landings, DrivesTyped, NEW j \in Jobs, NEW r, r.on \in BOOLEAN, r.fresh \in BOOLEAN,
         drive' = [drive EXCEPT ![j] = r]
  PROVE  DrivesTyped'
BY DEF Landings, Shapes, DrivesTyped

LEMMA JobsKeepTypes ==
  ASSUME Landings, SetRest, [SetNext]_setVars
  PROVE  JobsTyped'
<1>0. JobsTyped /\ Shapes
  BY DEF SetRest, Landings
<1>1. job' = job => JobsTyped'
  BY <1>0 DEF JobsTyped
<1>2. CASE StartsFlow
  <2>1. \A j \in Jobs : job'[j] = job[j] \/ job'[j] = [job[j] EXCEPT !.status = "ready"]
    BY <1>2 DEF StartsFlow
  <2>2. \A j \in Jobs : [job[j] EXCEPT !.status = "ready"].status = "ready"
    BY <1>0 DEF Shapes, RowShape
  <2> QED
    BY <1>0, <2>1, <2>2 DEF JobsTyped, JobStatuses
<1>3. CASE TickGivesUp
  <2> DEFINE j == tick.job
             status == IF job[j].status \in {"ready", "running", "gating"} THEN "blocked" ELSE job[j].status
  <2>1. job' = [job EXCEPT ![j].status = status]
    BY <1>3 DEF TickGivesUp
  <2>2. CASE j \in Jobs
    <3>1. status \in JobStatuses
      BY <1>0, <2>2 DEF JobsTyped, JobStatuses
    <3> HIDE DEF status
    <3> QED
      BY <1>0, <2>1, <2>2, <3>1, StatusSet
  <2>3. CASE j \notin Jobs
    <3>1. job' = job
      BY <1>0, <2>1, <2>3 DEF Shapes
    <3> QED
      BY <1>1, <3>1
  <2> QED
    BY <2>2, <2>3
<1>4. ASSUME NEW j \in Jobs, NEW e \in JobEdits, EditsJob(j, e) PROVE JobsTyped'
  <2> DEFINE r == [job[j] EXCEPT !.tool = e.tool, !.mode = e.mode,
                                 !.trust = IF e.trust = Unchanged THEN @ ELSE e.trust]
  <2>1. r.status = job[j].status
    BY <1>0 DEF Shapes, RowShape
  <2>2. job' = [job EXCEPT ![j] = r]
    BY <1>0, <1>4 DEF EditsJob, Shapes
  <2> HIDE DEF r
  <2> QED
    BY <1>0, <2>1, <2>2, StatusWritten DEF JobsTyped
<1>5. ASSUME NEW j \in Jobs, TickClaimsFor(j) PROVE JobsTyped'
  <2> DEFINE r == [job[j] EXCEPT !.status = "running", !.tree = tick.place.tree,
                                 !.branch = tick.place.branch, !.cut = tick.eff]
  <2>1. r.status = "running"
    BY <1>0 DEF Shapes, RowShape
  <2>2. job' = [job EXCEPT ![j] = r]
    BY <1>0, <1>5 DEF TickClaimsFor, Shapes
  <2> HIDE DEF r
  <2>3. r.status \in JobStatuses
    BY <2>1 DEF JobStatuses
  <2> QED
    BY <1>0, <2>2, <2>3, StatusWritten
<1>6. ASSUME NEW j \in Jobs,
             Reclaims(j) \/ DriveGates(j) \/ DriveLands(j) \/ DriveBlocks(j) \/ Retries(j)
      PROVE  JobsTyped'
  BY <1>0, <1>6, StatusSet DEF Reclaims, DriveGates, DriveLands, DriveBlocks, Retries, JobStatuses
<1> QED
  BY <1>1, <1>2, <1>3, <1>4, <1>5, <1>6
     DEF SetNext, setVars, EditReads, EditWrites, TickListsReady, TickProvisions, TickClaimRefused, TickEnds,
         Restarts, ClaudesCollide, TickResolves, Reattaches, AgentMakesCrates, DriveEnds

LEMMA DrivesKeepTypes ==
  ASSUME Landings, SetRest, [SetNext]_setVars
  PROVE  DrivesTyped'
<1>0. DrivesTyped /\ Shapes
  BY DEF SetRest, Landings
<1>1. drive' = drive => DrivesTyped'
  BY <1>0 DEF DrivesTyped
<1>2. NoDrive.on \in BOOLEAN /\ NoDrive.fresh \in BOOLEAN
  BY DEF NoDrive
<1>3. ASSUME NEW j \in Jobs, TickClaimsFor(j) PROVE DrivesTyped'
  <2> DEFINE r == IF drive[j].on THEN [drive[j] EXCEPT !.fresh = FALSE]
                  ELSE [on |-> TRUE, eff |-> tick.eff, tree |-> tick.place.tree,
                        branch |-> tick.place.branch, cut |-> tick.eff, fresh |-> TRUE]
  <2>1. r.on \in BOOLEAN /\ r.fresh \in BOOLEAN
    <3>1. CASE drive[j].on
      <4>1. DriveShape(drive[j]) /\ r = [drive[j] EXCEPT !.fresh = FALSE]
        BY <1>0, <3>1 DEF Shapes
      <4>2. r.on = drive[j].on /\ r.fresh = FALSE
        BY <4>1 DEF DriveShape
      <4> HIDE DEF r
      <4> QED
        BY <1>0, <4>2 DEF DrivesTyped
    <3>2. CASE ~drive[j].on
      BY <3>2
    <3> QED
      BY <3>1, <3>2
  <2>2. drive' = [drive EXCEPT ![j] = r]
    BY <1>3 DEF TickClaimsFor
  <2> HIDE DEF r
  <2>3. drive'[j] = r /\ \A k \in Jobs \ {j} : drive'[k] = drive[k]
    BY <1>0, <2>2 DEF Shapes
  <2> QED
    BY <1>0, <2>1, <2>3, Zenon DEF DrivesTyped
<1>4. ASSUME NEW j \in Jobs, Reattaches(j) PROVE DrivesTyped'
  <2> DEFINE r == [on |-> TRUE, eff |-> Resolve(j, job[j], space), tree |-> job[j].tree,
                   branch |-> job[j].branch, cut |-> job[j].cut, fresh |-> FALSE]
  <2>1. r.on \in BOOLEAN /\ r.fresh \in BOOLEAN
    OBVIOUS
  <2>2. drive' = [drive EXCEPT ![j] = r]
    BY <1>4 DEF Reattaches
  <2> HIDE DEF r
  <2>3. drive'[j] = r /\ \A k \in Jobs \ {j} : drive'[k] = drive[k]
    BY <1>0, <2>2 DEF Shapes
  <2> QED
    BY <1>0, <2>1, <2>3, Zenon DEF DrivesTyped
<1>5. ASSUME NEW j \in Jobs, DriveLands(j) \/ DriveBlocks(j) \/ DriveEnds(j) PROVE DrivesTyped'
  BY <1>0, <1>2, <1>5, DriveSet DEF DriveLands, DriveBlocks, DriveEnds
<1>6. ASSUME NEW s, Restarts(s) PROVE DrivesTyped'
  BY <1>2, <1>6 DEF Restarts, DrivesTyped
<1> QED
  BY <1>1, <1>3, <1>4, <1>5, <1>6
     DEF SetNext, setVars, EditReads, EditWrites, StartsFlow, TickListsReady, TickGivesUp, TickProvisions,
         TickClaimRefused, TickEnds, ClaudesCollide, EditsJob, TickResolves, Reclaims, AgentMakesCrates,
         DriveGates, Retries

LEMMA ReposKeepTypes ==
  ASSUME Landings, SetRest, [SetNext]_setVars
  PROVE  ReposTyped'
<1>0. ReposTyped /\ Shapes /\ Copies
  BY DEF SetRest, Landings
<1>1. conf' = conf /\ space' = space /\ tick' = tick => ReposTyped'
  BY <1>0 DEF ReposTyped
<1>2. CASE EditWrites
  <2>1. edit.body \in Spaces /\ edit.row.repo = space.repo
    BY <1>0, <1>2 DEF EditWrites, Shapes, Copies
  <2>2. space'.repo = space.repo
    BY <1>2, <2>1, SettingsConstants DEF EditWrites, KeepsRepo
  <2> QED
    BY <1>0, <1>2, <2>2 DEF EditWrites, ReposTyped
<1>3. ASSUME NEW j \in Jobs, TickResolves(j) PROVE ReposTyped'
  <2> DEFINE run == IF j \in FlowJobs /\ tick.space = NoTask THEN space ELSE tick.space
             eff == Resolve(j, tick.rows[j], run)
  <2>1. tick'.eff = eff /\ conf' = conf /\ space' = space
    BY <1>0, <1>3 DEF TickResolves, Shapes, PassShape
  <2>2. j \in FlowJobs => run.repo \in Repos
    BY <1>0 DEF Copies, ReposTyped
  <2>3. eff.repo \in Repos
    <3>1. CASE j \in FlowJobs
      BY <2>2, <3>1, FlowSettings DEF Resolve
    <3>2. CASE j \notin FlowJobs
      BY <1>0, <3>2 DEF Resolve, Standalone, ReposTyped
    <3> QED
      BY <3>1, <3>2
  <2> QED
    BY <1>0, <2>1, <2>3 DEF ReposTyped
<1>4. ASSUME NEW s \in Surroundings, Restarts(s) PROVE ReposTyped'
  BY <1>0, <1>4, LoadedRepo DEF Restarts, ReposTyped, NoPass
<1>5. ASSUME conf' = conf, space' = space, tick'.at # "provision" PROVE ReposTyped'
  BY <1>0, <1>5 DEF ReposTyped
<1>6. ASSUME NEW j \in Jobs, TickClaimsFor(j) PROVE ReposTyped'
  <2>1. tick'.at = "next"
    BY <1>0, <1>6 DEF TickClaimsFor, Shapes, PassShape
  <2> QED
    BY <1>5, <1>6, <2>1 DEF TickClaimsFor
<1>7. CASE TickListsReady \/ TickGivesUp \/ TickProvisions \/ TickClaimRefused \/ TickEnds
  <2>1. tick'.at # "provision"
    <3>1. \A at : [tick EXCEPT !.at = at].at = at
      BY <1>0 DEF Shapes, PassShape
    <3>2. \A todo, rows : [NoPass EXCEPT !.at = "next", !.todo = todo, !.rows = rows].at = "next"
      BY DEF NoPass
    <3>3. CASE TickListsReady
      BY <3>2, <3>3 DEF TickListsReady
    <3>4. CASE TickProvisions
      <4>1. \A place : [tick EXCEPT !.at = "claim", !.place = place].at = "claim"
        BY <1>0 DEF Shapes, PassShape
      <4> QED
        BY <3>4, <4>1 DEF TickProvisions
    <3>5. CASE TickGivesUp \/ TickClaimRefused
      BY <3>1, <3>5 DEF TickGivesUp, TickClaimRefused
    <3>6. CASE TickEnds
      BY <3>6 DEF TickEnds, NoPass
    <3> QED
      BY <1>7, <3>3, <3>4, <3>5, <3>6
  <2> QED
    BY <1>5, <1>7, <2>1 DEF TickListsReady, TickGivesUp, TickProvisions, TickClaimRefused, TickEnds
<1> QED
  BY <1>1, <1>2, <1>3, <1>4, <1>6, <1>7
     DEF SetNext, setVars, EditReads, StartsFlow, ClaudesCollide, EditsJob, Reclaims, Reattaches,
         AgentMakesCrates, DriveGates, DriveLands, DriveBlocks, DriveEnds, Retries

LEMMA TreesKeepTypes ==
  ASSUME Landings, SetRest, [SetNext]_setVars
  PROVE  TreesTyped'
<1>0. TreesTyped /\ ReposTyped
  BY DEF SetRest
<1>1. standing' = standing => TreesTyped'
  BY <1>0 DEF TreesTyped
<1>2. CASE TickProvisions
  <2> DEFINE place == Place(tick.job, tick.rows[tick.job], tick.eff)
  <2>1. /\ standing' = WithTree(place.tree) /\ tick.eff.repo \in Repos
        /\ ModeIn(tick.job, tick.eff) = "reuse" => Exists(place.tree)
    BY <1>0, <1>2 DEF TickProvisions, ReposTyped
  <2>2. ~Exists(place.tree) => place.tree.repo = tick.eff.repo
    BY <2>1 DEF Place, Tree, MainTree
  <2> HIDE DEF place
  <2>3. ~Exists(place.tree) => standing[MainTree(place.tree.repo)] \in Findings
    BY <1>0, <2>1, <2>2 DEF TreesTyped
  <2>4. \A t \in DOMAIN standing : standing[t] \in Findings
    BY <1>0 DEF TreesTyped
  <2>5. /\ DOMAIN standing' = DOMAIN standing \cup {place.tree}
        /\ \A t \in DOMAIN standing' : standing'[t] = IF Exists(t) THEN standing[t]
                                                      ELSE standing[MainTree(t.repo)]
    BY <2>1 DEF WithTree
  <2>6. ASSUME NEW t \in DOMAIN standing' PROVE standing'[t] \in Findings
    BY <2>3, <2>4, <2>5 DEF Exists
  <2> QED
    BY <1>0, <2>5, <2>6 DEF TreesTyped
<1>3. ASSUME NEW j \in Jobs, NEW found \in {"members", "workspace"}, AgentMakesCrates(j, found)
      PROVE  TreesTyped'
  BY <1>0, <1>3 DEF AgentMakesCrates, TreesTyped, Findings
<1>4. ASSUME NEW j \in Jobs, DriveLands(j) PROVE TreesTyped'
  <2>1. standing' = [t \in DOMAIN standing \ TornDown(j) |-> standing[t]]
    BY <1>4 DEF DriveLands
  <2>2. \A r \in Repos : MainTree(r) \notin TornDown(j)
    BY DEF TornDown, MainTree
  <2> HIDE DEF TornDown
  <2> QED
    BY <1>0, <2>1, <2>2 DEF TreesTyped
<1> QED
  BY <1>1, <1>2, <1>3, <1>4
     DEF SetNext, setVars, EditReads, EditWrites, StartsFlow, TickListsReady, TickGivesUp,
         TickClaimRefused, TickEnds, Restarts, ClaudesCollide, EditsJob, TickResolves, TickClaimsFor, Reclaims,
         Reattaches, DriveGates, DriveBlocks, DriveEnds, Retries

LEMMA CountsKeepTypes ==
  ASSUME SetRest, [SetNext]_setVars
  PROVE  ClaudeTyped' /\ CountsTyped'
<1>0. ClaudeTyped /\ CountsTyped /\ bench.edits \in Nat /\ bench.restarts \in Nat
  BY SettingsConstants DEF SetRest, CountsTyped
<1>1. bench' = bench
  BY DEF SetNext, setVars, EditReads, EditWrites, StartsFlow, TickListsReady, TickGivesUp, TickProvisions,
         TickClaimRefused, TickEnds, Restarts, ClaudesCollide, EditsJob, TickResolves, TickClaimsFor, Reclaims,
         Reattaches, AgentMakesCrates, DriveGates, DriveLands, DriveBlocks, DriveEnds, Retries
<1>2. edits' \in 0..bench.edits
  <2>1. edits' = edits \/ Edited
    BY DEF SetNext, setVars, EditReads, EditWrites, StartsFlow, TickListsReady, TickGivesUp, TickProvisions,
           TickClaimRefused, TickEnds, Restarts, ClaudesCollide, EditsJob, TickResolves, TickClaimsFor, Reclaims,
           Reattaches, AgentMakesCrates, DriveGates, DriveLands, DriveBlocks, DriveEnds, Retries
  <2> QED
    BY <1>0, <2>1 DEF CountsTyped, Edited
<1>3. restarts' \in 0..bench.restarts
  <2>1. restarts' = restarts \/ (restarts < bench.restarts /\ restarts' = restarts + 1)
    BY DEF SetNext, setVars, EditReads, EditWrites, StartsFlow, TickListsReady, TickGivesUp, TickProvisions,
           TickClaimRefused, TickEnds, Restarts, ClaudesCollide, EditsJob, TickResolves, TickClaimsFor, Reclaims,
           Reattaches, AgentMakesCrates, DriveGates, DriveLands, DriveBlocks, DriveEnds, Retries
  <2> QED
    BY <1>0, <2>1 DEF CountsTyped
<1>4. ClaudeTyped'
  <2>1. CASE claude' = claude
    BY <1>0, <2>1 DEF ClaudeTyped
  <2>2. CASE TickProvisions
    BY <1>0, <2>2 DEF TickProvisions, SeedsTrust, Bootstraps, ClaudeTyped
  <2>3. ASSUME NEW left \in {"trailing", "lost"}, ClaudesCollide(left) PROVE ClaudeTyped'
    BY <1>0, <2>3 DEF ClaudesCollide, ClaudeTyped
  <2> QED
    BY <2>1, <2>2, <2>3
       DEF SetNext, setVars, EditReads, EditWrites, StartsFlow, TickListsReady, TickGivesUp,
           TickClaimRefused, TickEnds, Restarts, EditsJob, TickResolves, TickClaimsFor, Reclaims,
           Reattaches, AgentMakesCrates, DriveGates, DriveLands, DriveBlocks, DriveEnds, Retries
<1> QED
  BY <1>0, <1>1, <1>2, <1>3, <1>4 DEF CountsTyped

\* They hold at first, every step keeps them where landings are right, and they give the types.
LEMMA SetTypesInductive ==
  /\ SetInit => Landings /\ SetRest
  /\ Landings /\ SetRest /\ [SetNext]_setVars => Landings' /\ SetRest'
  /\ Landings /\ SetRest => SetTypeOK
<1>1. ASSUME SetInit PROVE SetRest
  <2>1. CountsTyped /\ ClaudeTyped
    BY <1>1, SettingsConstants DEF SetInit, CountsTyped, ClaudeTyped
  <2>2. JobsTyped /\ DrivesTyped
    BY <1>1 DEF SetInit, JobsTyped, DrivesTyped, NewJob, NoDrive, JobStatuses
  <2>3. ReposTyped
    BY <1>1, LoadedRepo, SettingsConstants DEF SetInit, ReposTyped, NoPass
  <2>4. TreesTyped
    BY <1>1 DEF SetInit, TreesTyped, Findings
  <2> QED
    BY <2>1, <2>2, <2>3, <2>4 DEF SetRest
<1>2. Landings /\ SetRest /\ [SetNext]_setVars => SetRest'
  BY JobsKeepTypes, DrivesKeepTypes, ReposKeepTypes, TreesKeepTypes, CountsKeepTypes DEF SetRest
<1>3. Landings /\ SetRest => SetTypeOK
  BY DEF SetRest, JobsTyped, DrivesTyped, TreesTyped, ClaudeTyped, CountsTyped, JobStatuses, Findings,
         SetTypeOK
<1> QED
  BY <1>1, <1>2, <1>3, InitLandings, NextLandings
=============================================================================
