------------------------------- MODULE AutoPr -------------------------------
(***************************************************************************)
(* The pull request the supervisor opens for a workflow whose tasks are    *)
(* all done. An attempt spawns an agent that writes the summary, waits for *)
(* it for up to fifteen minutes and opens the request; the url on the row  *)
(* is what keeps the next tick from doing it again. While an attempt waits *)
(* operators and people on GitHub go on.                                   *)
(***************************************************************************)
EXTENDS RunRows

CONSTANTS
    MaxPrUpsets     \* bound on what befalls the attempts: failed calls, silent
                    \* agents, deaths, operators' writes, people on GitHub

ASSUME MaxPrUpsetsAssumption == MaxPrUpsets \in Nat

VARIABLES
    allDone,        \* workflows whose tasks are all done
    ahead,          \* workflows whose branch has commits that base lacks
    remotePr,       \* the pull request of each workflow's branch
    summarizers,    \* live summary agents, per workflow
    killsFailed,    \* kills that did not reach the agent
    prPass,         \* the pass under way
    prUpsets

prVars == <<allDone, ahead, remotePr, summarizers, killsFailed, prPass, prUpsets>>

\* todo: the workflows the pass listed and has still to look at, with "run"
\* the one it is at.
Phases == {"idle", "next", "look", "reap", "spawn", "await", "kill", "create", "again", "record"}
NoPass == [at |-> "idle", todo |-> {}, run |-> NoRow, ok |-> FALSE]

At(p) == prPass.at = p
PrUpset == prUpsets < MaxPrUpsets /\ prUpsets' = prUpsets + 1
NextOne == [prPass EXCEPT !.at = "next", !.run = NoRow, !.ok = FALSE]
Goes(p) == prPass' = [prPass EXCEPT !.at = p]

\* Opted in, none recorded, not stopped: judged by the rows as listed.
WantsPr(r) == HasRow(r) /\ runRow[r].autoPr /\ ~runRow[r].pr /\ runRow[r].active

PassBegins ==
    /\ At("idle") /\ ~Holds(Supervisor)
    /\ \E r \in Workflows : WantsPr(r)
    /\ prPass' = [NoPass EXCEPT !.at = "next", !.todo = {r \in Workflows : WantsPr(r)}]
    /\ UNCHANGED <<rowVars, allDone, ahead, remotePr, summarizers, killsFailed, prUpsets>>

PassTakes(r) ==
    /\ At("next") /\ r \in prPass.todo /\ ~Holds(Supervisor)
    /\ prPass' = IF r \in allDone
                 THEN [prPass EXCEPT !.at = "look", !.run = r, !.todo = @ \ {r}]
                 ELSE [prPass EXCEPT !.todo = @ \ {r}]
    /\ UNCHANGED <<rowVars, allDone, ahead, remotePr, summarizers, killsFailed, prUpsets>>

PassEnds ==
    /\ At("next") /\ prPass.todo = {} /\ ~Holds(Supervisor)
    /\ prPass' = NoPass
    /\ UNCHANGED <<rowVars, allDone, ahead, remotePr, summarizers, killsFailed, prUpsets>>

\* A mutant: only an open request counts.
ExistingPrOpen(r) == remotePr[r] = "open"

\* A request of any state is the branch's request.
ExistingPr(r) == remotePr[r] # "none"

\* Two checks before an agent is spawned, in a directory that must be there.
\* An error of gh in the first one reads as no request, one of git in the
\* second one as commits.
LooksForPr(fails) ==
    /\ At("look")
    /\ IF fails = {} THEN UNCHANGED prUpsets ELSE PrUpset
    /\ prPass' =
         IF "directory" \in fails THEN NextOne
         ELSE IF ExistingPr(prPass.run) /\ "gh" \notin fails THEN [prPass EXCEPT !.at = "record"]
         ELSE IF prPass.run \in ahead \/ "git" \in fails THEN [prPass EXCEPT !.at = "reap"]
         ELSE NextOne
    /\ UNCHANGED <<rowVars, allDone, ahead, remotePr, summarizers, killsFailed>>

\* A mutant: what an earlier attempt left is not killed.
ReapsNone(count) == count

ReapsTag(count) == 0

\* Killing is best effort: a kill that fails is ignored.
Kills(remaining) ==
    \/ /\ summarizers' = [summarizers EXCEPT ![prPass.run] = remaining]
       /\ UNCHANGED <<killsFailed, prUpsets>>
    \/ /\ PrUpset
       /\ killsFailed' = killsFailed + 1
       /\ UNCHANGED summarizers

ReapsSummarizer ==
    /\ At("reap")
    /\ Kills(ReapsTag(summarizers[prPass.run]))
    /\ Goes("spawn")
    /\ UNCHANGED <<rowVars, allDone, ahead, remotePr>>

SpawnsSummarizer ==
    /\ At("spawn")
    /\ \/ /\ summarizers' = [summarizers EXCEPT ![prPass.run] = @ + 1]
          /\ Goes("await")
          /\ UNCHANGED prUpsets
       \/ PrUpset /\ prPass' = NextOne /\ UNCHANGED summarizers
    /\ UNCHANGED <<rowVars, allDone, ahead, remotePr, killsFailed>>

\* DONE, or else BLOCKED or the end of the wait. (A summary that was not
\* written is made up.)
AwaitsSummary(done) ==
    /\ At("await")
    /\ IF done THEN UNCHANGED prUpsets ELSE PrUpset
    /\ prPass' = [prPass EXCEPT !.at = "kill", !.ok = done]
    /\ UNCHANGED <<rowVars, allDone, ahead, remotePr, summarizers, killsFailed>>

KillsSummarizer ==
    /\ At("kill")
    /\ Kills(0)
    /\ IF prPass.ok THEN Goes("create") ELSE prPass' = NextOne
    /\ UNCHANGED <<rowVars, allDone, ahead, remotePr>>

\* GitHub refuses a second open request for a branch, and one with nothing
\* in it. A refusal is followed by another look.
CreatesPr ==
    /\ At("create")
    /\ IF remotePr[prPass.run] = "open" \/ prPass.run \notin ahead
       THEN Goes("again") /\ UNCHANGED <<remotePr, prUpsets>>
       ELSE \/ /\ remotePr' = [remotePr EXCEPT ![prPass.run] = "open"]
               /\ Goes("record")
               /\ UNCHANGED prUpsets
            \/ PrUpset /\ Goes("again") /\ UNCHANGED remotePr
    /\ UNCHANGED <<rowVars, allDone, ahead, summarizers, killsFailed>>

LooksAgain(hidden) ==
    /\ At("again")
    /\ IF hidden THEN PrUpset ELSE UNCHANGED prUpsets
    /\ IF ExistingPr(prPass.run) /\ ~hidden THEN Goes("record") ELSE prPass' = NextOne
    /\ UNCHANGED <<rowVars, allDone, ahead, remotePr, summarizers, killsFailed>>

RecordsPr ==
    /\ At("record")
    /\ IF HasRow(prPass.run)
       THEN LoadsRow(Supervisor, prPass.run, SetPrUrl(runRow[prPass.run]))
       ELSE UNCHANGED rowVars
    /\ prPass' = NextOne
    /\ UNCHANGED <<allDone, ahead, remotePr, summarizers, killsFailed, prUpsets>>

WritesPrUrl == WritesRow(Supervisor) /\ UNCHANGED prVars

(***************************************************************************)
(* The rest of the world.                                                  *)
(***************************************************************************)
\* The last task lands, with commits of its own.
WorkflowCompletes(r) ==
    /\ r \notin allDone
    /\ allDone' = allDone \cup {r}
    /\ ahead' = ahead \cup {r}
    /\ UNCHANGED <<rowVars, remotePr, summarizers, killsFailed, prPass, prUpsets>>

\* An operator resets its tasks.
WorkflowReset(r) ==
    /\ r \in allDone /\ PrUpset
    /\ allDone' = allDone \ {r}
    /\ UNCHANGED <<rowVars, ahead, remotePr, summarizers, killsFailed, prPass>>

\* Somebody opens a request for the branch, or merges the open one.
PersonOpensPr(r) ==
    /\ r \in ahead /\ remotePr[r] # "open" /\ PrUpset
    /\ remotePr' = [remotePr EXCEPT ![r] = "open"]
    /\ UNCHANGED <<rowVars, allDone, ahead, summarizers, killsFailed, prPass>>

PersonMergesPr(r) ==
    /\ remotePr[r] = "open" /\ PrUpset
    /\ remotePr' = [remotePr EXCEPT ![r] = "merged"]
    /\ ahead' = ahead \ {r}
    /\ UNCHANGED <<rowVars, allDone, summarizers, killsFailed, prPass>>

OperatorsMeanwhile ==
    /\ \E c \in RowClients :
          \/ (LifecycleLoads(c) \/ OtherLoads(c)) /\ PrUpset
          \/ OperatorWrites(c) /\ UNCHANGED prUpsets
    /\ UNCHANGED <<allDone, ahead, remotePr, summarizers, killsFailed, prPass>>

RunComesAndGoes(r) ==
    /\ PrUpset
    /\ DeleteRun(r) \/ \E auto \in BOOLEAN : CreateRun(r, auto)
    /\ allDone' = allDone \ {r}
    /\ UNCHANGED <<ahead, remotePr, summarizers, killsFailed, prPass>>

\* The agents outlive the daemon.
PrDies ==
    /\ PrUpset
    /\ RowsLost
    /\ prPass' = NoPass
    /\ UNCHANGED <<runRow, allDone, ahead, remotePr, summarizers, killsFailed>>

PrInit ==
    /\ RowInit
    /\ allDone = {} /\ ahead = {}
    /\ remotePr = [r \in Workflows |-> "none"]
    /\ summarizers = [r \in Workflows |-> 0]
    /\ killsFailed = 0
    /\ prPass = NoPass
    /\ prUpsets = 0

PrStep ==
    \/ PassBegins \/ PassEnds \/ \E r \in Workflows : PassTakes(r)
    \/ \E fails \in SUBSET {"directory", "gh", "git"} : LooksForPr(fails)
    \/ \E hidden \in BOOLEAN : LooksAgain(hidden)
    \/ ReapsSummarizer \/ SpawnsSummarizer \/ KillsSummarizer
    \/ \E done \in BOOLEAN : AwaitsSummary(done)
    \/ CreatesPr \/ RecordsPr \/ WritesPrUrl

PrWorld ==
    \/ \E r \in Workflows :
          \/ WorkflowCompletes(r) \/ WorkflowReset(r) \/ RunComesAndGoes(r)
          \/ PersonOpensPr(r) \/ PersonMergesPr(r)
    \/ OperatorsMeanwhile \/ PrDies

PrNext == PrStep \/ PrWorld

\* The supervisor ticks for as long as the daemon lives.
PrSpec ==
    /\ PrInit
    /\ [][PrNext]_<<rowVars, prVars>>
    /\ WF_<<rowVars, prVars>>(PrStep)

-----------------------------------------------------------------------------

PrTypeOK ==
    /\ RowTypeOK
    /\ allDone \subseteq Workflows /\ ahead \subseteq Workflows
    /\ remotePr \in [Workflows -> {"none", "open", "merged"}]
    /\ summarizers \in [Workflows -> Nat] /\ killsFailed \in Nat
    /\ prPass \in [at : Phases, todo : SUBSET Workflows, run : Workflows \cup {NoRow},
                   ok : BOOLEAN]
    /\ prUpsets \in 0..MaxPrUpsets

\* Attempts never pile up agents: whatever times out, fails or dies on the
\* way, a workflow has one live summary agent at most, and one more for each
\* kill that did not reach its agent. (open_pr reaps before it spawns.)
NoSwarm == \A r \in Workflows : summarizers[r] <= 1 + killsFailed

\* A completed workflow does not keep the attempts going: if its branch has
\* a pull request of any state, or something to put into one, the row gets
\* the url, whoever opened the request and whenever, unless the workflow is
\* stopped, reset or opted out. (Issue 06: the attempt that can never succeed.)
PrIsRecorded ==
    \A r \in Workflows :
        []<>(WantsPr(r) /\ r \in allDone => r \notin ahead /\ remotePr[r] = "none")
=============================================================================
