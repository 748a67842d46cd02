------------------------------ MODULE Landing ------------------------------
(***************************************************************************)
(* What becomes of a task's work: the tree and the branch a claim gives    *)
(* it, the commit it started from, and the steps of git from a green gate  *)
(* to done. Each git command is a step of its own: the loops of two tasks  *)
(* take theirs in any order, in one repository.                            *)
(*                                                                         *)
(* A commit is known by the attempt whose work it is, a branch by the      *)
(* commits it contains.                                                    *)
(***************************************************************************)
EXTENDS Naturals, FiniteSets

CONSTANTS
    Landers,        \* the tasks of one workflow
    Trunk,          \* the base branch, and the repository's own checkout
    RunTree,        \* the workflow's shared tree and branch
    Gone,           \* no such branch, no baseline
    Layouts,        \* the settings tried: see LayoutsAssumption
    Accidents,      \* kinds of accident that happen: "push", "read", "merge",
                    \* "agent" (the agent dies or its daemon does), "restart"
    MaxAccidents,   \* bound on those
    MaxRevives      \* bound on operators' revives

\* remote: whether the repository has one. slots: the concurrency limit.
ASSUME LayoutsAssumption ==
    Layouts \subseteq [worktrees : BOOLEAN, mode : {"new", "shared", "branch"},
                       merge : {"fast-forward", "merge", "pr"},
                       remote : BOOLEAN, slots : Nat \ {0}]

ASSUME LandersAssumption ==
    /\ IsFiniteSet(Landers) /\ RunTree # Trunk /\ {RunTree, Trunk} \cap Landers = {}
    /\ Gone \notin Landers \cup {RunTree, Trunk}

ASSUME LandBoundsAssumption == MaxAccidents \in Nat /\ MaxRevives \in Nat

VARIABLES
    layout,
    landing,        \* per task: status (running: in flight), where its loop is, baseline, whether a
                    \* claim could not read one, recorded commit
    tip,            \* the branches of the repository
    remoteTip,      \* the branches of the remote
    trees,          \* the trees there are, besides the checkout
    dirty,          \* work in a tree that is not committed
    mainHead,       \* the branch the checkout is on
    made,           \* the work that agents have produced
    epoch,          \* how often the workflow was hard reset
    accidents, revives

landVars == <<layout, landing, tip, remoteTip, trees, dirty, mainHead, made, epoch,
              accidents, revives>>

Refs == Landers \cup {RunTree, Trunk}
LandPhases == {"none", "working", "gating", "green", "backup", "land", "merge", "push", "record"}
Untouched == [status |-> "ready", at |-> "none", base |-> Gone, blind |-> FALSE,
              commit |-> Gone]

Accident(kind) ==
    /\ kind \in Accidents
    /\ accidents < MaxAccidents
    /\ accidents' = accidents + 1

(***************************************************************************)
(* The effective settings.                                                 *)
(***************************************************************************)
Mode == IF layout.worktrees THEN layout.mode ELSE "branch"
\* A shared branch is one pull request, never merged task by task.
Strategy == IF layout.mode = "shared" THEN "pr" ELSE layout.merge

BranchOf(t) == IF Mode = "shared" THEN RunTree ELSE t
TreeOf(t) == IF Mode = "branch" THEN Trunk ELSE BranchOf(t)
\* The branch a tree is on.
HeadOf(tree) == IF tree = Trunk THEN mainHead ELSE tree

Unit(t) == <<t, epoch>>
Units == Landers \X (0..MaxAccidents)

ASSUME GoneAssumption == \A works \in SUBSET Units : works # Gone

RunningLanders == {t \in Landers : landing[t].status = "running"}
PhaseIs(t, p) == landing[t].status = "running" /\ landing[t].at = p
MovesTo(t, p) == landing' = [landing EXCEPT ![t].at = p]
BlocksLanding(t, why) ==
    landing' = [landing EXCEPT ![t].status = why, ![t].at = "none"]
Same(vs) == UNCHANGED <<layout, epoch, revives, vs>>

(***************************************************************************)
(* The claim.                                                              *)
(***************************************************************************)
\* A mutant: every claim takes the head it finds.
BaselineAnew(reused, existing, head) == head

\* The commit the task started from is kept while its tree is.
Baseline(reused, existing, head) ==
    IF reused /\ existing # Gone THEN existing ELSE head

Provisions(t) ==
    IF Mode = "branch"
    THEN \* checkout -B: the branch starts again from base, uncommitted
         \* changes stay.
         /\ tip' = [tip EXCEPT ![t] = tip[Trunk]]
         /\ mainHead' = t
         /\ made' = {u \in made : u # Unit(t) \/ u \in dirty[Trunk] \cup tip[Trunk]}
         /\ UNCHANGED trees
    ELSE \* Onto the branch there is, or a new one from base.
         /\ tip' = IF TreeOf(t) \notin trees /\ tip[BranchOf(t)] = Gone
                   THEN [tip EXCEPT ![BranchOf(t)] = tip[Trunk]] ELSE tip
         /\ trees' = trees \cup {TreeOf(t)}
         /\ UNCHANGED <<mainHead, made>>

\* A slot is taken until the landing is over; the tree of a workflow whose
\* setting is shared only while an agent works: a sibling may be claimed
\* into it beside a task that is at its gate or landing.
MayClaim(t) ==
    /\ landing[t].status = "ready"
    /\ Cardinality(RunningLanders) < layout.slots
    /\ layout.mode = "shared" => ~\E u \in Landers : PhaseIs(u, "working")

ClaimsTree(t, readable) ==
    /\ MayClaim(t) /\ mainHead # Gone
    /\ IF readable THEN UNCHANGED accidents ELSE Accident("read")
    /\ Provisions(t)
    /\ LET reused == Mode # "branch" /\ TreeOf(t) \in trees
           head == IF readable THEN tip'[BranchOf(t)] ELSE Gone
       IN landing' = [landing EXCEPT ![t] = [@ EXCEPT
              !.status = "running", !.at = "working",
              !.base = Baseline(reused, landing[t].base, head),
              !.blind = landing[t].blind \/ ~readable]]
    /\ Same(<<remoteTip, dirty>>)

\* No repository to make a tree in.
ProvisionFails(t) ==
    /\ MayClaim(t) /\ mainHead = Gone
    /\ BlocksLanding(t, "blocked")
    /\ Same(<<tip, remoteTip, trees, dirty, mainHead, made, accidents>>)

(***************************************************************************)
(* The agent: it leaves its work in the tree or commits it, or does        *)
(* nothing; then it says it is done.                                       *)
(***************************************************************************)
AgentWorks(t, commits) ==
    /\ PhaseIs(t, "working") /\ Unit(t) \notin made
    /\ made' = made \cup {Unit(t)}
    /\ LET tree == TreeOf(t) IN
         IF commits
         THEN /\ tip' = [tip EXCEPT ![HeadOf(tree)] = @ \cup dirty[tree] \cup {Unit(t)}]
              /\ dirty' = [dirty EXCEPT ![tree] = {}]
         ELSE /\ dirty' = [dirty EXCEPT ![tree] = @ \cup {Unit(t)}]
              /\ UNCHANGED tip
    /\ Same(<<landing, remoteTip, trees, mainHead, accidents>>)

\* The task goes from running to gating.
GateBegins(t) ==
    /\ PhaseIs(t, "working")
    /\ MovesTo(t, "gating")
    /\ Same(<<tip, remoteTip, trees, dirty, mainHead, made, accidents>>)

\* The commands of the gate and the extensions pass, or the task is blocked.
GateJudges(t, green) ==
    /\ PhaseIs(t, "gating")
    /\ IF green THEN MovesTo(t, "green") ELSE BlocksLanding(t, "blocked")
    /\ Same(<<tip, remoteTip, trees, dirty, mainHead, made, accidents>>)

(***************************************************************************)
(* Landing, a git command at a time.                                       *)
(***************************************************************************)
HeadAdvanced(t) == landing[t].base # tip[HeadOf(TreeOf(t))]

BranchHasCommits(t) == ~(tip[BranchOf(t)] \subseteq tip[Trunk])

\* Nothing to commit and the head where the claim found it: an empty task.
\* Without a baseline the question is whether the branch is ahead of base.
DidNothing(t) ==
    /\ dirty[TreeOf(t)] = {}
    /\ IF landing[t].base = Gone THEN ~BranchHasCommits(t) ELSE ~HeadAdvanced(t)

CommitsWorktree(t) ==
    /\ PhaseIs(t, "green")
    /\ LET tree == TreeOf(t) IN
         IF DidNothing(t)
         THEN BlocksLanding(t, "empty") /\ UNCHANGED <<tip, dirty>>
         ELSE /\ MovesTo(t, "backup")
              /\ tip' = [tip EXCEPT ![HeadOf(tree)] = @ \cup dirty[tree]]
              /\ dirty' = [dirty EXCEPT ![tree] = {}]
    /\ Same(<<remoteTip, trees, mainHead, made, accidents>>)

\* A push is refused when the remote has commits that the branch has not.
PushAccepted(ref) ==
    IF remoteTip[ref] = Gone THEN TRUE
    ELSE tip[ref] # Gone /\ remoteTip[ref] \subseteq tip[ref]

Pushes(ref) ==
    IF layout.remote THEN remoteTip' = [remoteTip EXCEPT ![ref] = tip[ref]]
    ELSE UNCHANGED remoteTip

PushFails(ref) ==
    /\ layout.remote
    /\ UNCHANGED remoteTip
    /\ IF PushAccepted(ref) THEN Accident("push") ELSE UNCHANGED accidents

PushSucceeds(ref) ==
    /\ IF layout.remote THEN PushAccepted(ref) ELSE TRUE
    /\ Pushes(ref)
    /\ UNCHANGED accidents

\* Best effort.
PushesBackup(t) ==
    /\ PhaseIs(t, "backup")
    /\ PushSucceeds(BranchOf(t)) \/ PushFails(BranchOf(t))
    /\ MovesTo(t, "land")
    /\ Same(<<tip, trees, dirty, mainHead, made>>)

\* A mutant: the push that counts is best effort, too.
LeavesUnpushed(t) == MovesTo(t, "record")

BlocksUnpushed(t) == BlocksLanding(t, "blocked")

PushesForPr(t) ==
    /\ PhaseIs(t, "land") /\ Strategy = "pr"
    /\ \/ PushSucceeds(BranchOf(t)) /\ MovesTo(t, "record")
       \/ PushFails(BranchOf(t)) /\ BlocksUnpushed(t)
    /\ Same(<<tip, trees, dirty, mainHead, made>>)

ChecksOutBase(t) ==
    /\ PhaseIs(t, "land") /\ Strategy # "pr"
    /\ mainHead' = Trunk
    /\ MovesTo(t, "merge")
    /\ Same(<<tip, remoteTip, trees, dirty, made, accidents>>)

\* Into whatever the checkout is on by then. A fast-forward needs a branch
\* that contains it; a merge may conflict.
Forwards(t) ==
    \/ Strategy = "merge"
    \/ tip[mainHead] \subseteq tip[BranchOf(t)]
    \/ tip[BranchOf(t)] \subseteq tip[mainHead]

MergesBranch(t) ==
    /\ PhaseIs(t, "merge")
    /\ \/ /\ Forwards(t)
          /\ tip' = [tip EXCEPT ![mainHead] = @ \cup tip[BranchOf(t)]]
          /\ MovesTo(t, "push")
          /\ UNCHANGED accidents
       \/ /\ IF Forwards(t) THEN Accident("merge") ELSE UNCHANGED accidents
          /\ BlocksLanding(t, "blocked")
          /\ UNCHANGED tip
    /\ Same(<<remoteTip, trees, dirty, mainHead, made>>)

PushesBase(t) ==
    /\ PhaseIs(t, "push")
    /\ \/ PushSucceeds(Trunk) /\ MovesTo(t, "record")
       \/ PushFails(Trunk) /\ BlocksUnpushed(t)
    /\ Same(<<tip, trees, dirty, mainHead, made>>)

\* The head is read, done is recorded, and a tree of the task's own goes.
RecordsDone(t) ==
    /\ PhaseIs(t, "record")
    /\ LET head == IF Strategy = "pr" THEN tip[BranchOf(t)] ELSE tip[mainHead] IN
         landing' = [landing EXCEPT ![t] = [@ EXCEPT
             !.status = "done", !.at = "none", !.commit = head]]
    /\ IF Mode = "new"
       THEN trees' = trees \ {TreeOf(t)} /\ dirty' = [dirty EXCEPT ![TreeOf(t)] = {}]
       ELSE UNCHANGED <<trees, dirty>>
    /\ Same(<<tip, remoteTip, mainHead, made, accidents>>)

(***************************************************************************)
(* What befalls it.                                                        *)
(***************************************************************************)
\* The agent or the daemon dies: the task is reclaimed into ready or, with
\* the daemon back, driven again, from its gate if it had got that far.
LoopLost(t, resumed) ==
    /\ landing[t].status = "running" /\ Accident("agent")
    /\ IF resumed THEN MovesTo(t, IF PhaseIs(t, "working") THEN "working" ELSE "gating")
       ELSE BlocksLanding(t, "ready")
    /\ Same(<<tip, remoteTip, trees, dirty, mainHead, made>>)

RevivesLanding(t) ==
    /\ landing[t].status \in {"blocked", "empty"}
    /\ revives < MaxRevives
    /\ revives' = revives + 1
    /\ landing' = [landing EXCEPT ![t].status = "ready"]
    /\ UNCHANGED <<layout, tip, remoteTip, trees, dirty, mainHead, made, epoch, accidents>>

\* A mutant: a tree that git no longer lists stays on the disk.
TreesLeft == trees

TreesAfterReset == {}

\* The trees and the branches go; what git or the remote refuses to delete
\* stays. The baselines are not cleared. Where the tree that a task was given
\* is the checkout itself, git refuses to remove it and the directory is
\* deleted instead, the repository with it. Taken while no loop is landing.
HardReset(survives, stays) ==
    /\ \A t \in RunningLanders : PhaseIs(t, "working")
    /\ \E t \in Landers : landing[t].base # Gone \/ landing[t].blind
    /\ Accident("restart")
    /\ epoch' = epoch + 1
    /\ landing' = [t \in Landers |-> [landing[t] EXCEPT
                      !.status = "ready", !.at = "none", !.commit = Gone]]
    /\ trees' = TreesAfterReset
    /\ IF Mode = "branch"
       THEN /\ tip' = [ref \in Refs |-> Gone] /\ mainHead' = Gone
            /\ dirty' = [tree \in Refs |-> {}]
            /\ UNCHANGED remoteTip
       ELSE /\ dirty' = [tree \in Refs |-> IF tree = Trunk THEN dirty[tree] ELSE {}]
            /\ tip' = [ref \in Refs |-> IF ref = Trunk \/ survives THEN tip[ref] ELSE Gone]
            /\ remoteTip' = [ref \in Refs |->
                                IF ref = Trunk \/ stays THEN remoteTip[ref] ELSE Gone]
            /\ UNCHANGED mainHead
    /\ UNCHANGED <<layout, made, revives>>

LandInit ==
    /\ layout \in Layouts
    /\ landing = [t \in Landers |-> Untouched]
    /\ tip = [ref \in Refs |-> IF ref = Trunk THEN {} ELSE Gone]
    /\ remoteTip = [ref \in Refs |-> IF ref = Trunk THEN {} ELSE Gone]
    /\ trees = {}
    /\ dirty = [tree \in Refs |-> {}]
    /\ mainHead = Trunk
    /\ made = {}
    /\ epoch = 0 /\ accidents = 0 /\ revives = 0

LandSteps(t) ==
    \/ GateBegins(t) \/ CommitsWorktree(t) \/ PushesBackup(t) \/ PushesForPr(t)
    \/ ChecksOutBase(t) \/ MergesBranch(t) \/ PushesBase(t) \/ RecordsDone(t)

LandNext ==
    \/ \E t \in Landers :
          \/ \E b \in BOOLEAN :
                ClaimsTree(t, b) \/ AgentWorks(t, b) \/ GateJudges(t, b) \/ LoopLost(t, b)
          \/ LandSteps(t) \/ RevivesLanding(t) \/ ProvisionFails(t)
    \/ \E survives, stays \in BOOLEAN : HardReset(survives, stays)

LandSpec == LandInit /\ [][LandNext]_landVars

-----------------------------------------------------------------------------

LandTypeOK ==
    /\ layout \in Layouts
    /\ landing \in [Landers -> [status : {"ready", "running", "blocked", "empty", "done"},
                                at : LandPhases, base : (SUBSET Units) \cup {Gone},
                                blind : BOOLEAN, commit : (SUBSET Units) \cup {Gone}]]
    /\ tip \in [Refs -> (SUBSET Units) \cup {Gone}]
    /\ remoteTip \in [Refs -> (SUBSET Units) \cup {Gone}]
    /\ trees \subseteq Refs \ {Trunk}
    /\ dirty \in [Refs -> SUBSET Units]
    /\ mainHead \in Refs \cup {Gone} /\ made \subseteq Units
    /\ \A tree \in trees \cup ({mainHead} \ {Gone}) : tip[tree] # Gone
    /\ epoch \in 0..MaxAccidents /\ accidents \in 0..MaxAccidents
    /\ revives \in 0..MaxRevives

LandedOn(t) == IF Strategy = "pr" THEN BranchOf(t) ELSE Trunk

\* The work of a done task is in the branch it lands on, in the commit that
\* is recorded, and on the remote if there is one: whatever pushes failed and
\* were retried before, and however the loops took their turns. (land, and
\* the retry of a merge that went through although its push did not.)
DoneIsLanded ==
    \A t \in Landers :
        landing[t].status = "done" /\ Unit(t) \in made =>
            /\ Unit(t) \in tip[LandedOn(t)]
            /\ Unit(t) \in landing[t].commit
            /\ layout.remote => Unit(t) \in remoteTip[LandedOn(t)]

\* No work is stranded by calling its task empty: a task found empty in a
\* tree that is kept between attempts has produced nothing, however often its
\* attempts died and were claimed again, as long as every claim could read the
\* head. (resolve_base_commit: a retry does not adopt the task's own prior
\* commit as its baseline; after a claim that read nothing it does.)
NotFalselyEmpty ==
    \A t \in Landers :
        landing[t].status = "empty" /\ Mode # "branch" /\ ~landing[t].blind =>
            Unit(t) \notin made

\* What a workflow's tasks are put through never costs the repository its
\* base branch. Refuted by a hard restart in branch mode. (restart_workflow:
\* "base is never force-reset; deleting the workflow's own branch is enough")
BaseSurvives == mainHead # Gone /\ tip[Trunk] # Gone
=============================================================================
