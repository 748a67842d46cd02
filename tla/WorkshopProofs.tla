--------------------------- MODULE WorkshopProofs ---------------------------
(***************************************************************************)
(* What the work around the scheduler keeps, for every set of tasks,       *)
(* machines and requests and for every bound: the landing of finished      *)
(* tasks in git, the conversation with the management agent, the panel of  *)
(* the operator; and the types of all that MCWorkshop puts side by side.   *)
(***************************************************************************)
EXTENDS MCWorkshop, SettingsLanding, SyncProofs, FiniteSetTheorems, WellFoundedInduction, TLAPS

-----------------------------------------------------------------------------
(***************************************************************************)
(* Landing: what the repository looks like between two git commands.       *)
(***************************************************************************)
Statuses == {"ready", "running", "blocked", "empty", "done"}
LandRows == [status : Statuses, at : LandPhases, base : (SUBSET Units) \cup {Gone},
             blind : BOOLEAN, commit : (SUBSET Units) \cup {Gone}]
Branches == [Refs -> (SUBSET Units) \cup {Gone}]

\* A hard reset begins an epoch no work is of yet; a running task has a
\* branch, and a tree unless it works in the checkout.
LandFrame ==
    /\ epoch <= accidents
    /\ made \subseteq Landers \X (0..epoch)
    /\ mainHead # Gone => tip[Trunk] # Gone
    /\ Mode # "branch" => mainHead = Trunk
    /\ \A t \in RunningLanders :
          /\ mainHead # Gone /\ tip[BranchOf(t)] # Gone
          /\ Mode # "branch" => TreeOf(t) \in trees
          /\ landing[t].at \in {"merge", "push"} => Strategy # "pr"

TypedFrame == LandTypeOK /\ LandFrame

\* Branches gain commits and lose none; so do those of the remote.
TipsGrow == \A r \in Refs : tip[r] # Gone => tip'[r] # Gone /\ tip[r] \subseteq tip'[r]
RemoteGrows ==
    \A r \in Refs : remoteTip[r] # Gone => remoteTip'[r] # Gone /\ remoteTip[r] \subseteq remoteTip'[r]

\* The row of one task changes, in its status and phase.
Moved(t, s, p) ==
    /\ landing' \in [Landers -> LandRows]
    /\ \A u \in Landers \ {t} : landing'[u] = landing[u]
    /\ landing'[t].status = s /\ landing'[t].at = p
    /\ landing'[t].base = landing[t].base /\ landing'[t].blind = landing[t].blind
    /\ landing'[t].commit = landing[t].commit

\* The branch, the tree and its head that the settings give a task are
\* branches of the repository. (effective_merge, branch_for, worktree_for)
LEMMA LayoutKinds ==
  ASSUME LandTypeOK
  PROVE  /\ Mode \in {"new", "shared", "branch"} /\ Strategy \in {"fast-forward", "merge", "pr"}
         /\ Trunk \in Refs
         /\ \A t \in Landers :
               /\ BranchOf(t) \in Refs \ {Trunk} /\ TreeOf(t) \in Refs
               /\ Mode # "branch" => TreeOf(t) = BranchOf(t) /\ HeadOf(TreeOf(t)) = BranchOf(t)
               /\ Mode = "branch" => TreeOf(t) = Trunk /\ HeadOf(TreeOf(t)) = mainHead
                                     /\ BranchOf(t) = t
               /\ Mode = "new" => TreeOf(t) = t
               /\ LandedOn(t) \in {BranchOf(t), Trunk} /\ LandedOn(t) \in Refs
               /\ Strategy = "pr" => LandedOn(t) = BranchOf(t)
               /\ Strategy # "pr" => LandedOn(t) = Trunk
BY LayoutsAssumption, LandersAssumption
   DEF LandTypeOK, Mode, Strategy, BranchOf, TreeOf, HeadOf, LandedOn, Refs

\* A step to the next phase and a block change the status and the phase of
\* one task and keep its baseline and its commit. (advance_to, block_task)
LEMMA RowMoves ==
  ASSUME landing \in [Landers -> LandRows], NEW t \in Landers, NEW s \in Statuses,
         NEW p \in LandPhases
  PROVE  /\ MovesTo(t, p) => Moved(t, landing[t].status, p)
         /\ BlocksLanding(t, s) => Moved(t, s, "none")
         /\ landing' = [landing EXCEPT ![t].status = s] => Moved(t, s, landing[t].at)
         /\ landing' = landing => Moved(t, landing[t].status, landing[t].at)
<1> DEFINE row == landing[t]
<1>1. row \in LandRows /\ \A u \in Landers : landing[u] \in LandRows
  OBVIOUS
<1>2. "none" \in LandPhases
  BY DEF LandPhases
<1>3. ASSUME NEW r \in LandRows, landing' = [landing EXCEPT ![t] = r],
             r.base = row.base, r.blind = row.blind, r.commit = row.commit
      PROVE  Moved(t, r.status, r.at)
  BY <1>1, <1>3 DEF Moved
<1>4. ASSUME MovesTo(t, p)
      PROVE  Moved(t, landing[t].status, p)
  <2> DEFINE r == [row EXCEPT !.at = p]
  <2>1. r \in LandRows /\ r.status = row.status /\ r.at = p /\ r.base = row.base
        /\ r.blind = row.blind /\ r.commit = row.commit
    BY <1>1 DEF LandRows
  <2>2. landing' = [landing EXCEPT ![t] = r]
    BY <1>4 DEF MovesTo
  <2> QED
    BY <1>3, <2>1, <2>2
<1>5. ASSUME BlocksLanding(t, s)
      PROVE  Moved(t, s, "none")
  <2> DEFINE r == [row EXCEPT !.status = s, !.at = "none"]
  <2>1. r \in LandRows /\ r.status = s /\ r.at = "none" /\ r.base = row.base
        /\ r.blind = row.blind /\ r.commit = row.commit
    BY <1>1, <1>2 DEF LandRows
  <2>2. landing' = [landing EXCEPT ![t] = r]
    BY <1>5 DEF BlocksLanding
  <2> QED
    BY <1>3, <2>1, <2>2
<1>6. ASSUME landing' = [landing EXCEPT ![t].status = s]
      PROVE  Moved(t, s, landing[t].at)
  <2> DEFINE r == [row EXCEPT !.status = s]
  <2>1. r \in LandRows /\ r.status = s /\ r.at = row.at /\ r.base = row.base
        /\ r.blind = row.blind /\ r.commit = row.commit
    BY <1>1 DEF LandRows
  <2>2. landing' = [landing EXCEPT ![t] = r]
    BY <1>6
  <2> QED
    BY <1>3, <2>1, <2>2
<1>7. landing' = landing => Moved(t, landing[t].status, landing[t].at)
  BY <1>1 DEF Moved
<1> QED
  BY <1>4, <1>5, <1>6, <1>7

\* The branch that the tree of a running task is on exists.
LEMMA HeadIsThere ==
  ASSUME TypedFrame, NEW t \in RunningLanders
  PROVE  /\ HeadOf(TreeOf(t)) \in Refs /\ tip[HeadOf(TreeOf(t))] \in SUBSET Units
         /\ tip[BranchOf(t)] \in SUBSET Units
         /\ mainHead \in Refs /\ tip[mainHead] \in SUBSET Units
         /\ Trunk \in Refs /\ tip[Trunk] \in SUBSET Units
         /\ t \in Landers
<1>1. t \in Landers
  BY DEF RunningLanders
<1>2. tip \in Branches /\ mainHead \in Refs \cup {Gone} /\ mainHead # Gone
  BY DEF TypedFrame, LandTypeOK, LandFrame, Branches
<1>3. tip[mainHead] # Gone /\ tip[Trunk] # Gone /\ tip[BranchOf(t)] # Gone
  BY <1>2 DEF TypedFrame, LandTypeOK, LandFrame
<1>4. CASE Mode = "branch"
  BY <1>1, <1>2, <1>3, <1>4, LayoutKinds DEF TypedFrame, Branches
<1>5. CASE Mode # "branch"
  BY <1>1, <1>2, <1>3, <1>5, LayoutKinds DEF TypedFrame, Branches
<1> QED
  BY <1>4, <1>5

\* A commit or a merge adds to one branch.
LEMMA BranchGains ==
  ASSUME tip \in Branches, NEW r \in Refs, tip[r] \in SUBSET Units, NEW works \in SUBSET Units,
         tip' = [tip EXCEPT ![r] = @ \cup works]
  PROVE  /\ tip' \in Branches /\ TipsGrow /\ tip'[r] = tip[r] \cup works
         /\ \A other \in Refs \ {r} : tip'[other] = tip[other]
         /\ tip[r] # Gone /\ tip'[r] # Gone
<1>1. tip[r] # Gone /\ tip[r] \cup works \in SUBSET Units /\ tip[r] \cup works # Gone
  BY GoneAssumption
<1> HIDE DEF Units
<1> QED
  BY <1>1 DEF Branches, TipsGrow

\* A push changes one branch of the remote, to what it has here.
LEMMA RemoteGains ==
  ASSUME LandTypeOK, NEW r \in Refs, PushSucceeds(r) \/ PushFails(r)
  PROVE  /\ remoteTip' \in Branches /\ RemoteGrows
         /\ PushSucceeds(r) /\ layout.remote => remoteTip'[r] = tip[r]
         /\ accidents' = accidents \/ (accidents' = accidents + 1 /\ accidents < MaxAccidents)
<1>1. tip \in Branches /\ remoteTip \in Branches
  BY DEF LandTypeOK, Branches
<1>2. accidents' = accidents \/ (accidents' = accidents + 1 /\ accidents < MaxAccidents)
  BY DEF PushSucceeds, PushFails, Accident
<1>3. CASE UNCHANGED remoteTip /\ ~(PushSucceeds(r) /\ layout.remote)
  BY <1>1, <1>2, <1>3 DEF RemoteGrows, Branches
<1>4. CASE layout.remote /\ PushAccepted(r) /\ remoteTip' = [remoteTip EXCEPT ![r] = tip[r]]
  <2>1. remoteTip' \in Branches /\ remoteTip'[r] = tip[r]
    BY <1>1, <1>4 DEF Branches
  <2>2. RemoteGrows
    BY <1>1, <1>4 DEF RemoteGrows, Branches, PushAccepted
  <2> QED
    BY <1>2, <2>1, <2>2
<1> QED
  BY <1>3, <1>4 DEF PushSucceeds, Pushes, PushFails

\* What is committed or lies in a tree is work that was made.
OnlyMade ==
    \A r \in Refs : (tip[r] # Gone => tip[r] \subseteq made) /\ dirty[r] \subseteq made

Has(branches, ref, work) == branches[ref] # Gone /\ work \in branches[ref]

\* Work in a tree stays there until it is committed to the branch the tree is on.
WorkMoves ==
    \A r \in Refs : \A work \in dirty[r] : work \in dirty'[r] \/ Has(tip', HeadOf(r), work)

EntersTrunk(s, p) ==
    /\ s = "running" /\ p = "merge" /\ mainHead # Gone /\ mainHead' = Trunk
    /\ UNCHANGED <<tip, dirty>>

\* A step that moves one task to a status and a phase, adds commits to
\* branches and leaves the trees alone.
StepsOn(t, s, p) ==
    /\ Moved(t, s, p) /\ landing[t].status # "done" /\ s # "done"
    /\ s = "running" => t \in RunningLanders
    /\ s = "empty" => DidNothing(t)
    /\ s = "running" /\ p \in {"merge", "push"} => Strategy # "pr"
    /\ UNCHANGED <<layout, epoch, trees>>
    /\ mainHead' = mainHead \/ EntersTrunk(s, p)
    /\ tip' \in Branches /\ TipsGrow /\ remoteTip' \in Branches /\ RemoteGrows
    /\ dirty' \in [Refs -> SUBSET Units] /\ WorkMoves
    /\ made' \subseteq Landers \X (0..epoch) /\ (OnlyMade => OnlyMade')
    /\ accidents' = accidents \/ (accidents' = accidents + 1 /\ accidents < MaxAccidents)
    /\ revives' \in 0..MaxRevives

\* Such a step keeps the frame, whatever task takes it.
LEMMA MovesInFrame ==
  ASSUME TypedFrame, NEW t \in Landers, NEW s \in Statuses, NEW p \in LandPhases,
         StepsOn(t, s, p)
  PROVE  TypedFrame'
<1>1. epoch \in Nat /\ accidents' \in 0..MaxAccidents /\ accidents <= accidents'
      /\ epoch <= accidents /\ epoch <= MaxAccidents
  BY LandBoundsAssumption DEF StepsOn, TypedFrame, LandTypeOK, LandFrame
<1>2. Mode' = Mode /\ Strategy' = Strategy
      /\ \A u : BranchOf(u)' = BranchOf(u) /\ TreeOf(u)' = TreeOf(u)
  BY DEF StepsOn, Mode, Strategy, BranchOf, TreeOf
<1>3. RunningLanders' \subseteq RunningLanders
  BY DEF StepsOn, RunningLanders, Moved
<1>4. mainHead' \in Refs \cup {Gone} /\ (mainHead' # Gone => tip'[Trunk] # Gone)
      /\ (mainHead # Gone => mainHead' # Gone)
  BY LandersAssumption DEF StepsOn, EntersTrunk, TypedFrame, LandTypeOK, LandFrame, TipsGrow, Refs
<1>5. LandTypeOK'
  <2>1. \A wt \in trees' \cup ({mainHead'} \ {Gone}) : tip'[wt] # Gone
    BY <1>4 DEF StepsOn, EntersTrunk, TypedFrame, LandTypeOK, TipsGrow
  <2>2. made' \subseteq Units
    BY <1>1, LandBoundsAssumption DEF StepsOn, Units
  <2> QED
    BY <1>1, <1>4, <2>1, <2>2
       DEF StepsOn, TypedFrame, LandTypeOK, Moved, LandRows, Statuses, Branches
<1>6. LandFrame'
  <2>1. /\ epoch' <= accidents' /\ made' \subseteq Landers \X (0..epoch')
        /\ mainHead' # Gone => tip'[Trunk] # Gone
        /\ Mode' # "branch" => mainHead' = Trunk
    BY <1>1, <1>2, <1>4 DEF StepsOn, EntersTrunk, TypedFrame, LandFrame, LandTypeOK
  <2>2. ASSUME NEW u \in RunningLanders'
        PROVE  /\ mainHead' # Gone /\ tip'[BranchOf(u)'] # Gone
               /\ Mode' # "branch" => TreeOf(u)' \in trees'
    <3>1. BranchOf(u) \in Refs
      BY <1>3, LayoutKinds DEF TypedFrame, RunningLanders
    <3> QED
      BY <1>2, <1>3, <1>4, <3>1 DEF StepsOn, TypedFrame, LandFrame, TipsGrow
  <2>3. ASSUME NEW u \in RunningLanders'
        PROVE  landing'[u].at \in {"merge", "push"} => Strategy' # "pr"
    BY <1>2, <1>3 DEF StepsOn, TypedFrame, LandFrame, RunningLanders, Moved
  <2> QED
    BY <2>1, <2>2, <2>3 DEF LandFrame
<1> QED
  BY <1>5, <1>6 DEF TypedFrame

\* A step that moves one task and touches no branch and no tree here.
Quiet(t, s, p) == StepsOn(t, s, p) /\ UNCHANGED <<tip, dirty, made>>

\* The values of the frame, one by one.
LEMMA Typings ==
  ASSUME TypedFrame
  PROVE  /\ landing \in [Landers -> LandRows] /\ tip \in Branches /\ remoteTip \in Branches
         /\ dirty \in [Refs -> SUBSET Units]
         /\ made \subseteq Landers \X (0..epoch) /\ made \subseteq Units
         /\ revives \in 0..MaxRevives /\ revives \in Nat
         /\ epoch \in Nat /\ accidents \in Nat /\ epoch <= accidents /\ accidents <= MaxAccidents
BY LandBoundsAssumption
   DEF TypedFrame, LandTypeOK, LandFrame, LandRows, Statuses, Branches

\* A step that moves one task on and leaves trees, branches and made work alone
\* is quiet. (a gate, a checkout, a push, a transition)
LEMMA QuietMove ==
  ASSUME TypedFrame, NEW t \in Landers, NEW s \in Statuses, NEW p \in LandPhases,
         Moved(t, s, p), landing[t].status # "done", s # "done", s = "running" => t \in RunningLanders,
         s = "empty" => DidNothing(t),
         s = "running" /\ p \in {"merge", "push"} => Strategy # "pr",
         UNCHANGED <<layout, epoch, trees, tip, dirty, made>>,
         mainHead' = mainHead \/ EntersTrunk(s, p),
         remoteTip' \in Branches, RemoteGrows,
         accidents' = accidents \/ (accidents' = accidents + 1 /\ accidents < MaxAccidents),
         revives' \in 0..MaxRevives
  PROVE  Quiet(t, s, p)
<1>1. tip' \in Branches /\ dirty' \in [Refs -> SUBSET Units] /\ made' \subseteq Landers \X (0..epoch)
  BY Typings
<1>2. TipsGrow /\ WorkMoves /\ (OnlyMade => OnlyMade')
  BY DEF TipsGrow, WorkMoves, OnlyMade
<1> QED
  BY <1>1, <1>2 DEF Quiet, StepsOn

\* What every step does that is not a claim, the agent's, a commit, a merge
\* or the record. (gate, push_with_retry, reclaim, revive)
LEMMA QuietSteps ==
  ASSUME TypedFrame, NEW t \in Landers
  PROVE  /\ GateBegins(t) => Quiet(t, "running", "gating")
         /\ \A b \in BOOLEAN : GateJudges(t, b) => Quiet(t, "running", "green") \/ Quiet(t, "blocked", "none")
         /\ \A b \in BOOLEAN : LoopLost(t, b) =>
                Quiet(t, "running", "working") \/ Quiet(t, "running", "gating") \/ Quiet(t, "ready", "none")
         /\ PushesBackup(t) => Quiet(t, "running", "land")
         /\ PushesForPr(t) => Quiet(t, "running", "record") \/ Quiet(t, "blocked", "none")
         /\ ChecksOutBase(t) => Quiet(t, "running", "merge")
         /\ PushesBase(t) => Quiet(t, "running", "record") \/ Quiet(t, "blocked", "none")
         /\ RevivesLanding(t) => Quiet(t, "ready", landing[t].at)
         /\ ProvisionFails(t) => Quiet(t, "blocked", "none")
<1> DEFINE Kin == UNCHANGED <<layout, epoch, trees, tip, dirty, made>>
           Fated == accidents' = accidents \/ (accidents' = accidents + 1 /\ accidents < MaxAccidents)
<1>1. landing \in [Landers -> LandRows] /\ landing[t].at \in LandPhases
      /\ remoteTip \in Branches /\ revives \in 0..MaxRevives /\ revives \in Nat
  BY Typings DEF LandRows
<1>2. {"ready", "running", "blocked", "empty", "done"} \subseteq Statuses
      /\ {"none", "working", "gating", "green", "backup", "land", "merge", "push", "record"}
             \subseteq LandPhases
  BY DEF Statuses, LandPhases
<1>3. BranchOf(t) \in Refs /\ Trunk \in Refs
  BY LayoutKinds DEF TypedFrame
<1>4. UNCHANGED remoteTip => remoteTip' \in Branches /\ RemoteGrows
  BY <1>1 DEF RemoteGrows
<1>5. \A p \in LandPhases : PhaseIs(t, p) =>
          t \in RunningLanders /\ landing[t].status = "running" /\ landing[t].at = p
  BY DEF PhaseIs, RunningLanders
<1>6. ASSUME NEW b \in BOOLEAN, GateJudges(t, b)
      PROVE  Quiet(t, "running", "green") \/ Quiet(t, "blocked", "none")
  <2>1. Moved(t, "running", "green") \/ Moved(t, "blocked", "none")
    BY <1>1, <1>2, <1>5, <1>6, RowMoves DEF GateJudges
  <2>2. Kin /\ UNCHANGED <<mainHead, revives, accidents, remoteTip>>
        /\ t \in RunningLanders /\ landing[t].status # "done"
    BY <1>2, <1>5, <1>6 DEF GateJudges, Same
  <2> QED
    BY <1>1, <1>2, <1>4, <2>1, <2>2, QuietMove
<1>7. ASSUME NEW b \in BOOLEAN, LoopLost(t, b)
      PROVE  Quiet(t, "running", "working") \/ Quiet(t, "running", "gating") \/ Quiet(t, "ready", "none")
  <2>1. t \in RunningLanders /\ landing[t].status = "running"
    BY <1>7 DEF LoopLost, RunningLanders
  <2>2. Moved(t, "running", "working") \/ Moved(t, "running", "gating") \/ Moved(t, "ready", "none")
    BY <1>1, <1>2, <1>7, <2>1, RowMoves DEF LoopLost, MovesTo, BlocksLanding
  <2>3. Kin /\ UNCHANGED <<mainHead, revives, remoteTip>> /\ Fated
    BY <1>7 DEF LoopLost, Same, Accident
  <2> QED
    BY <1>1, <1>2, <1>4, <2>1, <2>2, <2>3, QuietMove
<1>8. ASSUME PushesBackup(t)
      PROVE  Quiet(t, "running", "land")
  <2>1. Moved(t, "running", "land") /\ t \in RunningLanders /\ landing[t].status # "done"
    BY <1>1, <1>2, <1>5, <1>8, RowMoves DEF PushesBackup
  <2>2. remoteTip' \in Branches /\ RemoteGrows /\ Fated
    BY <1>3, <1>8, RemoteGains DEF PushesBackup, TypedFrame
  <2>3. Kin /\ UNCHANGED <<mainHead, revives>>
    BY <1>8 DEF PushesBackup, Same
  <2> QED
    BY <1>1, <1>2, <2>1, <2>2, <2>3, QuietMove
<1>9. ASSUME PushesForPr(t)
      PROVE  Quiet(t, "running", "record") \/ Quiet(t, "blocked", "none")
  <2>1. Moved(t, "running", "record") \/ Moved(t, "blocked", "none")
    BY <1>1, <1>2, <1>5, <1>9, RowMoves DEF PushesForPr, BlocksUnpushed
  <2>2. remoteTip' \in Branches /\ RemoteGrows /\ Fated
    BY <1>3, <1>9, RemoteGains DEF PushesForPr, TypedFrame
  <2>3. Kin /\ UNCHANGED <<mainHead, revives>> /\ t \in RunningLanders
        /\ landing[t].status # "done"
    BY <1>2, <1>5, <1>9 DEF PushesForPr, Same
  <2> QED
    BY <1>1, <1>2, <2>1, <2>2, <2>3, QuietMove
<1>10. ASSUME ChecksOutBase(t)
       PROVE  Quiet(t, "running", "merge")
  <2>1. Moved(t, "running", "merge") /\ t \in RunningLanders /\ Strategy # "pr"
        /\ landing[t].status # "done"
    BY <1>1, <1>2, <1>5, <1>10, RowMoves DEF ChecksOutBase
  <2>2. mainHead # Gone
    BY <2>1 DEF TypedFrame, LandFrame
  <2>3. Kin /\ UNCHANGED <<revives, remoteTip, accidents>> /\ mainHead' = Trunk
    BY <1>10 DEF ChecksOutBase, Same
  <2> QED
    BY <1>1, <1>2, <1>4, <2>1, <2>2, <2>3, QuietMove DEF EntersTrunk
<1>11. ASSUME PushesBase(t)
       PROVE  Quiet(t, "running", "record") \/ Quiet(t, "blocked", "none")
  <2>1. Moved(t, "running", "record") \/ Moved(t, "blocked", "none")
    BY <1>1, <1>2, <1>5, <1>11, RowMoves DEF PushesBase, BlocksUnpushed
  <2>2. remoteTip' \in Branches /\ RemoteGrows /\ Fated
    BY <1>3, <1>11, RemoteGains DEF PushesBase, TypedFrame
  <2>3. Kin /\ UNCHANGED <<mainHead, revives>> /\ t \in RunningLanders
        /\ landing[t].status # "done"
    BY <1>2, <1>5, <1>11 DEF PushesBase, Same
  <2> QED
    BY <1>1, <1>2, <2>1, <2>2, <2>3, QuietMove
<1>12. ASSUME RevivesLanding(t)
       PROVE  Quiet(t, "ready", landing[t].at)
  <2>1. Moved(t, "ready", landing[t].at) /\ landing[t].status # "done"
    BY <1>1, <1>2, <1>12, RowMoves DEF RevivesLanding
  <2>2. Kin /\ UNCHANGED <<mainHead, remoteTip, accidents>> /\ revives' \in 0..MaxRevives
    BY <1>1, <1>12, LandBoundsAssumption DEF RevivesLanding
  <2> QED
    BY <1>1, <1>2, <1>4, <2>1, <2>2, QuietMove
<1>13. ASSUME ProvisionFails(t)
       PROVE  Quiet(t, "blocked", "none")
  <2>1. Moved(t, "blocked", "none") /\ landing[t].status # "done"
    BY <1>1, <1>2, <1>13, RowMoves DEF ProvisionFails, MayClaim
  <2>2. Kin /\ UNCHANGED <<mainHead, remoteTip, accidents, revives>>
    BY <1>13 DEF ProvisionFails, Same
  <2> QED
    BY <1>1, <1>2, <1>4, <2>1, <2>2, QuietMove
<1>14. ASSUME GateBegins(t)
       PROVE  Quiet(t, "running", "gating")
  <2>1. Moved(t, "running", "gating") /\ t \in RunningLanders /\ landing[t].status # "done"
    BY <1>1, <1>2, <1>5, <1>14, RowMoves DEF GateBegins
  <2>2. Kin /\ UNCHANGED <<mainHead, revives, accidents, remoteTip>>
    BY <1>14 DEF GateBegins, Same
  <2> QED
    BY <1>1, <1>2, <1>4, <2>1, <2>2, QuietMove
<1> QED
  BY <1>6, <1>7, <1>8, <1>9, <1>10, <1>11, <1>12, <1>13, <1>14

\* An agent leaves its work in its tree, or commits it with what lies there.
LEMMA AgentStep ==
  ASSUME TypedFrame, NEW t \in Landers, NEW b \in BOOLEAN, AgentWorks(t, b)
  PROVE  /\ StepsOn(t, "running", "working") /\ UNCHANGED <<landing, mainHead, remoteTip>>
         /\ made' = made \cup {Unit(t)} /\ Unit(t) \notin made
         /\ landing[t].status = "running" /\ landing[t].at = "working"
         /\ Unit(t) \in dirty'[TreeOf(t)] \/ Has(tip', HeadOf(TreeOf(t)), Unit(t))
<1> DEFINE wt == TreeOf(t)
           branch == HeadOf(wt)
           works == dirty[wt] \cup {Unit(t)}
<1>1. t \in RunningLanders /\ landing[t].status = "running" /\ landing[t].at = "working"
  BY DEF AgentWorks, PhaseIs, RunningLanders
<1>2. wt \in Refs /\ branch \in Refs /\ tip[branch] \in SUBSET Units
  BY <1>1, HeadIsThere, LayoutKinds DEF TypedFrame
<1>3. Unit(t) \in Landers \X (0..epoch) /\ Unit(t) \in Units
  <2>1. epoch \in 0..epoch /\ epoch \in 0..MaxAccidents
    BY Typings, LandBoundsAssumption
  <2> QED
    BY <2>1 DEF Unit, Units
<1>4. UNCHANGED <<layout, epoch, trees, landing, mainHead, remoteTip, accidents, revives>>
      /\ made' = made \cup {Unit(t)} /\ Unit(t) \notin made
  BY DEF AgentWorks, Same
<1>5. Moved(t, "running", "working")
  <2>1. "working" \in LandPhases /\ "running" \in Statuses
    BY DEF LandPhases, Statuses
  <2> QED
    BY <1>1, <1>4, <2>1, RowMoves, Typings
<1>6. works \in SUBSET Units /\ dirty \in [Refs -> SUBSET Units] /\ tip \in Branches
  BY <1>2, <1>3, Typings
<1>7. /\ tip' \in Branches /\ TipsGrow /\ dirty' \in [Refs -> SUBSET Units] /\ WorkMoves
      /\ OnlyMade => OnlyMade'
      /\ Unit(t) \in dirty'[wt] \/ Has(tip', branch, Unit(t))
  <2> HIDE DEF wt, branch
  <2>1. CASE b
    <3>1. tip' = [tip EXCEPT ![branch] = (tip[branch] \cup dirty[wt]) \cup {Unit(t)}]
          /\ dirty' = [dirty EXCEPT ![wt] = {}]
      BY <2>1 DEF AgentWorks, wt, branch
    <3>2. tip' = [tip EXCEPT ![branch] = @ \cup works]
      <4>1. (tip[branch] \cup dirty[wt]) \cup {Unit(t)} = tip[branch] \cup works
        OBVIOUS
      <4> QED
        BY <3>1, <4>1
    <3> HIDE DEF works
    <3>3. tip' \in Branches /\ TipsGrow /\ tip'[branch] = tip[branch] \cup works /\ tip'[branch] # Gone
          /\ \A other \in Refs \ {branch} : tip'[other] = tip[other]
      BY <1>2, <1>6, <3>2, BranchGains
    <3>4. dirty' \in [Refs -> SUBSET Units] /\ dirty'[wt] = {}
          /\ \A other \in Refs \ {wt} : dirty'[other] = dirty[other]
      BY <1>2, <1>6, <3>1
    <3>5. Unit(t) \in works /\ dirty[wt] \subseteq works /\ works \subseteq dirty[wt] \cup {Unit(t)}
      BY DEF works
    <3>6. WorkMoves
      BY <3>3, <3>4, <3>5 DEF WorkMoves, Has, branch
    <3>7. ASSUME OnlyMade
          PROVE  OnlyMade'
      <4>1. works \subseteq made' /\ tip[branch] \subseteq made' /\ made \subseteq made'
        BY <1>2, <1>4, <3>3, <3>5, <3>7, GoneAssumption DEF OnlyMade
      <4>2. tip'[branch] \subseteq made'
        BY <3>3, <4>1
      <4> QED
        BY <3>3, <3>4, <3>7, <4>1, <4>2 DEF OnlyMade
    <3>8. Has(tip', branch, Unit(t))
      BY <3>3, <3>5 DEF Has
    <3> QED
      BY <3>3, <3>4, <3>6, <3>7, <3>8
  <2>2. CASE ~b
    <3>1. tip' = tip /\ dirty' = [dirty EXCEPT ![wt] = @ \cup {Unit(t)}]
      BY <2>2 DEF AgentWorks, wt
    <3>2. dirty' \in [Refs -> SUBSET Units] /\ dirty'[wt] = dirty[wt] \cup {Unit(t)}
          /\ \A other \in Refs \ {wt} : dirty'[other] = dirty[other]
      BY <1>2, <1>3, <1>6, <3>1
    <3>3. TipsGrow /\ WorkMoves
      BY <3>1, <3>2 DEF TipsGrow, WorkMoves
    <3>4. OnlyMade => OnlyMade'
      BY <1>4, <3>1, <3>2 DEF OnlyMade
    <3> QED
      BY <1>6, <3>1, <3>2, <3>3, <3>4
  <2> QED
    BY <2>1, <2>2
<1>8. made' \subseteq Landers \X (0..epoch)
  BY <1>3, <1>4, Typings
<1>9. RemoteGrows /\ remoteTip' \in Branches /\ revives' \in 0..MaxRevives
  BY <1>4, Typings DEF RemoteGrows
<1> QED
  BY <1>1, <1>4, <1>5, <1>7, <1>8, <1>9 DEF StepsOn

\* Landing commits what lies in the tree, unless it finds the task empty.
LEMMA CommitStep ==
  ASSUME TypedFrame, NEW t \in Landers, CommitsWorktree(t)
  PROVE  /\ landing[t].status = "running" /\ UNCHANGED <<mainHead, made, remoteTip>>
         /\ \/ DidNothing(t) /\ Quiet(t, "empty", "none")
            \/ /\ StepsOn(t, "running", "backup")
               /\ \A work \in dirty[TreeOf(t)] : Has(tip', HeadOf(TreeOf(t)), work)
<1> DEFINE wt == TreeOf(t)
           branch == HeadOf(wt)
<1>1. t \in RunningLanders /\ landing[t].status = "running"
  BY DEF CommitsWorktree, PhaseIs, RunningLanders
<1>2. wt \in Refs /\ branch \in Refs /\ tip[branch] \in SUBSET Units
  BY <1>1, HeadIsThere, LayoutKinds DEF TypedFrame
<1>3. UNCHANGED <<layout, epoch, trees, mainHead, remoteTip, accidents, revives, made>>
  BY DEF CommitsWorktree, Same
<1>4. {"running", "empty"} \subseteq Statuses /\ {"none", "backup"} \subseteq LandPhases
  BY DEF Statuses, LandPhases
<1>5. RemoteGrows /\ remoteTip' \in Branches /\ revives' \in 0..MaxRevives
      /\ dirty \in [Refs -> SUBSET Units] /\ tip \in Branches /\ made' \subseteq Landers \X (0..epoch)
      /\ landing \in [Landers -> LandRows]
  BY <1>3, Typings DEF RemoteGrows
<1>6. CASE DidNothing(t)
  <2>1. Moved(t, "empty", "none") /\ UNCHANGED <<tip, dirty>>
    BY <1>4, <1>5, <1>6, RowMoves DEF CommitsWorktree
  <2> QED
    BY <1>1, <1>3, <1>4, <1>5, <1>6, <2>1, QuietMove
<1>7. CASE ~DidNothing(t)
  <2> HIDE DEF wt, branch
  <2>1. /\ Moved(t, "running", "backup") /\ dirty' = [dirty EXCEPT ![wt] = {}]
        /\ tip' = [tip EXCEPT ![branch] = @ \cup dirty[wt]]
    BY <1>1, <1>4, <1>5, <1>7, RowMoves DEF CommitsWorktree, wt, branch
  <2>2. dirty[wt] \in SUBSET Units
    BY <1>2, <1>5
  <2>3. /\ tip' \in Branches /\ TipsGrow /\ tip'[branch] = tip[branch] \cup dirty[wt]
        /\ tip'[branch] # Gone /\ \A other \in Refs \ {branch} : tip'[other] = tip[other]
    BY <1>2, <1>5, <2>1, <2>2, BranchGains
  <2>4. dirty' \in [Refs -> SUBSET Units] /\ dirty'[wt] = {}
        /\ \A other \in Refs \ {wt} : dirty'[other] = dirty[other]
    BY <1>2, <1>5, <2>1
  <2>5. WorkMoves /\ \A work \in dirty[wt] : Has(tip', branch, work)
    BY <2>3, <2>4 DEF WorkMoves, Has, branch
  <2>6. ASSUME OnlyMade
        PROVE  OnlyMade'
    <3>1. tip[branch] \subseteq made' /\ dirty[wt] \subseteq made'
      BY <1>2, <1>3, <2>6, GoneAssumption DEF OnlyMade
    <3>2. tip'[branch] \subseteq made'
      BY <2>3, <3>1
    <3> QED
      BY <1>3, <2>3, <2>4, <2>6, <3>2 DEF OnlyMade
  <2>7. StepsOn(t, "running", "backup")
    BY <1>1, <1>3, <1>5, <2>1, <2>3, <2>4, <2>5, <2>6 DEF StepsOn
  <2> QED
    BY <1>1, <1>3, <2>5, <2>7 DEF wt, branch
<1> QED
  BY <1>6, <1>7

\* A merge adds the task's branch to the one the checkout is on. (merge_branch)
LEMMA MergeStep ==
  ASSUME TypedFrame, NEW t \in Landers, MergesBranch(t)
  PROVE  /\ landing[t].status = "running" /\ landing[t].at = "merge"
         /\ UNCHANGED <<mainHead, made, remoteTip, dirty>>
         /\ \/ Quiet(t, "blocked", "none")
            \/ /\ StepsOn(t, "running", "push") /\ tip'[mainHead] # Gone
               /\ tip'[mainHead] = tip[mainHead] \cup tip[BranchOf(t)]
<1>1. t \in RunningLanders /\ landing[t].status = "running" /\ landing[t].at = "merge"
      /\ Strategy # "pr"
  BY DEF MergesBranch, PhaseIs, RunningLanders, TypedFrame, LandFrame
<1>2. mainHead \in Refs /\ tip[mainHead] \in SUBSET Units /\ tip[BranchOf(t)] \in SUBSET Units
  BY <1>1, HeadIsThere
<1>3. /\ UNCHANGED <<layout, epoch, trees, mainHead, remoteTip, revives, made, dirty>>
      /\ accidents' = accidents \/ (accidents' = accidents + 1 /\ accidents < MaxAccidents)
  BY DEF MergesBranch, Same, Accident
<1>4. {"running", "blocked"} \subseteq Statuses /\ {"none", "push"} \subseteq LandPhases
  BY DEF Statuses, LandPhases
<1>5. RemoteGrows /\ remoteTip' \in Branches /\ revives' \in 0..MaxRevives
      /\ dirty \in [Refs -> SUBSET Units] /\ tip \in Branches /\ made' \subseteq Landers \X (0..epoch)
      /\ landing \in [Landers -> LandRows]
  BY <1>3, Typings DEF RemoteGrows
<1>6. CASE BlocksLanding(t, "blocked") /\ UNCHANGED tip
  <2>1. Moved(t, "blocked", "none")
    BY <1>4, <1>5, <1>6, RowMoves
  <2> QED
    BY <1>1, <1>3, <1>4, <1>5, <1>6, <2>1, QuietMove
<1>7. CASE MovesTo(t, "push") /\ tip' = [tip EXCEPT ![mainHead] = @ \cup tip[BranchOf(t)]]
  <2>1. Moved(t, "running", "push")
    BY <1>1, <1>4, <1>5, <1>7, RowMoves
  <2>2. /\ tip' \in Branches /\ TipsGrow /\ tip'[mainHead] = tip[mainHead] \cup tip[BranchOf(t)]
        /\ tip'[mainHead] # Gone /\ \A other \in Refs \ {mainHead} : tip'[other] = tip[other]
    BY <1>2, <1>5, <1>7, BranchGains
  <2>3. dirty' \in [Refs -> SUBSET Units] /\ WorkMoves
    BY <1>3, <1>5 DEF WorkMoves
  <2>4. tip[mainHead] # Gone /\ tip[BranchOf(t)] # Gone /\ BranchOf(t) \in Refs
    BY <1>1, <1>2, LayoutKinds DEF TypedFrame, LandTypeOK, LandFrame
  <2>5. ASSUME OnlyMade
        PROVE  OnlyMade'
    <3>1. tip[mainHead] \subseteq made' /\ tip[BranchOf(t)] \subseteq made'
      BY <1>2, <1>3, <2>4, <2>5 DEF OnlyMade
    <3>2. tip'[mainHead] \subseteq made'
      BY <2>2, <3>1
    <3> QED
      BY <1>3, <2>2, <2>5, <3>2 DEF OnlyMade
  <2>6. StepsOn(t, "running", "push")
    BY <1>1, <1>3, <1>5, <2>1, <2>2, <2>3, <2>5 DEF StepsOn
  <2> QED
    BY <1>1, <1>3, <2>2, <2>6
<1> QED
  BY <1>6, <1>7 DEF MergesBranch

\* A claim gives its task a branch and a tree, or the checkout: no other
\* branch changes, and the branch is new or keeps its commits unless the
\* checkout is reset to it. (create_worktree, checkout_branch)
LEMMA ClaimStep ==
  ASSUME TypedFrame, NEW t \in Landers, NEW b \in BOOLEAN, ClaimsTree(t, b)
  PROVE  /\ landing[t].status = "ready" /\ UNCHANGED <<layout, epoch, revives, remoteTip, dirty>>
         /\ landing' \in [Landers -> LandRows] /\ \A u \in Landers \ {t} : landing'[u] = landing[u]
         /\ landing'[t].status = "running" /\ landing'[t].at = "working"
         /\ landing'[t].commit = landing[t].commit
         /\ landing'[t].blind = (landing[t].blind \/ ~b)
         /\ landing'[t].base = Baseline(Mode # "branch" /\ TreeOf(t) \in trees, landing[t].base,
                                        IF b THEN tip'[BranchOf(t)] ELSE Gone)
         /\ tip' \in Branches /\ tip'[BranchOf(t)] \in SUBSET Units
         /\ \A r \in Refs \ {BranchOf(t)} : tip'[r] = tip[r]
         /\ tip'[BranchOf(t)] = tip[BranchOf(t)] \/ tip'[BranchOf(t)] = tip[Trunk]
         /\ Mode # "branch" => /\ TipsGrow /\ UNCHANGED <<made, mainHead>>
                               /\ trees' = trees \cup {TreeOf(t)}
         /\ Mode = "branch" => /\ mainHead' = t /\ UNCHANGED trees /\ tip'[t] = tip[Trunk]
                               /\ made' = {u \in made : u # Unit(t) \/ u \in dirty[Trunk] \cup tip[Trunk]}
         /\ mainHead # Gone /\ tip[Trunk] \in SUBSET Units
         /\ accidents' = accidents \/ (accidents' = accidents + 1 /\ accidents < MaxAccidents)
<1>1. /\ landing[t].status = "ready" /\ UNCHANGED <<layout, epoch, revives, remoteTip, dirty>>
      /\ mainHead # Gone /\ Provisions(t)
      /\ accidents' = accidents \/ (accidents' = accidents + 1 /\ accidents < MaxAccidents)
  BY DEF ClaimsTree, MayClaim, Same, Accident
<1>2. tip \in Branches /\ landing \in [Landers -> LandRows] /\ Trunk \in Refs /\ BranchOf(t) \in Refs
      /\ BranchOf(t) # Trunk
  BY Typings, LayoutKinds DEF TypedFrame
<1>3. tip[Trunk] \in SUBSET Units
  BY <1>1, <1>2 DEF TypedFrame, LandFrame, Branches
<1>4. /\ tip' \in Branches /\ \A r \in Refs \ {BranchOf(t)} : tip'[r] = tip[r]
      /\ tip'[BranchOf(t)] = tip[BranchOf(t)] \/ tip'[BranchOf(t)] = tip[Trunk]
      /\ tip'[BranchOf(t)] \in SUBSET Units
      /\ Mode # "branch" => /\ TipsGrow /\ UNCHANGED <<made, mainHead>>
                            /\ trees' = trees \cup {TreeOf(t)}
      /\ Mode = "branch" => /\ mainHead' = t /\ UNCHANGED trees /\ tip'[t] = tip[Trunk]
                            /\ made' = {u \in made : u # Unit(t) \/ u \in dirty[Trunk] \cup tip[Trunk]}
  <2>1. CASE Mode = "branch"
    <3>1. BranchOf(t) = t
      BY <2>1, LayoutKinds DEF TypedFrame
    <3>2. /\ tip' = [tip EXCEPT ![t] = tip[Trunk]] /\ mainHead' = t /\ UNCHANGED trees
          /\ made' = {u \in made : u # Unit(t) \/ u \in dirty[Trunk] \cup tip[Trunk]}
      BY <1>1, <2>1 DEF Provisions
    <3> QED
      BY <1>2, <1>3, <2>1, <3>1, <3>2 DEF Branches
  <2>2. CASE Mode # "branch" /\ TreeOf(t) \notin trees /\ tip[BranchOf(t)] = Gone
    <3>1. tip' = [tip EXCEPT ![BranchOf(t)] = tip[Trunk]]
          /\ trees' = trees \cup {TreeOf(t)} /\ UNCHANGED <<mainHead, made>>
      BY <1>1, <2>2 DEF Provisions
    <3> QED
      BY <1>2, <1>3, <2>2, <3>1 DEF Branches, TipsGrow
  <2>3. CASE Mode # "branch" /\ ~(TreeOf(t) \notin trees /\ tip[BranchOf(t)] = Gone)
    <3>1. tip' = tip /\ trees' = trees \cup {TreeOf(t)} /\ UNCHANGED <<mainHead, made>>
      BY <1>1, <2>3 DEF Provisions
    <3>2. TreeOf(t) = BranchOf(t)
      BY <2>3, LayoutKinds DEF TypedFrame
    <3>3. tip[BranchOf(t)] # Gone
      BY <2>3, <3>2 DEF TypedFrame, LandTypeOK
    <3> QED
      BY <1>2, <2>3, <3>1, <3>3 DEF Branches, TipsGrow
  <2> QED
    BY <2>1, <2>2, <2>3
<1>5. /\ landing' \in [Landers -> LandRows] /\ \A u \in Landers \ {t} : landing'[u] = landing[u]
      /\ landing'[t].status = "running" /\ landing'[t].at = "working"
      /\ landing'[t].commit = landing[t].commit
      /\ landing'[t].blind = (landing[t].blind \/ ~b)
      /\ landing'[t].base = Baseline(Mode # "branch" /\ TreeOf(t) \in trees, landing[t].base,
                                     IF b THEN tip'[BranchOf(t)] ELSE Gone)
  <2> DEFINE base == Baseline(Mode # "branch" /\ TreeOf(t) \in trees, landing[t].base,
                              IF b THEN tip'[BranchOf(t)] ELSE Gone)
             row == [landing[t] EXCEPT !.status = "running", !.at = "working", !.base = base,
                                       !.blind = landing[t].blind \/ ~b]
  <2>1. landing' = [landing EXCEPT ![t] = row]
    BY DEF ClaimsTree
  <2>2. landing[t] \in LandRows
    BY <1>2
  <2>3. base \in (SUBSET Units) \cup {Gone}
    BY <1>4, <2>2 DEF Baseline, LandRows
  <2> HIDE DEF base
  <2>4. "running" \in Statuses /\ "working" \in LandPhases
    BY DEF Statuses, LandPhases
  <2>5. row \in LandRows /\ row.status = "running" /\ row.at = "working" /\ row.base = base
        /\ row.commit = landing[t].commit
    BY <2>2, <2>3, <2>4 DEF LandRows
  <2>6. row.blind = (landing[t].blind \/ ~b)
    BY <2>2, Zenon DEF LandRows
  <2> HIDE DEF row
  <2>7. landing' \in [Landers -> LandRows] /\ landing'[t] = row
        /\ \A u \in Landers \ {t} : landing'[u] = landing[u]
    BY <1>2, <2>1, <2>5
  <2> QED
    BY <2>5, <2>6, <2>7, Zenon DEF base
<1> QED
  BY <1>1, <1>3, <1>4, <1>5

\* The record of done reads the head; a tree of the task's own goes with what
\* lies in it. (finish_done, teardown)
LEMMA RecordStep ==
  ASSUME TypedFrame, NEW t \in Landers, RecordsDone(t)
  PROVE  /\ landing[t].status = "running" /\ landing[t].at = "record"
         /\ UNCHANGED <<layout, epoch, revives, tip, remoteTip, mainHead, made, accidents>>
         /\ landing' \in [Landers -> LandRows] /\ \A u \in Landers \ {t} : landing'[u] = landing[u]
         /\ landing'[t].status = "done" /\ landing'[t].base = landing[t].base
         /\ landing'[t].blind = landing[t].blind
         /\ landing'[t].commit = IF Strategy = "pr" THEN tip[BranchOf(t)] ELSE tip[mainHead]
         /\ dirty' \in [Refs -> SUBSET Units] /\ \A r \in Refs \ {t} : dirty'[r] = dirty[r]
         /\ \A r \in Refs : dirty'[r] \subseteq dirty[r]
         /\ trees' \subseteq trees /\ trees \ {t} \subseteq trees'
         /\ Mode # "new" => UNCHANGED <<trees, dirty>>
<1>1. /\ landing[t].status = "running" /\ landing[t].at = "record"
      /\ UNCHANGED <<layout, epoch, revives, tip, remoteTip, mainHead, made, accidents>>
      /\ t \in RunningLanders
  BY DEF RecordsDone, PhaseIs, Same, RunningLanders
<1>2. landing \in [Landers -> LandRows] /\ dirty \in [Refs -> SUBSET Units] /\ t \in Refs
  BY Typings DEF Refs
<1>3. /\ dirty' \in [Refs -> SUBSET Units] /\ \A r \in Refs \ {t} : dirty'[r] = dirty[r]
      /\ \A r \in Refs : dirty'[r] \subseteq dirty[r]
      /\ trees' \subseteq trees /\ trees \ {t} \subseteq trees'
      /\ Mode # "new" => UNCHANGED <<trees, dirty>>
  <2>1. CASE Mode = "new"
    <3>1. TreeOf(t) = t
      BY <2>1, LayoutKinds DEF TypedFrame
    <3>2. trees' = trees \ {t} /\ dirty' = [dirty EXCEPT ![t] = {}]
      BY <2>1, <3>1 DEF RecordsDone
    <3> QED
      BY <1>2, <2>1, <3>2
  <2>2. CASE Mode # "new"
    BY <1>2, <2>2 DEF RecordsDone
  <2> QED
    BY <2>1, <2>2
<1>4. /\ landing' \in [Landers -> LandRows] /\ \A u \in Landers \ {t} : landing'[u] = landing[u]
      /\ landing'[t].status = "done" /\ landing'[t].at = "none"
      /\ landing'[t].base = landing[t].base /\ landing'[t].blind = landing[t].blind
      /\ landing'[t].commit = IF Strategy = "pr" THEN tip[BranchOf(t)] ELSE tip[mainHead]
  <2> DEFINE landed == IF Strategy = "pr" THEN tip[BranchOf(t)] ELSE tip[mainHead]
             row == [landing[t] EXCEPT !.status = "done", !.at = "none", !.commit = landed]
  <2>1. landed \in SUBSET Units
    BY <1>1, HeadIsThere
  <2>2. landing' = [landing EXCEPT ![t] = row]
    BY DEF RecordsDone
  <2> HIDE DEF landed
  <2>3. landing[t] \in LandRows /\ "done" \in Statuses /\ "none" \in LandPhases
    BY <1>2 DEF Statuses, LandPhases
  <2>4. row \in LandRows /\ row.status = "done" /\ row.at = "none" /\ row.commit = landed
        /\ row.base = landing[t].base /\ row.blind = landing[t].blind
    BY <2>1, <2>3 DEF LandRows
  <2> QED
    BY <1>2, <2>2, <2>4 DEF landed
<1> QED
  BY <1>1, <1>3, <1>4

\* A hard reset makes every task ready in a new epoch and only ever deletes
\* branches. (restart_workflow)
LEMMA ResetStep ==
  ASSUME TypedFrame, NEW b \in BOOLEAN, NEW c \in BOOLEAN, HardReset(b, c)
  PROVE  /\ UNCHANGED <<layout, made, revives>> /\ epoch' = epoch + 1 /\ accidents' = accidents + 1
         /\ accidents < MaxAccidents /\ trees' = {}
         /\ landing' \in [Landers -> LandRows]
         /\ \A u \in Landers : /\ landing'[u].status = "ready" /\ landing'[u].base = landing[u].base
                               /\ landing'[u].blind = landing[u].blind
         /\ tip' \in Branches /\ remoteTip' \in Branches /\ dirty' \in [Refs -> SUBSET Units]
         /\ \A r \in Refs : (tip'[r] = tip[r] \/ tip'[r] = Gone) /\ dirty'[r] \subseteq dirty[r]
         /\ Mode # "branch" => UNCHANGED mainHead /\ tip'[Trunk] = tip[Trunk]
         /\ mainHead' # Gone => Mode # "branch" /\ mainHead # Gone
<1>1. /\ UNCHANGED <<layout, made, revives>> /\ epoch' = epoch + 1 /\ accidents' = accidents + 1
      /\ accidents < MaxAccidents /\ trees' = {}
      /\ landing' = [t \in Landers |-> [landing[t] EXCEPT
                      !.status = "ready", !.at = "none", !.commit = Gone]]
  BY DEF HardReset, Accident, TreesAfterReset
<1>2. landing \in [Landers -> LandRows] /\ tip \in Branches /\ remoteTip \in Branches
      /\ dirty \in [Refs -> SUBSET Units] /\ "ready" \in Statuses /\ "none" \in LandPhases
  BY Typings DEF Statuses, LandPhases
<1>3. ASSUME NEW u \in Landers
      PROVE  /\ landing'[u] \in LandRows /\ landing'[u].status = "ready"
             /\ landing'[u].base = landing[u].base /\ landing'[u].blind = landing[u].blind
  <2>1. landing[u] \in LandRows
    BY <1>2
  <2>2. landing'[u] = [landing[u] EXCEPT !.status = "ready", !.at = "none", !.commit = Gone]
    BY <1>1
  <2> QED
    BY <1>2, <2>1, <2>2 DEF LandRows
<1>4. landing' \in [Landers -> LandRows]
  BY <1>1, <1>3
<1>5. /\ tip' \in Branches /\ remoteTip' \in Branches /\ dirty' \in [Refs -> SUBSET Units]
      /\ \A r \in Refs : (tip'[r] = tip[r] \/ tip'[r] = Gone) /\ dirty'[r] \subseteq dirty[r]
      /\ Mode # "branch" => UNCHANGED mainHead /\ tip'[Trunk] = tip[Trunk]
      /\ mainHead' # Gone => Mode # "branch" /\ mainHead # Gone
  <2>1. CASE Mode = "branch"
    <3>1. /\ tip' = [ref \in Refs |-> Gone] /\ mainHead' = Gone
          /\ dirty' = [wt \in Refs |-> {}] /\ UNCHANGED remoteTip
      BY <2>1 DEF HardReset
    <3> QED
      BY <1>2, <2>1, <3>1 DEF Branches
  <2>2. CASE Mode # "branch"
    <3>1. /\ dirty' = [wt \in Refs |-> IF wt = Trunk THEN dirty[wt] ELSE {}]
          /\ tip' = [ref \in Refs |-> IF ref = Trunk \/ b THEN tip[ref] ELSE Gone]
          /\ remoteTip' = [ref \in Refs |-> IF ref = Trunk \/ c THEN remoteTip[ref] ELSE Gone]
          /\ UNCHANGED mainHead
      BY <2>2 DEF HardReset
    <3>2. Trunk \in Refs
      BY DEF Refs
    <3>3. tip' \in Branches /\ remoteTip' \in Branches
      BY <1>2, <3>1 DEF Branches
    <3>4. dirty' \in [Refs -> SUBSET Units]
      BY <1>2, <3>1
    <3> QED
      BY <1>2, <2>2, <3>1, <3>2, <3>3, <3>4
  <2> QED
    BY <2>1, <2>2
<1> QED
  BY <1>1, <1>3, <1>4, <1>5

\* The order of the phases, and what each of them has done to the branches.
SavedPhases == {"backup", "land", "merge", "push", "record"}

Progress(t, s, p) ==
    s = "running" =>
        /\ p = "backup" => \A work \in dirty[TreeOf(t)] : Has(tip', HeadOf(TreeOf(t)), work)
        /\ p \in SavedPhases \ {"backup"} => landing[t].at \in SavedPhases
        /\ p = "merge" => mainHead' = Trunk
        /\ p = "push" => /\ landing[t].at = "merge" /\ mainHead' = mainHead
                         /\ tip'[mainHead] # Gone
                         /\ tip[mainHead] \cup tip[BranchOf(t)] \subseteq tip'[mainHead]
        /\ p = "record" =>
              /\ Strategy = "pr" \/ landing[t].at = "push"
              /\ layout.remote => remoteTip'[LandedOn(t)] = tip[LandedOn(t)]

\* Once a push that counts has succeeded, the remote has the branch the work
\* landed on. (push_with_retry before finish_done)
LEMMA PushesThatCount ==
  ASSUME TypedFrame, NEW t \in Landers, PushesForPr(t) \/ PushesBase(t),
         landing'[t].status = "running"
  PROVE  /\ landing[t].at \in SavedPhases /\ (Strategy = "pr" \/ landing[t].at = "push")
         /\ layout.remote => remoteTip'[LandedOn(t)] = tip[LandedOn(t)]
<1>1. "blocked" \in Statuses /\ "none" \in LandPhases
  BY DEF Statuses, LandPhases
<1>2. ~BlocksUnpushed(t)
  BY <1>1, RowMoves, Typings DEF BlocksUnpushed, Moved
<1>3. CASE PushesForPr(t)
  <2>1. Strategy = "pr" /\ landing[t].at = "land" /\ PushSucceeds(BranchOf(t))
    BY <1>2, <1>3 DEF PushesForPr, PhaseIs
  <2>2. LandedOn(t) = BranchOf(t) /\ BranchOf(t) \in Refs
    BY <2>1, LayoutKinds DEF TypedFrame
  <2> QED
    BY <2>1, <2>2, RemoteGains DEF SavedPhases, TypedFrame
<1>4. CASE PushesBase(t)
  <2>1. landing[t].status = "running" /\ landing[t].at = "push" /\ PushSucceeds(Trunk)
    BY <1>2, <1>4 DEF PushesBase, PhaseIs
  <2>2. Strategy # "pr"
    BY <2>1 DEF TypedFrame, LandFrame, RunningLanders
  <2>3. LandedOn(t) = Trunk /\ Trunk \in Refs
    BY <2>2, LayoutKinds DEF TypedFrame
  <2> QED
    BY <2>1, <2>3, RemoteGains DEF SavedPhases, TypedFrame
<1> QED
  BY <1>3, <1>4

\* The steps of the system, told apart by what they may change.
LEMMA LandCases ==
  ASSUME TypedFrame, LandNext
  PROVE  \/ \E t \in Landers, s \in Statuses, p \in LandPhases :
                StepsOn(t, s, p) /\ Progress(t, s, p) /\ UNCHANGED made
         \/ \E t \in Landers, b \in BOOLEAN : AgentWorks(t, b)
         \/ \E t \in Landers, b \in BOOLEAN : ClaimsTree(t, b)
         \/ \E t \in Landers : RecordsDone(t)
         \/ \E b, c \in BOOLEAN : HardReset(b, c)
<1>1. {"ready", "running", "blocked", "empty", "done"} \subseteq Statuses
      /\ {"none", "working", "gating", "green", "backup", "land", "merge", "push", "record"}
             \subseteq LandPhases
  BY DEF Statuses, LandPhases
<1>2. \A t \in Landers : landing[t].at \in LandPhases
  BY Typings DEF LandRows
<1>3. ASSUME NEW t \in Landers,
             LandSteps(t) \/ RevivesLanding(t) \/ ProvisionFails(t)
             \/ \E b \in BOOLEAN : GateJudges(t, b) \/ LoopLost(t, b)
      PROVE  RecordsDone(t)
             \/ \E s \in Statuses, p \in LandPhases :
                    StepsOn(t, s, p) /\ Progress(t, s, p) /\ UNCHANGED made
  <2>1. CASE GateBegins(t) \/ \E b \in BOOLEAN : GateJudges(t, b) \/ LoopLost(t, b)
    <3>1. \E s \in Statuses, p \in {"none", "working", "gating", "green"} : Quiet(t, s, p)
      BY <1>1, <2>1, QuietSteps
    <3>2. \A s, p : p \in {"none", "working", "gating", "green"} => Progress(t, s, p)
      BY DEF Progress, SavedPhases
    <3> QED
      BY <1>1, <3>1, <3>2 DEF Quiet
  <2>2. CASE PushesBackup(t)
    <3>1. Quiet(t, "running", "land")
      BY <2>2, QuietSteps
    <3>2. Progress(t, "running", "land")
      BY <2>2 DEF Progress, SavedPhases, PushesBackup, PhaseIs
    <3> QED
      BY <1>1, <3>1, <3>2 DEF Quiet
  <2>3. CASE ChecksOutBase(t)
    <3>1. Quiet(t, "running", "merge")
      BY <2>3, QuietSteps
    <3>2. Progress(t, "running", "merge")
      BY <2>3 DEF Progress, SavedPhases, ChecksOutBase, PhaseIs
    <3> QED
      BY <1>1, <3>1, <3>2 DEF Quiet
  <2>4. CASE PushesForPr(t) \/ PushesBase(t)
    <3>1. Quiet(t, "running", "record") \/ Quiet(t, "blocked", "none")
      BY <2>4, QuietSteps
    <3>2. Quiet(t, "running", "record") => Progress(t, "running", "record")
      BY <2>4, PushesThatCount DEF Progress, Quiet, StepsOn, Moved
    <3>3. Progress(t, "blocked", "none")
      BY DEF Progress
    <3> QED
      BY <1>1, <3>1, <3>2, <3>3 DEF Quiet
  <2>5. CASE RevivesLanding(t) \/ ProvisionFails(t)
    <3>1. Quiet(t, "ready", landing[t].at) \/ Quiet(t, "blocked", "none")
      BY <2>5, QuietSteps
    <3>2. \A p : Progress(t, "ready", p) /\ Progress(t, "blocked", p)
      BY DEF Progress
    <3> QED
      BY <1>1, <1>2, <3>1, <3>2 DEF Quiet
  <2>6. CASE CommitsWorktree(t)
    <3>1. Progress(t, "empty", "none")
      BY DEF Progress
    <3>2. (\A work \in dirty[TreeOf(t)] : Has(tip', HeadOf(TreeOf(t)), work)) =>
              Progress(t, "running", "backup")
      BY DEF Progress
    <3> QED
      BY <1>1, <2>6, <3>1, <3>2, CommitStep DEF Quiet
  <2>7. CASE MergesBranch(t)
    <3>1. Progress(t, "blocked", "none")
      BY DEF Progress
    <3>2. StepsOn(t, "running", "push") => Progress(t, "running", "push")
      BY <2>7, MergeStep DEF Progress, SavedPhases, Quiet, StepsOn, Moved
    <3> QED
      BY <1>1, <2>7, <3>1, <3>2, MergeStep DEF Quiet
  <2> QED
    BY <1>3, <2>1, <2>2, <2>3, <2>4, <2>5, <2>6, <2>7 DEF LandSteps
<1> QED
  BY <1>3 DEF LandNext

\* The frame is kept by every step, for every setting, branch mode with many
\* slots included.
LEMMA FrameKept ==
  ASSUME TypedFrame, [LandNext]_landVars
  PROVE  TypedFrame'
<1>1. CASE UNCHANGED landVars
  BY <1>1 DEF landVars, TypedFrame, LandTypeOK, LandFrame, RunningLanders, Mode, Strategy,
              BranchOf, TreeOf
<1>2. CASE \E t \in Landers, s \in Statuses, p \in LandPhases : StepsOn(t, s, p)
  BY <1>2, MovesInFrame
<1>3. ASSUME NEW t \in Landers, NEW b \in BOOLEAN, AgentWorks(t, b)
      PROVE  TypedFrame'
  <2>1. StepsOn(t, "running", "working") /\ "running" \in Statuses /\ "working" \in LandPhases
    BY <1>3, AgentStep DEF Statuses, LandPhases
  <2> QED
    BY <2>1, MovesInFrame
<1>4. ASSUME NEW t \in Landers, NEW b \in BOOLEAN, ClaimsTree(t, b)
      PROVE  TypedFrame'
  <2>1. /\ UNCHANGED <<layout, epoch, revives, remoteTip, dirty>>
        /\ landing' \in [Landers -> LandRows] /\ \A u \in Landers \ {t} : landing'[u] = landing[u]
        /\ landing'[t].status = "running" /\ landing'[t].at = "working"
        /\ tip' \in Branches /\ tip'[BranchOf(t)] \in SUBSET Units
        /\ \A r \in Refs \ {BranchOf(t)} : tip'[r] = tip[r]
        /\ Mode # "branch" => /\ UNCHANGED <<made, mainHead>> /\ trees' = trees \cup {TreeOf(t)}
        /\ Mode = "branch" => mainHead' = t /\ UNCHANGED trees /\ made' \subseteq made
        /\ mainHead # Gone /\ tip[Trunk] \in SUBSET Units
        /\ accidents' = accidents \/ (accidents' = accidents + 1 /\ accidents < MaxAccidents)
    BY <1>4, ClaimStep
  <2>2. Mode' = Mode /\ Strategy' = Strategy
        /\ \A u : BranchOf(u)' = BranchOf(u) /\ TreeOf(u)' = TreeOf(u)
    BY <2>1 DEF Mode, Strategy, BranchOf, TreeOf
  <2>3. /\ Trunk \in Refs /\ t \in Refs /\ t # Gone /\ TreeOf(t) \in Refs
        /\ \A u \in Landers : BranchOf(u) \in Refs \ {Trunk}
        /\ Mode # "branch" => TreeOf(t) = BranchOf(t)
        /\ Mode = "branch" => BranchOf(t) = t
    BY LayoutKinds, LandersAssumption DEF TypedFrame, Refs
  <2>4. tip'[BranchOf(t)] # Gone /\ tip'[Trunk] = tip[Trunk] /\ tip[Trunk] # Gone
    BY <2>1, <2>3, GoneAssumption
  <2>5. \A r \in Refs : tip[r] # Gone => tip'[r] # Gone
    BY <2>1, <2>4
  <2>6. made' \subseteq Landers \X (0..epoch') /\ made' \subseteq Units
        /\ epoch' <= accidents' /\ accidents' \in 0..MaxAccidents /\ epoch' \in 0..MaxAccidents
        /\ revives' \in 0..MaxRevives
    BY <2>1, Typings, LandBoundsAssumption
  <2>7. LandTypeOK'
    <3>1. layout' \in Layouts /\ mainHead' \in Refs \cup {Gone} /\ trees' \subseteq Refs \ {Trunk}
      BY <2>1, <2>3 DEF TypedFrame, LandTypeOK
    <3>2. \A wt \in trees' \cup ({mainHead'} \ {Gone}) : tip'[wt] # Gone
      BY <2>1, <2>3, <2>4, <2>5 DEF TypedFrame, LandTypeOK
    <3>3. dirty' \in [Refs -> SUBSET Units] /\ remoteTip' \in Branches
      BY <2>1, Typings
    <3> QED
      BY <2>1, <2>6, <3>1, <3>2, <3>3 DEF LandTypeOK, LandRows, Statuses, Branches
  <2>8. LandFrame'
    <3>1. Mode' # "branch" => mainHead' = Trunk
      BY <2>1, <2>2 DEF TypedFrame, LandFrame
    <3>2. ASSUME NEW u \in RunningLanders'
          PROVE  /\ mainHead' # Gone /\ tip'[BranchOf(u)'] # Gone
                 /\ Mode' # "branch" => TreeOf(u)' \in trees'
                 /\ landing'[u].at \in {"merge", "push"} => Strategy' # "pr"
      <4>1. mainHead' # Gone
        BY <2>1, <2>3
      <4>2. CASE u = t
        BY <2>1, <2>2, <2>4, <4>1, <4>2
      <4>3. CASE u # t
        <5>1. u \in RunningLanders /\ u \in Landers /\ landing'[u] = landing[u]
          BY <2>1, <4>3 DEF RunningLanders
        <5> QED
          BY <2>1, <2>2, <2>3, <2>5, <4>1, <5>1 DEF TypedFrame, LandFrame
      <4> QED
        BY <4>2, <4>3
    <3> QED
      BY <2>4, <2>6, <3>1, <3>2 DEF LandFrame
  <2> QED
    BY <2>7, <2>8 DEF TypedFrame
<1>5. ASSUME NEW t \in Landers, RecordsDone(t)
      PROVE  TypedFrame'
  <2>1. /\ landing[t].status = "running"
        /\ UNCHANGED <<layout, epoch, revives, tip, remoteTip, mainHead, made, accidents>>
        /\ landing' \in [Landers -> LandRows] /\ \A u \in Landers \ {t} : landing'[u] = landing[u]
        /\ landing'[t].status = "done" /\ dirty' \in [Refs -> SUBSET Units]
        /\ trees' \subseteq trees /\ trees \ {t} \subseteq trees'
        /\ Mode # "new" => UNCHANGED <<trees, dirty>>
    BY <1>5, RecordStep
  <2>2. Mode' = Mode /\ Strategy' = Strategy
        /\ \A u : BranchOf(u)' = BranchOf(u) /\ TreeOf(u)' = TreeOf(u)
    BY <2>1 DEF Mode, Strategy, BranchOf, TreeOf
  <2>3. LandTypeOK'
    BY <2>1 DEF TypedFrame, LandTypeOK, LandRows, Statuses
  <2>4. ASSUME NEW u \in RunningLanders'
        PROVE  /\ mainHead' # Gone /\ tip'[BranchOf(u)'] # Gone
               /\ Mode' # "branch" => TreeOf(u)' \in trees'
               /\ landing'[u].at \in {"merge", "push"} => Strategy' # "pr"
    <3>1. u # t /\ u \in RunningLanders /\ u \in Landers /\ landing'[u] = landing[u]
      BY <2>1 DEF RunningLanders
    <3>2. Mode = "new" => TreeOf(u) = u
      BY <3>1, LayoutKinds DEF TypedFrame
    <3> QED
      BY <2>1, <2>2, <3>1, <3>2 DEF TypedFrame, LandFrame
  <2>5. LandFrame'
    BY <2>1, <2>2, <2>4 DEF TypedFrame, LandFrame
  <2> QED
    BY <2>3, <2>5 DEF TypedFrame
<1>6. ASSUME NEW b \in BOOLEAN, NEW c \in BOOLEAN, HardReset(b, c)
      PROVE  TypedFrame'
  <2>1. /\ UNCHANGED <<layout, made, revives>> /\ epoch' = epoch + 1 /\ accidents' = accidents + 1
        /\ accidents < MaxAccidents /\ trees' = {}
        /\ landing' \in [Landers -> LandRows]
        /\ \A u \in Landers : landing'[u].status = "ready"
        /\ tip' \in Branches /\ remoteTip' \in Branches /\ dirty' \in [Refs -> SUBSET Units]
        /\ Mode # "branch" => UNCHANGED mainHead /\ tip'[Trunk] = tip[Trunk]
        /\ mainHead' # Gone => Mode # "branch" /\ mainHead # Gone
    BY <1>6, ResetStep
  <2>2. Mode' = Mode
    BY <2>1 DEF Mode
  <2>3. /\ made' \subseteq Landers \X (0..epoch') /\ made' \subseteq Units
        /\ epoch' <= accidents' /\ accidents' \in 0..MaxAccidents /\ epoch' \in 0..MaxAccidents
        /\ revives' \in 0..MaxRevives
    BY <2>1, Typings, LandBoundsAssumption
  <2>4. mainHead' # Gone => mainHead' = Trunk /\ tip'[Trunk] # Gone
    BY <2>1 DEF TypedFrame, LandFrame
  <2>5. LandTypeOK'
    <3>1. mainHead' \in Refs \cup {Gone} /\ layout' \in Layouts
      BY <2>1, <2>4 DEF TypedFrame, LandTypeOK, Refs
    <3> QED
      BY <2>1, <2>3, <2>4, <3>1 DEF LandTypeOK, LandRows, Statuses, Branches
  <2>6. RunningLanders' = {}
    BY <2>1 DEF RunningLanders
  <2>7. Mode' # "branch" => mainHead' = Trunk
    BY <2>1, <2>2 DEF TypedFrame, LandFrame
  <2>8. LandFrame'
    BY <2>3, <2>4, <2>6, <2>7 DEF LandFrame
  <2> QED
    BY <2>5, <2>8 DEF TypedFrame
<1> QED
  BY <1>1, <1>2, <1>3, <1>4, <1>5, <1>6, LandCases

-----------------------------------------------------------------------------
(***************************************************************************)
(* What is called empty is empty. The baseline of a claim that could read  *)
(* the head stands for the work there was before; while the tree is kept,  *)
(* so is the baseline, and the task's own work lies outside it.            *)
(***************************************************************************)
WorkKept(t) ==
    Unit(t) \in made /\ landing[t].status # "done" =>
        Unit(t) \in dirty[TreeOf(t)] \/ Has(tip, BranchOf(t), Unit(t))

BaseKnown(t) ==
    /\ landing[t].base # Gone => landing[t].base \subseteq made
    /\ ~landing[t].blind /\ landing[t].status = "running" => landing[t].base # Gone
    /\ ~landing[t].blind /\ Unit(t) \in made /\ landing[t].status # "done" =>
          landing[t].base # Gone /\ Unit(t) \notin landing[t].base /\ TreeOf(t) \in trees

FoundEmpty(t) ==
    landing[t].status = "empty" /\ ~landing[t].blind => Unit(t) \notin made

EmptyParts == OnlyMade /\ \A t \in Landers : WorkKept(t) /\ BaseKnown(t) /\ FoundEmpty(t)

EmptyInv == TypedFrame /\ (Mode # "branch" => EmptyParts)

\* Nothing is lost of what lies in a tree or on a task's branch when another
\* step takes its turn.
LEMMA WorkIsCarried ==
  ASSUME TypedFrame, Mode # "branch", NEW t \in Landers, NEW s, NEW p, StepsOn(t, s, p),
         NEW u \in Landers, WorkKept(u), Unit(u) \in made, landing[u].status # "done"
  PROVE  Unit(u) \in dirty'[TreeOf(u)] \/ Has(tip', BranchOf(u), Unit(u))
<1>1. BranchOf(u) \in Refs /\ TreeOf(u) = BranchOf(u) /\ HeadOf(TreeOf(u)) = BranchOf(u)
  BY LayoutKinds DEF TypedFrame
<1> QED
  BY <1>1 DEF WorkKept, StepsOn, WorkMoves, TipsGrow, Has

\* The settings do not change under a workflow's tasks.
LEMMA SameSettings ==
  ASSUME layout' = layout
  PROVE  /\ Mode' = Mode /\ Strategy' = Strategy
         /\ \A u : BranchOf(u)' = BranchOf(u) /\ TreeOf(u)' = TreeOf(u) /\ LandedOn(u)' = LandedOn(u)
BY DEF Mode, Strategy, BranchOf, TreeOf, LandedOn

\* A step that produces no work keeps every baseline clear of its task's work.
LEMMA EmptyKeptByMoves ==
  ASSUME TypedFrame, Mode # "branch", EmptyParts, NEW t \in Landers, NEW s \in Statuses,
         NEW p \in LandPhases, StepsOn(t, s, p), UNCHANGED made
  PROVE  EmptyParts'
<1>1. UNCHANGED <<layout, epoch, trees>> /\ OnlyMade' /\ landing[t].status # "done"
      /\ (s = "running" => t \in RunningLanders) /\ (s = "empty" => DidNothing(t))
  BY DEF StepsOn, EmptyParts
<1>2. \A u : BranchOf(u)' = BranchOf(u) /\ TreeOf(u)' = TreeOf(u) /\ Unit(u)' = Unit(u)
  BY <1>1, SameSettings DEF Unit
<1>3. /\ \A u \in Landers : landing'[u].base = landing[u].base /\ landing'[u].blind = landing[u].blind
      /\ \A u \in Landers \ {t} : landing'[u].status = landing[u].status
      /\ landing'[t].status = s
  BY DEF StepsOn, Moved
<1>4. s = "running" => landing[t].status = "running"
  BY <1>1 DEF RunningLanders
<1>5. ASSUME NEW u \in Landers
      PROVE  WorkKept(u)' /\ BaseKnown(u)' /\ FoundEmpty(u)'
  <2>1. WorkKept(u) /\ BaseKnown(u) /\ FoundEmpty(u)
    BY DEF EmptyParts
  <2>2. WorkKept(u)'
    BY <1>1, <1>2, <1>3, <2>1, WorkIsCarried DEF WorkKept
  <2>3. BaseKnown(u)'
    BY <1>1, <1>2, <1>3, <1>4, <2>1 DEF BaseKnown
  <2>4. FoundEmpty(u)'
    <3>1. ASSUME u = t, s = "empty", ~landing[t].blind, Unit(t) \in made
          PROVE  FALSE
      <4>1. landing[t].base # Gone /\ Unit(t) \notin landing[t].base
        BY <1>1, <2>1, <3>1 DEF BaseKnown
      <4>2. dirty[TreeOf(t)] = {} /\ landing[t].base = tip[HeadOf(TreeOf(t))]
        BY <1>1, <3>1, <4>1 DEF DidNothing, HeadAdvanced
      <4>3. HeadOf(TreeOf(t)) = BranchOf(t)
        BY LayoutKinds DEF TypedFrame
      <4> QED
        BY <1>1, <2>1, <3>1, <4>1, <4>2, <4>3 DEF WorkKept, Has
    <3> QED
      BY <1>2, <1>3, <2>1, <3>1 DEF FoundEmpty
  <2> QED
    BY <2>2, <2>3, <2>4
<1> QED
  BY <1>1, <1>5 DEF EmptyParts

\* The agent's work is outside the baseline its task was claimed with.
LEMMA EmptyKeptByAgents ==
  ASSUME TypedFrame, Mode # "branch", EmptyParts, NEW t \in Landers, NEW b \in BOOLEAN,
         AgentWorks(t, b)
  PROVE  EmptyParts'
<1>1. /\ StepsOn(t, "running", "working") /\ UNCHANGED landing /\ landing[t].status = "running"
      /\ made' = made \cup {Unit(t)} /\ Unit(t) \notin made
      /\ Unit(t) \in dirty'[TreeOf(t)] \/ Has(tip', HeadOf(TreeOf(t)), Unit(t))
  BY AgentStep
<1>2. UNCHANGED <<layout, epoch, trees>> /\ OnlyMade'
  BY <1>1 DEF StepsOn, EmptyParts
<1>3. \A u : BranchOf(u)' = BranchOf(u) /\ TreeOf(u)' = TreeOf(u) /\ Unit(u)' = Unit(u)
  BY <1>2, SameSettings DEF Unit
<1>4. ASSUME NEW u \in Landers
      PROVE  WorkKept(u)' /\ BaseKnown(u)' /\ FoundEmpty(u)'
  <2>1. WorkKept(u) /\ BaseKnown(u) /\ FoundEmpty(u)
    BY DEF EmptyParts
  <2>2. CASE u = t
    <3>1. WorkKept(t)'
      BY <1>1, <1>3, LayoutKinds DEF WorkKept, TypedFrame
    <3>2. TreeOf(t) \in trees
      BY <1>1 DEF TypedFrame, LandFrame, RunningLanders
    <3>3. BaseKnown(t)'
      BY <1>1, <1>2, <1>3, <2>1, <2>2, <3>2 DEF BaseKnown
    <3>4. FoundEmpty(t)'
      BY <1>1 DEF FoundEmpty
    <3> QED
      BY <2>2, <3>1, <3>3, <3>4
  <2>3. CASE u # t
    <3>1. Unit(u) \in made' => Unit(u) \in made
      BY <1>1, <2>3 DEF Unit
    <3>2. WorkKept(u)'
      BY <1>1, <1>3, <2>1, <3>1, WorkIsCarried DEF WorkKept
    <3>3. BaseKnown(u)' /\ FoundEmpty(u)'
      BY <1>1, <1>2, <1>3, <2>1, <3>1 DEF BaseKnown, FoundEmpty
    <3> QED
      BY <3>2, <3>3
  <2> QED
    BY <2>2, <2>3
<1> QED
  BY <1>2, <1>4 DEF EmptyParts

\* A claim into a tree that is kept keeps the baseline with it; into a new
\* one it takes the head. (resolve_base_commit)
LEMMA EmptyKeptByClaims ==
  ASSUME TypedFrame, Mode # "branch", EmptyParts, NEW t \in Landers, NEW b \in BOOLEAN,
         ClaimsTree(t, b)
  PROVE  EmptyParts'
<1>1. /\ UNCHANGED <<layout, epoch, dirty, made>>
      /\ landing[t].status = "ready" /\ \A u \in Landers \ {t} : landing'[u] = landing[u]
      /\ landing'[t].status = "running" /\ landing'[t].blind = (landing[t].blind \/ ~b)
      /\ landing'[t].base = Baseline(Mode # "branch" /\ TreeOf(t) \in trees, landing[t].base,
                                     IF b THEN tip'[BranchOf(t)] ELSE Gone)
      /\ tip'[BranchOf(t)] \in SUBSET Units
      /\ \A r \in Refs \ {BranchOf(t)} : tip'[r] = tip[r]
      /\ tip'[BranchOf(t)] = tip[BranchOf(t)] \/ tip'[BranchOf(t)] = tip[Trunk]
      /\ TipsGrow /\ trees' = trees \cup {TreeOf(t)} /\ tip[Trunk] \in SUBSET Units
  BY ClaimStep
<1>2. \A u : BranchOf(u)' = BranchOf(u) /\ TreeOf(u)' = TreeOf(u) /\ Unit(u)' = Unit(u)
  BY <1>1, SameSettings DEF Unit
<1>3. \A u \in Landers : BranchOf(u) \in Refs /\ Trunk \in Refs
  BY LayoutKinds DEF TypedFrame
<1>4. OnlyMade /\ \A u \in Landers : WorkKept(u) /\ BaseKnown(u) /\ FoundEmpty(u)
  BY DEF EmptyParts
<1>5. tip'[BranchOf(t)] \subseteq made /\ tip'[BranchOf(t)] # Gone
  BY <1>1, <1>3, <1>4, GoneAssumption DEF OnlyMade
<1>6. OnlyMade'
  BY <1>1, <1>4, <1>5 DEF OnlyMade
<1>7. ASSUME NEW u \in Landers
      PROVE  WorkKept(u)' /\ BaseKnown(u)' /\ FoundEmpty(u)'
  <2>1. WorkKept(u)'
    BY <1>1, <1>2, <1>3, <1>4 DEF WorkKept, TipsGrow, Has
  <2>2. CASE u # t
    BY <1>1, <1>2, <1>4, <2>1, <2>2 DEF BaseKnown, FoundEmpty
  <2>3. CASE u = t
    <3>1. landing'[t].base # Gone => landing'[t].base \subseteq made
      BY <1>1, <1>4, <1>5 DEF Baseline, BaseKnown
    <3>2. ASSUME ~landing'[t].blind
          PROVE  /\ landing'[t].base # Gone
                 /\ Unit(t) \in made => Unit(t) \notin landing'[t].base
      <4>1. b /\ ~landing[t].blind
        BY <1>1, <3>2
      <4>2. landing'[t].base # Gone
        BY <1>1, <1>5, <4>1 DEF Baseline
      <4>3. Unit(t) \in made => landing'[t].base = landing[t].base
        BY <1>1, <1>4, <4>1 DEF Baseline, BaseKnown
      <4> QED
        BY <1>1, <1>4, <4>1, <4>2, <4>3 DEF BaseKnown
    <3>3. BaseKnown(t)'
      BY <1>1, <1>2, <3>1, <3>2 DEF BaseKnown
    <3>4. FoundEmpty(t)'
      BY <1>1 DEF FoundEmpty
    <3> QED
      BY <2>1, <2>3, <3>3, <3>4
  <2> QED
    BY <2>1, <2>2, <2>3
<1> QED
  BY <1>6, <1>7 DEF EmptyParts

\* The record of done takes away the tree of no other task; a hard reset
\* leaves no work that counts as the tasks'.
LEMMA EmptyKeptAtTheEnd ==
  ASSUME TypedFrame, Mode # "branch", EmptyParts,
         (\E t \in Landers : RecordsDone(t)) \/ (\E b, c \in BOOLEAN : HardReset(b, c))
  PROVE  EmptyParts'
<1>1. OnlyMade /\ \A u \in Landers : WorkKept(u) /\ BaseKnown(u) /\ FoundEmpty(u)
  BY DEF EmptyParts
<1>2. ASSUME NEW t \in Landers, RecordsDone(t)
      PROVE  EmptyParts'
  <2>1. /\ UNCHANGED <<layout, epoch, tip, made>>
        /\ \A u \in Landers \ {t} : landing'[u] = landing[u]
        /\ landing'[t].status = "done" /\ landing'[t].base = landing[t].base
        /\ \A r \in Refs \ {t} : dirty'[r] = dirty[r]
        /\ \A r \in Refs : dirty'[r] \subseteq dirty[r]
        /\ trees \ {t} \subseteq trees' /\ (Mode # "new" => UNCHANGED <<trees, dirty>>)
    BY <1>2, RecordStep
  <2>2. \A u : BranchOf(u)' = BranchOf(u) /\ TreeOf(u)' = TreeOf(u) /\ Unit(u)' = Unit(u)
    BY <2>1, SameSettings DEF Unit
  <2>3. OnlyMade'
    BY <1>1, <2>1 DEF OnlyMade
  <2>4. ASSUME NEW u \in Landers
        PROVE  WorkKept(u)' /\ BaseKnown(u)' /\ FoundEmpty(u)'
    <3>1. CASE u = t
      BY <1>1, <2>1, <3>1 DEF WorkKept, BaseKnown, FoundEmpty
    <3>2. CASE u # t
      <4>1. TreeOf(u) \in Refs /\ (Mode = "new" => TreeOf(u) # t)
        BY <3>2, LayoutKinds DEF TypedFrame
      <4>2. dirty'[TreeOf(u)] = dirty[TreeOf(u)] /\ (TreeOf(u) \in trees => TreeOf(u) \in trees')
        BY <2>1, <4>1
      <4> QED
        BY <1>1, <2>1, <2>2, <3>2, <4>2 DEF WorkKept, BaseKnown, FoundEmpty, Has
    <3> QED
      BY <3>1, <3>2
  <2> QED
    BY <2>3, <2>4 DEF EmptyParts
<1>3. ASSUME NEW b \in BOOLEAN, NEW c \in BOOLEAN, HardReset(b, c)
      PROVE  EmptyParts'
  <2>1. /\ UNCHANGED <<layout, made>> /\ epoch' = epoch + 1
        /\ \A u \in Landers : landing'[u].status = "ready" /\ landing'[u].base = landing[u].base
        /\ \A r \in Refs : (tip'[r] = tip[r] \/ tip'[r] = Gone) /\ dirty'[r] \subseteq dirty[r]
    BY <1>3, ResetStep
  <2>2. \A u \in Landers : Unit(u)' \notin made'
    <3>1. epoch + 1 \notin 0..epoch /\ made \subseteq Landers \X (0..epoch)
      BY Typings
    <3> QED
      BY <2>1, <3>1 DEF Unit
  <2>3. OnlyMade'
    BY <1>1, <2>1 DEF OnlyMade
  <2>4. \A u \in Landers : WorkKept(u)' /\ BaseKnown(u)' /\ FoundEmpty(u)'
    BY <1>1, <2>1, <2>2 DEF WorkKept, BaseKnown, FoundEmpty
  <2> QED
    BY <2>3, <2>4 DEF EmptyParts
<1> QED
  BY <1>2, <1>3

\* Nothing there is yet is out of its frame.
LEMMA FrameAtFirst ==
  ASSUME LandInit
  PROVE  TypedFrame /\ OnlyMade /\ made = {}
         /\ \A t \in Landers : landing[t].status = "ready" /\ landing[t].base = Gone
<1>1. /\ layout \in Layouts /\ landing = [t \in Landers |-> Untouched]
      /\ tip = [ref \in Refs |-> IF ref = Trunk THEN {} ELSE Gone]
      /\ remoteTip = [ref \in Refs |-> IF ref = Trunk THEN {} ELSE Gone]
      /\ trees = {} /\ dirty = [wt \in Refs |-> {}] /\ mainHead = Trunk /\ made = {}
      /\ epoch = 0 /\ accidents = 0 /\ revives = 0
  BY DEF LandInit
<1>2. Trunk \in Refs
  BY DEF Refs
<1>3. tip \in Branches /\ remoteTip \in Branches /\ dirty \in [Refs -> SUBSET Units]
      /\ tip[Trunk] = {} /\ tip[Trunk] # Gone /\ \A r \in Refs : tip[r] # Gone => tip[r] = {}
  BY <1>1, <1>2, GoneAssumption DEF Branches
<1>4. Untouched \in LandRows /\ Untouched.status = "ready" /\ Untouched.base = Gone
  BY DEF Untouched, LandRows, Statuses, LandPhases
<1>5. landing \in [Landers -> LandRows]
      /\ \A t \in Landers : landing[t].status = "ready" /\ landing[t].base = Gone
  BY <1>1, <1>4
<1>6. epoch \in 0..MaxAccidents /\ accidents \in 0..MaxAccidents /\ revives \in 0..MaxRevives
      /\ epoch <= accidents
  BY <1>1, LandBoundsAssumption
<1>7. LandTypeOK
  BY <1>1, <1>2, <1>3, <1>5, <1>6 DEF LandTypeOK, LandRows, Statuses, Branches
<1>8. RunningLanders = {}
  BY <1>5 DEF RunningLanders
<1>9. LandFrame
  BY <1>1, <1>3, <1>6, <1>8 DEF LandFrame
<1>10. OnlyMade
  BY <1>1, <1>3 DEF OnlyMade
<1> QED
  BY <1>1, <1>5, <1>7, <1>9, <1>10 DEF TypedFrame

\* The values of the landing's variables, whatever the settings, the number
\* of tasks that share a checkout and the accidents.
THEOREM LandingInType == LandSpec => []LandTypeOK
<1>1. LandInit => TypedFrame
  BY FrameAtFirst
<1>2. TypedFrame /\ [LandNext]_landVars => TypedFrame'
  BY FrameKept
<1>3. TypedFrame => LandTypeOK
  BY DEF TypedFrame
<1> QED
  BY <1>1, <1>2, <1>3, PTL DEF LandSpec

\* A task found empty in a tree that is kept between attempts has produced
\* nothing, for every number of tasks, attempts and accidents, and for every
\* setting: however often its attempts died, the baseline it is compared with
\* is older than its work. (resolve_base_commit, commit_worktree)
THEOREM EmptyMeansEmpty == LandSpec => []NotFalselyEmpty
<1>1. LandInit => EmptyInv
  <2>1. ASSUME LandInit
        PROVE  EmptyParts
    BY <2>1, FrameAtFirst DEF EmptyParts, WorkKept, BaseKnown, FoundEmpty
  <2> QED
    BY <2>1, FrameAtFirst DEF EmptyInv
<1>2. EmptyInv /\ [LandNext]_landVars => EmptyInv'
  <2> SUFFICES ASSUME EmptyInv, [LandNext]_landVars PROVE EmptyInv'
    OBVIOUS
  <2>1. TypedFrame /\ TypedFrame'
    BY FrameKept DEF EmptyInv
  <2>2. layout' = layout
    <3>1. CASE UNCHANGED landVars
      BY <3>1 DEF landVars
    <3>2. CASE LandNext
      BY <2>1, <3>2, LandCases, AgentStep, ClaimStep, RecordStep, ResetStep DEF StepsOn
    <3> QED
      BY <3>1, <3>2
  <2>3. Mode' = Mode
    BY <2>2, SameSettings
  <2>4. ASSUME Mode # "branch"
        PROVE  EmptyParts'
    <3>1. EmptyParts
      BY <2>4 DEF EmptyInv
    <3>2. CASE UNCHANGED landVars
      BY <3>1, <3>2 DEF landVars, EmptyParts, OnlyMade, WorkKept, BaseKnown, FoundEmpty, Unit,
                        BranchOf, TreeOf, Mode, Has
    <3>3. CASE LandNext
      BY <2>1, <2>4, <3>1, <3>3, LandCases, EmptyKeptByMoves, EmptyKeptByAgents,
         EmptyKeptByClaims, EmptyKeptAtTheEnd
    <3> QED
      BY <3>2, <3>3
  <2> QED
    BY <2>1, <2>3, <2>4 DEF EmptyInv
<1>3. EmptyInv => NotFalselyEmpty
  BY DEF EmptyInv, EmptyParts, FoundEmpty, NotFalselyEmpty
<1> QED
  BY <1>1, <1>2, <1>3, PTL DEF LandSpec

-----------------------------------------------------------------------------
(***************************************************************************)
(* Done has landed. Tasks that work in the repository's checkout have it   *)
(* one after the other: one slot. The shared setting alone does not see to *)
(* it, as it counts the tasks at work and not those at their gate or       *)
(* landing.                                                                *)
(***************************************************************************)
OneInTheCheckout ==
    \A l \in Layouts : ~l.worktrees \/ l.mode = "branch" => l.slots = 1

\* No two tasks are at work in the checkout at this moment.
OneAtATime == Mode = "branch" => \A t, u \in RunningLanders : t = u

\* Whoever works in the checkout is alone there, and it is on the task's
\* branch or, from the merge on, on base.
Alone ==
    /\ \A t, u \in RunningLanders : t = u
    /\ \A t \in RunningLanders :
          /\ mainHead \in {t, Trunk}
          /\ Strategy = "pr" => mainHead = t
          /\ landing[t].at \in {"merge", "push"} => mainHead = Trunk
          /\ landing[t].at = "record" => mainHead = Trunk \/ Strategy = "pr"

Committed(t) == Has(tip, BranchOf(t), Unit(t)) \/ Has(tip, HeadOf(TreeOf(t)), Unit(t))
Beyond(t, phases) == landing[t].status = "done" \/ (t \in RunningLanders /\ landing[t].at \in phases)

\* Where a task's work is, from the tree it was made in to the commit that
\* is recorded.
InReach(t) ==
    landing[t].status # "done" /\ (Mode # "branch" \/ t \in RunningLanders) =>
        Unit(t) \in dirty[TreeOf(t)] \/ Committed(t)
IsSaved(t) == t \in RunningLanders /\ landing[t].at \in SavedPhases => Committed(t)
IsOnBase(t) == Beyond(t, {"push", "record"}) => Has(tip, LandedOn(t), Unit(t))
IsPushed(t) == Beyond(t, {"record"}) /\ layout.remote => Has(remoteTip, LandedOn(t), Unit(t))
IsRecorded(t) == landing[t].status = "done" => Unit(t) \in landing[t].commit

WorkIsSafe(t) ==
    Unit(t) \in made => InReach(t) /\ IsSaved(t) /\ IsOnBase(t) /\ IsPushed(t) /\ IsRecorded(t)

DoneInv == TypedFrame /\ (Mode = "branch" => Alone) /\ \A t \in Landers : WorkIsSafe(t)

\* While the branches gain commits and the checkout stays, committed work
\* stays committed.
LEMMA CommitsStay ==
  ASSUME TypedFrame, NEW t \in Landers, NEW s, NEW p, StepsOn(t, s, p), NEW u \in Landers
  PROVE  /\ Unit(u)' = Unit(u) /\ Mode' = Mode /\ Strategy' = Strategy
         /\ BranchOf(u)' = BranchOf(u) /\ TreeOf(u)' = TreeOf(u) /\ LandedOn(u)' = LandedOn(u)
         /\ Has(tip, LandedOn(u), Unit(u)) => Has(tip, LandedOn(u), Unit(u))'
         /\ Has(remoteTip, LandedOn(u), Unit(u)) => Has(remoteTip, LandedOn(u), Unit(u))'
         /\ Mode # "branch" \/ (mainHead # Gone /\ (mainHead' = mainHead \/ mainHead = BranchOf(u))) =>
               /\ Committed(u) => Committed(u)'
               /\ Unit(u) \in dirty[TreeOf(u)] => Unit(u) \in dirty'[TreeOf(u)] \/ Committed(u)'
<1>1. UNCHANGED <<layout, epoch>> /\ TipsGrow /\ RemoteGrows /\ WorkMoves
      /\ (mainHead' = mainHead \/ UNCHANGED <<tip, dirty>>)
  BY DEF StepsOn, EntersTrunk
<1>2. Unit(u)' = Unit(u) /\ Mode' = Mode /\ Strategy' = Strategy
      /\ BranchOf(u)' = BranchOf(u) /\ TreeOf(u)' = TreeOf(u) /\ LandedOn(u)' = LandedOn(u)
  BY <1>1, SameSettings DEF Unit
<1>3. /\ BranchOf(u) \in Refs /\ TreeOf(u) \in Refs /\ LandedOn(u) \in Refs
      /\ Mode # "branch" => TreeOf(u) = BranchOf(u) /\ BranchOf(u) # Trunk
      /\ Mode = "branch" => TreeOf(u) = Trunk /\ HeadOf(TreeOf(u)) = mainHead
  BY LayoutKinds DEF TypedFrame
<1>4. /\ Has(tip, LandedOn(u), Unit(u)) => Has(tip, LandedOn(u), Unit(u))'
      /\ Has(remoteTip, LandedOn(u), Unit(u)) => Has(remoteTip, LandedOn(u), Unit(u))'
      /\ Has(tip, BranchOf(u), Unit(u)) => Has(tip, BranchOf(u), Unit(u))'
  BY <1>1, <1>2, <1>3 DEF Has, TipsGrow, RemoteGrows
<1>5. ASSUME Mode # "branch" \/ (mainHead # Gone /\ mainHead' = mainHead)
      PROVE  /\ Committed(u) => Committed(u)'
             /\ Unit(u) \in dirty[TreeOf(u)] => Unit(u) \in dirty'[TreeOf(u)] \/ Committed(u)'
  <2>1. HeadOf(TreeOf(u))' = HeadOf(TreeOf(u))
    BY <1>2, <1>3, <1>5 DEF HeadOf
  <2>2. HeadOf(TreeOf(u)) \in Refs
    BY <1>3, <1>5 DEF HeadOf, TypedFrame, LandTypeOK
  <2> QED
    BY <1>1, <1>2, <1>3, <1>4, <2>1, <2>2 DEF Committed, Has, TipsGrow, WorkMoves
<1>6. ASSUME mainHead' # mainHead, Mode = "branch", mainHead = BranchOf(u)
      PROVE  /\ Committed(u) => Committed(u)'
             /\ Unit(u) \in dirty[TreeOf(u)] => Unit(u) \in dirty'[TreeOf(u)] \/ Committed(u)'
  BY <1>1, <1>2, <1>3, <1>4, <1>6 DEF Committed
<1> QED
  BY <1>2, <1>4, <1>5, <1>6

\* A move of one task: its own work is committed before it lands, on base
\* before the push that counts, on the remote before the record. The work of
\* the others stays where it is.
LEMMA DoneKeptByMoves ==
  ASSUME DoneInv, NEW t \in Landers, NEW s \in Statuses, NEW p \in LandPhases,
         StepsOn(t, s, p), Progress(t, s, p), UNCHANGED made
  PROVE  (Mode = "branch" => Alone)' /\ \A u \in Landers : WorkIsSafe(u)'
<1>1. /\ TypedFrame /\ (Mode = "branch" => Alone) /\ \A u \in Landers : WorkIsSafe(u)
  BY DEF DoneInv
<1>2. /\ UNCHANGED <<layout, epoch>> /\ s # "done" /\ landing[t].status # "done"
      /\ s = "running" => t \in RunningLanders
      /\ mainHead' = mainHead
         \/ (s = "running" /\ p = "merge" /\ mainHead # Gone /\ mainHead' = Trunk)
      /\ s = "running" /\ p \in {"merge", "push"} => Strategy # "pr"
      /\ \A u \in Landers \ {t} : landing'[u] = landing[u]
      /\ landing'[t].status = s /\ landing'[t].at = p
  BY DEF StepsOn, EntersTrunk, Moved
<1>3. Mode' = Mode /\ Strategy' = Strategy /\ LandedOn(t)' = LandedOn(t) /\ Unit(t)' = Unit(t)
      /\ TreeOf(t)' = TreeOf(t)
  BY <1>1, CommitsStay
<1>4. RunningLanders' \subseteq RunningLanders
  BY <1>2 DEF RunningLanders
<1>5. Mode = "branch" => \A u \in RunningLanders : mainHead # Gone /\ BranchOf(u) = u
  BY <1>1, LayoutKinds DEF TypedFrame, LandFrame, RunningLanders
<1>6. (Mode = "branch" => Alone)'
  <2>1. SUFFICES ASSUME Mode = "branch" PROVE Alone'
    BY <1>3
  <2>2. \A v, u \in RunningLanders' : v = u
    BY <1>1, <1>4, <2>1 DEF Alone
  <2>3. ASSUME NEW u \in RunningLanders'
        PROVE  /\ mainHead' \in {u, Trunk} /\ (Strategy' = "pr" => mainHead' = u)
               /\ landing'[u].at \in {"merge", "push"} => mainHead' = Trunk
               /\ landing'[u].at = "record" => mainHead' = Trunk \/ Strategy' = "pr"
    <3>1. /\ u \in RunningLanders /\ u \in Landers
          /\ mainHead \in {u, Trunk} /\ (Strategy = "pr" => mainHead = u)
          /\ landing[u].at \in {"merge", "push"} => mainHead = Trunk
          /\ landing[u].at = "record" => mainHead = Trunk \/ Strategy = "pr"
      BY <1>1, <1>4, <2>1 DEF Alone, RunningLanders
    <3>2. mainHead' \in {u, Trunk} /\ (Strategy' = "pr" => mainHead' = u)
      BY <1>2, <1>3, <3>1
    <3>3. CASE u # t
      BY <1>2, <1>3, <3>1, <3>2, <3>3
    <3>4. CASE u = t
      <4>1. s = "running"
        BY <1>2, <2>3, <3>4 DEF RunningLanders
      <4> QED
        BY <1>2, <1>3, <3>1, <3>2, <3>4, <4>1 DEF Progress
    <3> QED
      BY <3>3, <3>4
  <2> QED
    BY <2>2, <2>3 DEF Alone
<1>7. ASSUME NEW u \in Landers, Unit(u)' \in made'
      PROVE  InReach(u)' /\ IsSaved(u)' /\ IsOnBase(u)' /\ IsPushed(u)' /\ IsRecorded(u)'
  <2>1. /\ Unit(u)' = Unit(u) /\ BranchOf(u)' = BranchOf(u) /\ TreeOf(u)' = TreeOf(u)
        /\ LandedOn(u)' = LandedOn(u)
        /\ Has(tip, LandedOn(u), Unit(u)) => Has(tip, LandedOn(u), Unit(u))'
        /\ Has(remoteTip, LandedOn(u), Unit(u)) => Has(remoteTip, LandedOn(u), Unit(u))'
    BY <1>1, CommitsStay
  <2>2. InReach(u) /\ IsSaved(u) /\ IsOnBase(u) /\ IsPushed(u) /\ IsRecorded(u)
    BY <1>1, <1>7, <2>1 DEF WorkIsSafe
  <2>3. ASSUME Mode # "branch" \/ u \in RunningLanders'
        PROVE  /\ Committed(u) => Committed(u)'
               /\ Unit(u) \in dirty[TreeOf(u)] => Unit(u) \in dirty'[TreeOf(u)] \/ Committed(u)'
    <3>1. CASE Mode # "branch"
      BY <1>1, <3>1, CommitsStay
    <3>2. CASE Mode = "branch"
      <4>1. u \in RunningLanders /\ mainHead # Gone /\ BranchOf(u) = u /\ mainHead \in {u, Trunk}
        BY <1>1, <1>4, <1>5, <2>3, <3>2 DEF Alone
      <4>2. mainHead' = mainHead \/ mainHead = BranchOf(u)
        BY <1>2, <4>1
      <4> QED
        BY <1>1, <4>1, <4>2, CommitsStay
    <3> QED
      BY <3>1, <3>2
  <2>4. CASE u # t
    <3>1. landing'[u] = landing[u] /\ (u \in RunningLanders' => u \in RunningLanders)
      BY <1>2, <1>4, <2>4
    <3>2. InReach(u)'
      BY <1>3, <2>1, <2>2, <2>3, <3>1 DEF InReach
    <3>3. IsSaved(u)'
      BY <2>2, <2>3, <3>1 DEF IsSaved
    <3>4. IsOnBase(u)'
      BY <2>1, <2>2, <3>1 DEF IsOnBase, Beyond
    <3>5. IsPushed(u)'
      BY <1>2, <2>1, <2>2, <3>1 DEF IsPushed, Beyond
    <3>6. IsRecorded(u)'
      BY <2>1, <2>2, <3>1 DEF IsRecorded
    <3> QED
      BY <3>2, <3>3, <3>4, <3>5, <3>6
  <2>5. CASE u = t
    <3>1. InReach(t)'
      <4>1. (Mode # "branch" \/ t \in RunningLanders') =>
                Unit(t) \in dirty[TreeOf(t)] \/ Committed(t)
        BY <1>2, <1>4, <2>2, <2>5 DEF InReach
      <4> QED
        BY <1>3, <2>1, <2>3, <2>5, <4>1 DEF InReach
    <3>2. ASSUME t \in RunningLanders', p \in SavedPhases
          PROVE  Committed(t)'
      <4>1. s = "running" /\ t \in RunningLanders
        BY <1>2, <1>4, <3>2 DEF RunningLanders
      <4>2. CASE p # "backup"
        <5>1. Committed(t)
          BY <2>2, <2>5, <3>2, <4>1, <4>2 DEF Progress, IsSaved
        <5> QED
          BY <2>3, <2>5, <3>2, <5>1
      <4>3. CASE p = "backup"
        <5>1. Unit(t) \in dirty[TreeOf(t)] => Has(tip', HeadOf(TreeOf(t)), Unit(t))
          BY <4>1, <4>3 DEF Progress
        <5>2. HeadOf(TreeOf(t))' = HeadOf(TreeOf(t))
          BY <1>2, <1>3, <4>3 DEF HeadOf
        <5>3. Unit(t) \in dirty[TreeOf(t)] \/ Committed(t)
          BY <1>2, <2>2, <2>5, <4>1 DEF InReach
        <5> QED
          BY <1>3, <2>3, <2>5, <3>2, <5>1, <5>2, <5>3 DEF Committed, Has
      <4> QED
        BY <4>2, <4>3
    <3>3. ASSUME t \in RunningLanders', p \in {"push", "record"}
          PROVE  Has(tip, LandedOn(t), Unit(t))'
      <4>1. s = "running" /\ t \in RunningLanders
        BY <1>2, <1>4, <3>3 DEF RunningLanders
      <4>2. landing[t].at \in SavedPhases
        BY <3>3, <4>1 DEF Progress, SavedPhases
      <4>3. Committed(t)
        BY <2>2, <2>5, <4>1, <4>2 DEF IsSaved
      <4>4. CASE p = "push"
        <5>1. /\ landing[t].at = "merge" /\ Strategy # "pr" /\ tip'[mainHead] # Gone
              /\ tip[mainHead] \cup tip[BranchOf(t)] \subseteq tip'[mainHead]
          BY <1>2, <4>1, <4>4 DEF Progress
        <5>2. mainHead = Trunk /\ LandedOn(t) = Trunk
          BY <1>1, <4>1, <5>1, LayoutKinds DEF Alone, TypedFrame, LandFrame
        <5>3. HeadOf(TreeOf(t)) \in {mainHead, BranchOf(t)}
          BY <1>1, LayoutKinds DEF TypedFrame
        <5>4. Unit(t) \in tip'[mainHead]
          BY <4>3, <5>1, <5>3 DEF Committed, Has
        <5> QED
          BY <1>3, <5>1, <5>2, <5>4 DEF Has
      <4>5. CASE p = "record" /\ Strategy = "pr"
        <5>1. LandedOn(t) = BranchOf(t) /\ HeadOf(TreeOf(t)) = BranchOf(t)
          BY <1>1, <1>5, <4>1, <4>5, LayoutKinds DEF TypedFrame, Alone
        <5> QED
          BY <2>1, <2>5, <4>3, <5>1 DEF Committed
      <4>6. CASE p = "record" /\ Strategy # "pr"
        <5>1. landing[t].at = "push"
          BY <4>1, <4>6 DEF Progress
        <5> QED
          BY <2>1, <2>2, <2>5, <4>1, <5>1 DEF IsOnBase, Beyond
      <4> QED
        BY <3>3, <4>4, <4>5, <4>6
    <3>4. ASSUME t \in RunningLanders', p = "record", layout.remote
          PROVE  Has(remoteTip, LandedOn(t), Unit(t))'
      <4>1. s = "running" /\ t \in RunningLanders
        BY <1>2, <1>4, <3>4 DEF RunningLanders
      <4>2. remoteTip'[LandedOn(t)] = tip[LandedOn(t)] /\ (Strategy = "pr" \/ landing[t].at = "push")
        BY <3>4, <4>1 DEF Progress
      <4>3. Has(tip, LandedOn(t), Unit(t))
        <5>1. CASE Strategy # "pr"
          BY <2>2, <2>5, <4>1, <4>2, <5>1 DEF IsOnBase, Beyond
        <5>2. CASE Strategy = "pr"
          <6>1. LandedOn(t) = BranchOf(t) /\ HeadOf(TreeOf(t)) = BranchOf(t)
            BY <1>1, <1>5, <4>1, <5>2, LayoutKinds DEF TypedFrame, Alone
          <6>2. landing[t].at \in SavedPhases
            BY <3>4, <4>1 DEF Progress, SavedPhases
          <6> QED
            BY <2>2, <2>5, <4>1, <6>1, <6>2 DEF IsSaved, Committed
        <5> QED
          BY <5>1, <5>2
      <4> QED
        BY <1>3, <4>2, <4>3 DEF Has
    <3> QED
      BY <1>2, <2>5, <3>1, <3>2, <3>3, <3>4
         DEF IsSaved, IsOnBase, IsPushed, IsRecorded, Beyond
  <2> QED
    BY <2>4, <2>5
<1> QED
  BY <1>6, <1>7 DEF WorkIsSafe

\* What an agent has just made lies in its tree or on the branch the tree is
\* on; nobody else's work is touched.
LEMMA DoneKeptByAgents ==
  ASSUME DoneInv, NEW t \in Landers, NEW b \in BOOLEAN, AgentWorks(t, b)
  PROVE  (Mode = "branch" => Alone)' /\ \A u \in Landers : WorkIsSafe(u)'
<1>1. /\ StepsOn(t, "running", "working") /\ UNCHANGED <<landing, mainHead>>
      /\ made' = made \cup {Unit(t)} /\ landing[t].status = "running" /\ landing[t].at = "working"
      /\ Unit(t) \in dirty'[TreeOf(t)] \/ Has(tip', HeadOf(TreeOf(t)), Unit(t))
  BY AgentStep DEF DoneInv
<1>2. /\ TypedFrame /\ (Mode = "branch" => Alone) /\ \A u \in Landers : WorkIsSafe(u)
  BY DEF DoneInv
<1>3. UNCHANGED <<layout, epoch>> /\ RunningLanders' = RunningLanders
  BY <1>1 DEF StepsOn, RunningLanders
<1>4. Mode' = Mode /\ Strategy' = Strategy
  BY <1>3, SameSettings
<1>5. (Mode = "branch" => Alone)'
  BY <1>1, <1>2, <1>3, <1>4 DEF Alone
<1>6. ASSUME NEW u \in Landers, Unit(u)' \in made'
      PROVE  InReach(u)' /\ IsSaved(u)' /\ IsOnBase(u)' /\ IsPushed(u)' /\ IsRecorded(u)'
  <2>1. /\ Unit(u)' = Unit(u) /\ BranchOf(u)' = BranchOf(u) /\ TreeOf(u)' = TreeOf(u)
        /\ LandedOn(u)' = LandedOn(u) /\ HeadOf(TreeOf(u))' = HeadOf(TreeOf(u))
        /\ Has(tip, LandedOn(u), Unit(u)) => Has(tip, LandedOn(u), Unit(u))'
        /\ Has(remoteTip, LandedOn(u), Unit(u)) => Has(remoteTip, LandedOn(u), Unit(u))'
    BY <1>1, <1>2, CommitsStay DEF HeadOf
  <2>2. CASE u = t
    <3>1. InReach(t)'
      BY <1>1, <1>4, <2>1, <2>2 DEF InReach, Committed, Has
    <3>2. IsSaved(t)' /\ IsOnBase(t)' /\ IsPushed(t)' /\ IsRecorded(t)'
      BY <1>1 DEF IsSaved, SavedPhases, IsOnBase, IsPushed, IsRecorded, Beyond
    <3> QED
      BY <2>2, <3>1, <3>2
  <2>3. CASE u # t
    <3>1. Unit(u) \in made
      BY <1>1, <1>6, <2>1, <2>3 DEF Unit
    <3>2. InReach(u) /\ IsSaved(u) /\ IsOnBase(u) /\ IsPushed(u) /\ IsRecorded(u)
      BY <1>2, <3>1 DEF WorkIsSafe
    <3>3. ASSUME Mode # "branch" \/ u \in RunningLanders
          PROVE  /\ Committed(u) => Committed(u)'
                 /\ Unit(u) \in dirty[TreeOf(u)] => Unit(u) \in dirty'[TreeOf(u)] \/ Committed(u)'
      <4>1. u \in RunningLanders => mainHead # Gone
        BY <1>2 DEF TypedFrame, LandFrame
      <4> QED
        BY <1>1, <1>2, <3>3, <4>1, CommitsStay
    <3>4. InReach(u)' /\ IsSaved(u)'
      BY <1>1, <1>3, <1>4, <2>1, <3>2, <3>3 DEF InReach, IsSaved
    <3>5. IsOnBase(u)' /\ IsPushed(u)' /\ IsRecorded(u)'
      BY <1>1, <1>3, <2>1, <3>2 DEF IsOnBase, IsPushed, IsRecorded, Beyond
    <3> QED
      BY <3>4, <3>5
  <2> QED
    BY <2>2, <2>3
<1> QED
  BY <1>5, <1>6 DEF WorkIsSafe

\* A claim of the checkout waits until nobody is in it. (one slot)
LEMMA CheckoutIsFree ==
  ASSUME OneInTheCheckout, TypedFrame, NEW t \in Landers, NEW b \in BOOLEAN, ClaimsTree(t, b),
         Mode = "branch"
  PROVE  RunningLanders = {}
<1>1. MayClaim(t)
  BY DEF ClaimsTree
<1>2. layout.slots = 1
  BY DEF TypedFrame, LandTypeOK, Mode, OneInTheCheckout
<1>3. IsFiniteSet(RunningLanders)
  <2>1. RunningLanders \subseteq Landers
    BY DEF RunningLanders
  <2> QED
    BY <2>1, LandersAssumption, FS_Subset
<1>4. Cardinality(RunningLanders) \in Nat /\ Cardinality(RunningLanders) < 1
  BY <1>1, <1>2, <1>3, FS_CardinalityType DEF MayClaim
<1> QED
  BY <1>3, <1>4, FS_EmptySet

\* A claim loses no work: onto a branch there is it adds a tree, and from the
\* checkout it takes what lies there. (create_worktree, checkout_branch)
LEMMA DoneKeptByClaims ==
  ASSUME OneInTheCheckout \/ OneAtATime', DoneInv, NEW t \in Landers, NEW b \in BOOLEAN,
         ClaimsTree(t, b)
  PROVE  (Mode = "branch" => Alone)' /\ \A u \in Landers : WorkIsSafe(u)'
<1>1. /\ TypedFrame /\ (Mode = "branch" => Alone) /\ \A u \in Landers : WorkIsSafe(u)
  BY DEF DoneInv
<1>2. /\ UNCHANGED <<layout, epoch, remoteTip, dirty>> /\ landing[t].status = "ready"
      /\ \A u \in Landers \ {t} : landing'[u] = landing[u]
      /\ landing'[t].status = "running" /\ landing'[t].at = "working"
      /\ tip'[BranchOf(t)] \in SUBSET Units
      /\ \A r \in Refs \ {BranchOf(t)} : tip'[r] = tip[r]
      /\ Mode # "branch" => TipsGrow /\ UNCHANGED <<made, mainHead>>
      /\ Mode = "branch" => /\ mainHead' = t /\ tip'[t] = tip[Trunk]
                            /\ made' = {u \in made : u # Unit(t) \/ u \in dirty[Trunk] \cup tip[Trunk]}
  BY <1>1, ClaimStep
<1>3. Mode' = Mode /\ Strategy' = Strategy
      /\ \A u : /\ BranchOf(u)' = BranchOf(u) /\ TreeOf(u)' = TreeOf(u)
                /\ LandedOn(u)' = LandedOn(u) /\ Unit(u)' = Unit(u)
  BY <1>2, SameSettings DEF Unit
<1>4. /\ Trunk \in Refs
      /\ \A u \in Landers :
            /\ BranchOf(u) \in Refs \ {Trunk} /\ TreeOf(u) \in Refs /\ LandedOn(u) \in Refs
            /\ LandedOn(u) \in {BranchOf(u), Trunk}
            /\ Mode # "branch" => TreeOf(u) = BranchOf(u) /\ HeadOf(TreeOf(u)) = BranchOf(u)
            /\ Mode = "branch" => TreeOf(u) = Trunk /\ BranchOf(u) = u
  BY <1>1, LayoutKinds DEF TypedFrame
<1>5. RunningLanders' = RunningLanders \cup {t}
  BY <1>2 DEF RunningLanders
<1>6. CASE Mode # "branch"
  <2>1. ASSUME NEW u \in Landers, Unit(u) \in made
        PROVE  InReach(u)' /\ IsSaved(u)' /\ IsOnBase(u)' /\ IsPushed(u)' /\ IsRecorded(u)'
    <3>1. InReach(u) /\ IsSaved(u) /\ IsOnBase(u) /\ IsPushed(u) /\ IsRecorded(u)
      BY <1>1, <2>1 DEF WorkIsSafe
    <3>2. /\ Has(tip, BranchOf(u), Unit(u)) => Has(tip', BranchOf(u), Unit(u))
          /\ Has(tip, LandedOn(u), Unit(u)) => Has(tip', LandedOn(u), Unit(u))
      BY <1>2, <1>4, <1>6 DEF Has, TipsGrow
    <3>3. Committed(u) => Committed(u)'
      BY <1>3, <1>4, <1>6, <3>2 DEF Committed, Has
    <3>4. InReach(u)'
      BY <1>2, <1>3, <1>6, <3>1, <3>3 DEF InReach
    <3>5. CASE u = t
      BY <1>2, <3>4, <3>5 DEF IsSaved, SavedPhases, IsOnBase, IsPushed, IsRecorded, Beyond
    <3>6. CASE u # t
      <4>1. landing'[u] = landing[u] /\ (u \in RunningLanders' => u \in RunningLanders)
        BY <1>2, <1>5, <3>6
      <4>2. Has(tip, LandedOn(u), Unit(u)) => Has(tip, LandedOn(u), Unit(u))'
        BY <1>3, <3>2 DEF Has
      <4>3. Has(remoteTip, LandedOn(u), Unit(u)) => Has(remoteTip, LandedOn(u), Unit(u))'
        BY <1>2, <1>3 DEF Has
      <4> QED
        BY <1>2, <1>3, <3>1, <3>3, <3>4, <4>1, <4>2, <4>3
           DEF IsSaved, IsOnBase, IsPushed, IsRecorded, Beyond
    <3> QED
      BY <3>5, <3>6
  <2> QED
    BY <1>2, <1>3, <1>6, <2>1 DEF WorkIsSafe
<1>7. CASE Mode = "branch"
  <2>1. RunningLanders = {} /\ RunningLanders' = {t}
    <3>1. CASE OneInTheCheckout
      BY <1>1, <1>5, <1>7, <3>1, CheckoutIsFree
    <3>2. CASE OneAtATime'
      <4>1. t \notin RunningLanders
        BY <1>2 DEF RunningLanders
      <4> QED
        BY <1>3, <1>5, <1>7, <3>2, <4>1 DEF OneAtATime
    <3> QED
      BY <3>1, <3>2
  <2>2. Alone'
    BY <1>2, <1>7, <2>1 DEF Alone
  <2>3. ASSUME NEW u \in Landers, Unit(u) \in made'
        PROVE  InReach(u)' /\ IsSaved(u)' /\ IsOnBase(u)' /\ IsPushed(u)' /\ IsRecorded(u)'
    <3>1. CASE u = t
      <4>1. Unit(t) \in dirty[Trunk] \cup tip[Trunk]
        BY <1>2, <1>7, <2>3, <3>1
      <4>2. tip'[t] # Gone /\ tip'[t] = tip[Trunk]
        BY <1>2, <1>4, <1>7, GoneAssumption
      <4>3. InReach(t)'
        BY <1>2, <1>3, <1>4, <1>7, <4>1, <4>2 DEF InReach, Committed, Has
      <4> QED
        BY <1>2, <3>1, <4>3 DEF IsSaved, SavedPhases, IsOnBase, IsPushed, IsRecorded, Beyond
    <3>2. CASE u # t
      <4>1. Unit(u) \in made
        BY <1>2, <1>7, <2>3
      <4>2. IsOnBase(u) /\ IsPushed(u) /\ IsRecorded(u)
        BY <1>1, <4>1 DEF WorkIsSafe
      <4>3. landing'[u] = landing[u] /\ u \notin RunningLanders'
        BY <1>2, <2>1, <3>2
      <4>4. LandedOn(u) # BranchOf(t)
        BY <1>4, <1>7, <3>2
      <4>5. tip'[LandedOn(u)] = tip[LandedOn(u)]
        BY <1>2, <1>4, <4>4
      <4> QED
        BY <1>2, <1>3, <1>7, <2>1, <4>2, <4>3, <4>5
           DEF InReach, IsSaved, IsOnBase, IsPushed, IsRecorded, Beyond, Has
    <3> QED
      BY <3>1, <3>2
  <2> QED
    BY <1>3, <1>7, <2>2, <2>3 DEF WorkIsSafe
<1> QED
  BY <1>6, <1>7

\* The record of done takes down the tree of a task whose work is committed,
\* pushed and in the commit it records; after a hard reset no work counts.
LEMMA DoneKeptAtTheEnd ==
  ASSUME DoneInv,
         (\E t \in Landers : RecordsDone(t)) \/ (\E b, c \in BOOLEAN : HardReset(b, c))
  PROVE  (Mode = "branch" => Alone)' /\ \A u \in Landers : WorkIsSafe(u)'
<1>1. /\ TypedFrame /\ (Mode = "branch" => Alone) /\ \A u \in Landers : WorkIsSafe(u)
  BY DEF DoneInv
<1>2. ASSUME NEW t \in Landers, RecordsDone(t)
      PROVE  (Mode = "branch" => Alone)' /\ \A u \in Landers : WorkIsSafe(u)'
  <2>1. /\ landing[t].status = "running" /\ landing[t].at = "record"
        /\ UNCHANGED <<layout, epoch, tip, remoteTip, mainHead, made>>
        /\ \A u \in Landers \ {t} : landing'[u] = landing[u]
        /\ landing'[t].status = "done"
        /\ landing'[t].commit = IF Strategy = "pr" THEN tip[BranchOf(t)] ELSE tip[mainHead]
        /\ \A r \in Refs \ {t} : dirty'[r] = dirty[r]
        /\ Mode # "new" => UNCHANGED <<trees, dirty>>
    BY <1>1, <1>2, RecordStep
  <2>2. Mode' = Mode /\ Strategy' = Strategy
        /\ \A u : /\ BranchOf(u)' = BranchOf(u) /\ TreeOf(u)' = TreeOf(u)
                  /\ LandedOn(u)' = LandedOn(u) /\ Unit(u)' = Unit(u)
                  /\ HeadOf(TreeOf(u))' = HeadOf(TreeOf(u))
    BY <2>1, SameSettings DEF Unit, HeadOf
  <2>3. t \in RunningLanders /\ RunningLanders' = RunningLanders \ {t}
    BY <2>1 DEF RunningLanders
  <2>4. (Mode = "branch" => Alone)'
    BY <1>1, <2>1, <2>2, <2>3 DEF Alone
  <2>5. ASSUME NEW u \in Landers, Unit(u) \in made
        PROVE  InReach(u)' /\ IsSaved(u)' /\ IsOnBase(u)' /\ IsPushed(u)' /\ IsRecorded(u)'
    <3>1. InReach(u) /\ IsSaved(u) /\ IsOnBase(u) /\ IsPushed(u) /\ IsRecorded(u)
      BY <1>1, <2>5 DEF WorkIsSafe
    <3>2. CASE u = t
      <4>1. Has(tip, LandedOn(t), Unit(t)) /\ (layout.remote => Has(remoteTip, LandedOn(t), Unit(t)))
        BY <2>1, <2>3, <3>1, <3>2 DEF IsOnBase, IsPushed, Beyond
      <4>2. landing'[t].commit = tip[LandedOn(t)]
        <5>1. CASE Strategy = "pr"
          BY <1>1, <2>1, <5>1, LayoutKinds DEF TypedFrame
        <5>2. CASE Strategy # "pr"
          <6>1. mainHead = Trunk
            BY <1>1, <2>1, <2>3, <5>2 DEF Alone, TypedFrame, LandFrame
          <6> QED
            BY <1>1, <2>1, <5>2, <6>1, LayoutKinds DEF TypedFrame
        <5> QED
          BY <5>1, <5>2
      <4>3. Unit(t) \in landing'[t].commit
        BY <4>1, <4>2 DEF Has
      <4> QED
        BY <2>1, <2>2, <2>3, <3>2, <4>1, <4>3
           DEF InReach, IsSaved, IsOnBase, IsPushed, IsRecorded, Has
    <3>3. CASE u # t
      <4>1. landing'[u] = landing[u] /\ (u \in RunningLanders' <=> u \in RunningLanders)
        BY <2>1, <2>3, <3>3
      <4>2. TreeOf(u) \in Refs /\ (Mode = "new" => TreeOf(u) # t)
        BY <1>1, <3>3, LayoutKinds DEF TypedFrame
      <4>3. dirty'[TreeOf(u)] = dirty[TreeOf(u)]
        BY <2>1, <4>2
      <4>4. InReach(u)' /\ IsSaved(u)'
        BY <2>1, <2>2, <3>1, <4>1, <4>3 DEF InReach, IsSaved, Committed, Has
      <4>5. IsOnBase(u)' /\ IsPushed(u)' /\ IsRecorded(u)'
        BY <2>1, <2>2, <3>1, <4>1 DEF IsOnBase, IsPushed, IsRecorded, Beyond, Has
      <4> QED
        BY <4>4, <4>5
    <3> QED
      BY <3>2, <3>3
  <2> QED
    BY <2>1, <2>2, <2>4, <2>5 DEF WorkIsSafe
<1>3. ASSUME NEW b \in BOOLEAN, NEW c \in BOOLEAN, HardReset(b, c)
      PROVE  (Mode = "branch" => Alone)' /\ \A u \in Landers : WorkIsSafe(u)'
  <2>1. UNCHANGED made /\ epoch' = epoch + 1 /\ \A u \in Landers : landing'[u].status = "ready"
    BY <1>1, <1>3, ResetStep
  <2>2. RunningLanders' = {}
    BY <2>1 DEF RunningLanders
  <2>3. \A u \in Landers : Unit(u)' \notin made'
    <3>1. epoch + 1 \notin 0..epoch /\ made \subseteq Landers \X (0..epoch)
      BY <1>1, Typings
    <3> QED
      BY <2>1, <3>1 DEF Unit
  <2> QED
    BY <2>2, <2>3 DEF Alone, WorkIsSafe
<1> QED
  BY <1>2, <1>3

\* It holds at first, and every step keeps it that sends nobody into a checkout
\* where somebody is; it says that what is done has landed.
LEMMA DoneInductive ==
  /\ LandInit => DoneInv
  /\ (OneInTheCheckout \/ OneAtATime') /\ DoneInv /\ [LandNext]_landVars => DoneInv'
  /\ DoneInv => DoneIsLanded
<1>1. LandInit => DoneInv
  <2>1. ASSUME LandInit
        PROVE  RunningLanders = {} /\ \A t \in Landers : Unit(t) \notin made
    BY <2>1, FrameAtFirst DEF RunningLanders
  <2> QED
    BY <2>1, FrameAtFirst DEF DoneInv, Alone, WorkIsSafe
<1>2. (OneInTheCheckout \/ OneAtATime') /\ DoneInv /\ [LandNext]_landVars => DoneInv'
  <2> SUFFICES ASSUME OneInTheCheckout \/ OneAtATime', DoneInv, [LandNext]_landVars PROVE DoneInv'
    OBVIOUS
  <2>1. TypedFrame /\ TypedFrame'
    BY FrameKept DEF DoneInv
  <2>2. (Mode = "branch" => Alone)' /\ \A u \in Landers : WorkIsSafe(u)'
    <3>1. CASE UNCHANGED landVars
      BY <3>1 DEF landVars, DoneInv, Alone, WorkIsSafe, InReach, IsSaved, IsOnBase, IsPushed,
                  IsRecorded, Beyond, Committed, Has, RunningLanders, Unit, BranchOf, TreeOf,
                  HeadOf, LandedOn, Mode, Strategy
    <3>2. CASE LandNext
      BY <2>1, <3>2, LandCases, DoneKeptByMoves, DoneKeptByAgents, DoneKeptByClaims,
         DoneKeptAtTheEnd
    <3> QED
      BY <3>1, <3>2
  <2> QED
    BY <2>1, <2>2 DEF DoneInv
<1>3. DoneInv => DoneIsLanded
  BY DEF DoneInv, WorkIsSafe, IsOnBase, IsPushed, IsRecorded, Beyond, Has, DoneIsLanded
<1> QED
  BY <1>1, <1>2, <1>3

\* The work of a done task is in the branch it lands on, in the commit that is
\* recorded and on the remote: for every number of tasks, and of slots where
\* tasks have trees of their own or of their workflow, however their git
\* commands interleave, and whatever pushes, merges, agents and daemons failed
\* before. The hypothesis is the limit of branch mode, and of any mode with
\* worktrees off: there is one checkout, whose head a claim moves, and with a
\* second slot a sibling is claimed while a task is at its gate or landing.
\* (finish_task, push_with_retry, merge_branch; tick: busy_shared_runs holds
\* the runs of running tasks alone)
THEOREM DoneHasItsWorkLanded ==
  ASSUME OneInTheCheckout
  PROVE  LandSpec => []DoneIsLanded
<1>1. DoneInv /\ [LandNext]_landVars => DoneInv'
  BY DoneInductive
<1> QED
  BY <1>1, DoneInductive, PTL DEF LandSpec

\* The same with any settings, as long as no two tasks happened to be at work in
\* the checkout at once: the number of slots itself does no harm.
\* (checkout_branch, finish_task)
THEOREM WhoWorksAloneLands == LandSpec /\ []OneAtATime => []DoneIsLanded
<1>1. OneAtATime' /\ DoneInv /\ [LandNext]_landVars => DoneInv'
  BY DoneInductive
<1> QED
  BY <1>1, DoneInductive, PTL DEF LandSpec

-----------------------------------------------------------------------------
(***************************************************************************)
(* The conversation: a turn that drains, persists and ends.                *)
(***************************************************************************)
TurnRows == [at : TurnPhases, live : BOOLEAN, pin : 0..MaxReplies, cursor : 0..MaxReplies,
             todo : SUBSET Replies, replied : BOOLEAN, seen : BOOLEAN, deserted : BOOLEAN,
             lost : SUBSET Replies, mute : BOOLEAN]

Unheard == {"new", "config", "pin", "launch"}
Persisting == {"prose", "proseRow", "card", "cardRow", "line"}
RowPhases == {"proseRow", "cardRow"}

\* A turn has in hand replies that it heard, while it persists them; of the
\* others that it heard each is shown or lost; it is over deserted, mute,
\* answered or with a note.
TurnInOrder(t) ==
    /\ turn[t].pin <= turn[t].cursor /\ turn[t].cursor <= Len(thread)
    /\ turn[t].at \in Unheard => ~turn[t].replied
    /\ turn[t].todo # {} <=> turn[t].at \in Persisting
    /\ turn[t].todo \subseteq Heard(t)
    /\ turn[t].replied => Heard(t) # {}
    /\ \A e \in Heard(t) \ turn[t].todo : Shown(e) \/ e \in turn[t].lost
    /\ turn[t].at = "over" /\ ~turn[t].deserted /\ ~turn[t].mute =>
          t \in notes \/ turn[t].replied

\* As long as turns come one after the other, a reply has one row at most, and
\* who is about to write one has seen that there is none.
OneRowEach ==
    ~overlapped =>
        /\ \A t, u \in Turns : InTurn(t) /\ InTurn(u) => t = u
        /\ \A e \in Replies : prose[e] + cards[e] <= 1
        /\ \A t \in Turns : turn[t].at \in RowPhases => ~HasRowOf(Reply(t))

ChatInv == ChatTypeOK /\ (\A t \in Turns : TurnInOrder(t)) /\ OneRowEach

\* The reply in hand is one of those still to persist. (the loop over the
\* drained events, in their order)
LEMMA FirstIsThere ==
  ASSUME NEW S \in SUBSET Nat, S # {} PROVE First(S) \in S
<1> DEFINE R == {ss \in Nat \X Nat : ss[1] < ss[2]}
<1>1. IsWellFoundedOn(R, Nat)
  BY NatLessThanWellFounded, Zenon DEF OpToRel
<1> HIDE DEF R
<1>2. PICK x \in S : \A y \in S : ~(<<y, x>> \in R)
  BY <1>1, WFMin
<1>3. ASSUME NEW y \in S PROVE x <= y
  <2>1. <<y, x>> \in Nat \X Nat /\ <<y, x>>[1] = y /\ <<y, x>>[2] = x
    OBVIOUS
  <2>2. ~(y < x)
    BY <1>2, <2>1, Zenon DEF R
  <2> QED
    BY <2>2
<1> QED
  BY <1>3 DEF First

\* The thread's events are numbered from one, as the conversation's replies.
LEMMA ThreadIds ==
  ASSUME ChatTypeOK
  PROVE  /\ Len(thread) \in 0..MaxReplies /\ DOMAIN thread = 1..Len(thread)
         /\ DOMAIN thread \subseteq Replies /\ Replies \subseteq Nat
<1>1. thread \in Seq(Forms) /\ Len(thread) <= MaxReplies
  BY DEF ChatTypeOK
<1>2. Len(thread) \in Nat /\ DOMAIN thread = 1..Len(thread)
  BY <1>1
<1> QED
  BY <1>1, <1>2, ChatBoundsAssumption DEF Replies

\* A turn that does not move hears nothing more, and what it heard stays shown.
LEMMA OthersInOrder ==
  ASSUME ChatTypeOK, ChatTypeOK', NEW u \in Turns, TurnInOrder(u), turn'[u] = turn[u],
         Len(thread) <= Len(thread'), notes \subseteq notes',
         \A e \in Replies : prose[e] <= prose'[e] /\ cards[e] <= cards'[e] /\ lines[e] <= lines'[e]
  PROVE  TurnInOrder(u)'
<1>1. /\ DOMAIN thread = 1..Len(thread) /\ DOMAIN thread' = 1..Len(thread')
      /\ Len(thread) \in Nat /\ Len(thread') \in Nat /\ DOMAIN thread \subseteq Replies
      /\ turn[u].cursor \in Nat /\ turn[u].pin \in Nat
  BY ThreadIds DEF ChatTypeOK
<1>2. Heard(u)' = Heard(u) /\ Heard(u) \subseteq Replies
  BY <1>1 DEF Heard, TurnInOrder
<1>3. \A e \in Replies : Shown(e) => Shown(e)'
  BY DEF ChatTypeOK, Shown
<1> QED
  BY <1>1, <1>2, <1>3 DEF TurnInOrder

\* The turn in hand and the replies it has.
LEMMA TurnFacts ==
  ASSUME ChatTypeOK, NEW t \in Turns, TurnInOrder(t)
  PROVE  /\ turn \in [Turns -> TurnRows] /\ turn[t] \in TurnRows
         /\ Heard(t) \subseteq Replies
         /\ turn[t].todo # {} => Reply(t) \in turn[t].todo /\ Reply(t) \in Heard(t)
                                 /\ Reply(t) \in Replies
<1>1. turn \in [Turns -> TurnRows] /\ turn[t] \in TurnRows
  BY DEF ChatTypeOK, TurnRows
<1>2. Heard(t) \subseteq Replies /\ Heard(t) \subseteq Nat
  BY ThreadIds DEF Heard
<1>3. turn[t].todo \subseteq Nat /\ turn[t].todo \subseteq Heard(t)
  BY <1>2 DEF TurnInOrder
<1> QED
  BY <1>1, <1>2, <1>3, FirstIsThere DEF Reply

\* What the next row of a turn must be like, as long as nothing is shown or
\* said meanwhile.
Orderly(t, r, told) ==
    LET heard == {e \in DOMAIN thread : r.pin < e /\ e <= r.cursor} IN
    /\ r.pin <= r.cursor /\ r.cursor <= Len(thread)
    /\ r.at \in Unheard => ~r.replied
    /\ r.todo # {} <=> r.at \in Persisting
    /\ r.at \notin RowPhases
    /\ r.todo \subseteq heard
    /\ r.replied => heard # {}
    /\ \A e \in heard \ r.todo : Shown(e) \/ e \in r.lost
    /\ r.at = "over" /\ ~r.deserted /\ ~r.mute => t \in told \/ r.replied

\* What such a step leaves alone or counts.
Listens == UNCHANGED <<profile, session, thread, prose, cards, lines>>
Counts ==
    /\ notes \subseteq notes' /\ notes' \subseteq Turns
    /\ chatAgents' \in Nat /\ chatUpsets' \in 0..MaxChatUpsets

\* An orderly row keeps the turn in order.
LEMMA OrderlyTurn ==
  ASSUME ChatTypeOK, NEW t \in Turns, TurnInOrder(t), Listens, Counts,
         NEW r \in TurnRows, Orderly(t, r, notes'), turn' = [turn EXCEPT ![t] = r]
  PROVE  /\ ChatTypeOK' /\ \A u \in Turns \ {t} : turn'[u] = turn[u]
         /\ TurnInOrder(t)' /\ turn'[t].at \notin RowPhases
<1>1. turn \in [Turns -> TurnRows]
  BY TurnFacts
<1>2. turn' \in [Turns -> TurnRows] /\ turn'[t] = r /\ \A u \in Turns \ {t} : turn'[u] = turn[u]
  BY <1>1
<1>3. ChatTypeOK'
  BY <1>2 DEF ChatTypeOK, TurnRows, Listens, Counts
<1>4. Heard(t)' = {e \in DOMAIN thread : r.pin < e /\ e <= r.cursor}
  BY <1>2 DEF Heard, Listens
<1>5. \A e : Shown(e)' = Shown(e)
  BY DEF Shown, Listens
<1>6. TurnInOrder(t)'
  BY <1>2, <1>4, <1>5 DEF TurnInOrder, Orderly, Listens
<1> QED
  BY <1>2, <1>3, <1>6 DEF Orderly

\* A turn that only moves on keeps the rest of what it has in hand.
LEMMA MovesOn ==
  ASSUME NEW row \in TurnRows, NEW p \in TurnPhases
  PROVE  /\ [row EXCEPT !.at = p] \in TurnRows
         /\ [row EXCEPT !.at = p].at = p
         /\ [row EXCEPT !.at = p].todo = row.todo
         /\ [row EXCEPT !.at = p].pin = row.pin
         /\ [row EXCEPT !.at = p].cursor = row.cursor
         /\ [row EXCEPT !.at = p].replied = row.replied
         /\ [row EXCEPT !.at = p].deserted = row.deserted
         /\ [row EXCEPT !.at = p].mute = row.mute
         /\ [row EXCEPT !.at = p].lost = row.lost
BY DEF TurnRows

\* A turn with nothing in hand that hears nothing more stays in order.
HearsNoMore(t, r) ==
    /\ r.pin = turn[t].pin /\ r.cursor = turn[t].cursor /\ r.lost = turn[t].lost
    /\ r.replied = turn[t].replied /\ r.todo = turn[t].todo

LEMMA KeepsHeard ==
  ASSUME ChatTypeOK, NEW t \in Turns, TurnInOrder(t), NEW r \in TurnRows, NEW told,
         HearsNoMore(t, r), turn[t].at \notin Persisting, r.at \notin Persisting,
         r.at \in Unheard => turn[t].at \in Unheard,
         r.at = "over" /\ ~r.deserted /\ ~r.mute => t \in told \/ r.replied
  PROVE  Orderly(t, r, told)
BY DEF TurnInOrder, Orderly, Heard, HearsNoMore, Persisting, RowPhases

\* A step that ends, begins or moves a turn without writing to the conversation.
QuietStep(t, b) ==
    \/ PostAgentChat(t) \/ TurnFails(t, b) \/ LooksForSession(t, b)
    \/ PinsCursor(t, b) \/ LaunchesAgent(t) \/ PollsSession(t, b)
    \/ DrainsThread(t) \/ DrainFails(t) \/ TimesOut(t, b)

LEMMA QuietTurns ==
  ASSUME ChatTypeOK, NEW t \in Turns, TurnInOrder(t), NEW b \in BOOLEAN, QuietStep(t, b)
  PROVE  /\ ChatTypeOK' /\ \A u \in Turns \ {t} : turn'[u] = turn[u]
         /\ Listens /\ notes \subseteq notes'
         /\ TurnInOrder(t)' /\ turn'[t].at \notin RowPhases
         /\ PostAgentChat(t) \/ (InTurn(t) /\ overlapped' = overlapped)
<1> DEFINE row == turn[t]
<1>1. turn \in [Turns -> TurnRows] /\ row \in TurnRows
  BY TurnFacts
<1>2. /\ Len(thread) \in 0..MaxReplies /\ DOMAIN thread = 1..Len(thread) /\ MaxReplies \in Nat
      /\ MaxChatUpsets \in Nat /\ 0 \in 0..MaxReplies
      /\ NewReplies(t) \in SUBSET Replies
  BY ThreadIds, ChatBoundsAssumption DEF NewReplies
<1>3. notes \subseteq Turns /\ chatAgents \in Nat /\ chatUpsets \in 0..MaxChatUpsets
  BY DEF ChatTypeOK
<1>4. CASE PostAgentChat(t)
  <2> DEFINE r == [row EXCEPT !.at = "config"]
  <2>1. turn' = [turn EXCEPT ![t] = r] /\ Listens
    BY <1>4 DEF Listens, PostAgentChat, Sets, GoesTo, Over, EndsWithNote, AnsweredEnds
  <2>2. Counts
    BY <1>2, <1>3, <1>4 DEF Counts, PostAgentChat, ChatUpset, EndsWithNote
  <2>3. row.at = "new"
    BY <1>4 DEF PostAgentChat, AtTurn
  <2>4. r \in TurnRows /\ HearsNoMore(t, r) /\ r.at = "config"
    BY <1>1, <1>2, <1>4 DEF TurnRows, TurnPhases, HearsNoMore
  <2>5. Orderly(t, r, notes')
    <3> HIDE DEF r
    <3> QED
      BY <2>3, <2>4, KeepsHeard DEF Unheard, Persisting
  <2>6. PostAgentChat(t) \/ (InTurn(t) /\ overlapped' = overlapped)
    BY <1>4, Zenon
  <2> HIDE DEF r
  <2> QED
    BY <2>1, <2>2, <2>4, <2>5, <2>6, OrderlyTurn DEF Counts
<1>5. CASE LaunchesAgent(t)
  <2> DEFINE r == [row EXCEPT !.at = "poll"]
  <2>1. turn' = [turn EXCEPT ![t] = r] /\ Listens
    BY <1>5 DEF Listens, LaunchesAgent, Sets, GoesTo, Over, EndsWithNote, AnsweredEnds
  <2>2. Counts
    BY <1>2, <1>3, <1>5 DEF Counts, LaunchesAgent, ChatUpset, EndsWithNote
  <2>3. row.at = "launch"
    BY <1>5 DEF LaunchesAgent, AtTurn
  <2>4. r \in TurnRows /\ HearsNoMore(t, r) /\ r.at = "poll"
    BY <1>1, <1>2, <1>5 DEF TurnRows, TurnPhases, HearsNoMore
  <2>5. Orderly(t, r, notes')
    <3> HIDE DEF r
    <3> QED
      BY <2>3, <2>4, KeepsHeard DEF Unheard, Persisting
  <2>6. PostAgentChat(t) \/ (InTurn(t) /\ overlapped' = overlapped)
    BY <1>5, <2>3 DEF LaunchesAgent, InTurn
  <2> HIDE DEF r
  <2> QED
    BY <2>1, <2>2, <2>4, <2>5, <2>6, OrderlyTurn DEF Counts
<1>6. CASE LooksForSession(t, b)
  <2> DEFINE r == [row EXCEPT !.at = "pin", !.live = session = "conversation" /\ chatAgents > 0 /\ ~b]
  <2>1. turn' = [turn EXCEPT ![t] = r] /\ Listens
    BY <1>6 DEF Listens, LooksForSession, Sets, GoesTo, Over, EndsWithNote, AnsweredEnds
  <2>2. Counts
    BY <1>2, <1>3, <1>6 DEF Counts, LooksForSession, ChatUpset, EndsWithNote
  <2>3. row.at = "config"
    BY <1>6 DEF LooksForSession, AtTurn
  <2>4. r \in TurnRows /\ HearsNoMore(t, r) /\ r.at = "pin"
    BY <1>1, <1>2, <1>6 DEF TurnRows, TurnPhases, HearsNoMore
  <2>5. Orderly(t, r, notes')
    <3> HIDE DEF r
    <3> QED
      BY <2>3, <2>4, KeepsHeard DEF Unheard, Persisting
  <2>6. PostAgentChat(t) \/ (InTurn(t) /\ overlapped' = overlapped)
    BY <1>6, <2>3 DEF LooksForSession, InTurn
  <2> HIDE DEF r
  <2> QED
    BY <2>1, <2>2, <2>4, <2>5, <2>6, OrderlyTurn DEF Counts
<1>7. CASE PinsCursor(t, b) /\ b
  <2> DEFINE r == [row EXCEPT !.at = "launch", !.pin = 0, !.cursor = 0]
  <2>1. turn' = [turn EXCEPT ![t] = r] /\ Listens
    BY <1>7 DEF Listens, PinsCursor, Sets, GoesTo, Over, EndsWithNote, AnsweredEnds
  <2>2. Counts
    BY <1>2, <1>3, <1>7 DEF Counts, PinsCursor, ChatUpset, EndsWithNote
  <2>3. row.at = "pin"
    BY <1>7 DEF PinsCursor, AtTurn
  <2>4. r \in TurnRows
    BY <1>1, <1>2, <1>7 DEF TurnRows, TurnPhases
  <2>5. Orderly(t, r, notes')
    <3>1. row.todo = {} /\ ~row.replied
      BY <2>3 DEF TurnInOrder, Unheard, Persisting
    <3>2. r.at = "launch" /\ r.todo = {} /\ ~r.replied /\ r.pin = r.cursor /\ r.cursor \in 0..Len(thread)
      BY <1>1, <1>2, <3>1 DEF TurnRows
    <3> HIDE DEF r
    <3>3. {e \in DOMAIN thread : r.pin < e /\ e <= r.cursor} = {}
      BY <1>2, <3>2
    <3> QED
      BY <1>2, <3>2, <3>3 DEF Orderly, Unheard, Persisting, RowPhases
  <2>6. PostAgentChat(t) \/ (InTurn(t) /\ overlapped' = overlapped)
    BY <1>7, <2>3 DEF PinsCursor, InTurn
  <2> HIDE DEF r
  <2> QED
    BY <2>1, <2>2, <2>4, <2>5, <2>6, OrderlyTurn DEF Counts
<1>8. CASE PinsCursor(t, b) /\ ~b
  <2> DEFINE r == [row EXCEPT !.at = "launch", !.pin = Len(thread), !.cursor = Len(thread)]
  <2>1. turn' = [turn EXCEPT ![t] = r] /\ Listens
    BY <1>8 DEF Listens, PinsCursor, Sets, GoesTo, Over, EndsWithNote, AnsweredEnds
  <2>2. Counts
    BY <1>2, <1>3, <1>8 DEF Counts, PinsCursor, ChatUpset, EndsWithNote
  <2>3. row.at = "pin"
    BY <1>8 DEF PinsCursor, AtTurn
  <2>4. r \in TurnRows
    BY <1>1, <1>2, <1>8 DEF TurnRows, TurnPhases
  <2>5. Orderly(t, r, notes')
    <3>1. row.todo = {} /\ ~row.replied
      BY <2>3 DEF TurnInOrder, Unheard, Persisting
    <3>2. r.at = "launch" /\ r.todo = {} /\ ~r.replied /\ r.pin = r.cursor /\ r.cursor \in 0..Len(thread)
      BY <1>1, <1>2, <3>1 DEF TurnRows
    <3> HIDE DEF r
    <3>3. {e \in DOMAIN thread : r.pin < e /\ e <= r.cursor} = {}
      BY <1>2, <3>2
    <3> QED
      BY <1>2, <3>2, <3>3 DEF Orderly, Unheard, Persisting, RowPhases
  <2>6. PostAgentChat(t) \/ (InTurn(t) /\ overlapped' = overlapped)
    BY <1>8, <2>3 DEF PinsCursor, InTurn
  <2> HIDE DEF r
  <2> QED
    BY <2>1, <2>2, <2>4, <2>5, <2>6, OrderlyTurn DEF Counts
<1>9. CASE PollsSession(t, b) /\ ~(chatAgents > 0 /\ ~b) /\ row.seen
  <2> DEFINE r == [row EXCEPT !.at = "over", !.deserted = TRUE]
  <2>1. turn' = [turn EXCEPT ![t] = r] /\ Listens
    BY <1>9 DEF Listens, PollsSession, Sets, GoesTo, Over, EndsWithNote, AnsweredEnds
  <2>2. Counts
    BY <1>2, <1>3, <1>9 DEF Counts, PollsSession, ChatUpset, EndsWithNote
  <2>3. row.at = "poll"
    BY <1>9 DEF PollsSession, AtTurn
  <2>4. r \in TurnRows /\ HearsNoMore(t, r) /\ r.at = "over" /\ (~r.deserted /\ ~r.mute => t \in notes' \/ r.replied)
    BY <1>1, <1>2, <1>9 DEF TurnRows, TurnPhases, HearsNoMore
  <2>5. Orderly(t, r, notes')
    <3> HIDE DEF r
    <3> QED
      BY <2>3, <2>4, KeepsHeard DEF Unheard, Persisting
  <2>6. PostAgentChat(t) \/ (InTurn(t) /\ overlapped' = overlapped)
    BY <1>9, <2>3 DEF PollsSession, InTurn
  <2> HIDE DEF r
  <2> QED
    BY <2>1, <2>2, <2>4, <2>5, <2>6, OrderlyTurn DEF Counts
<1>10. CASE PollsSession(t, b) /\ ~(~(chatAgents > 0 /\ ~b) /\ row.seen)
  <2> DEFINE r == [row EXCEPT !.at = "drain", !.seen = row.seen \/ (chatAgents > 0 /\ ~b)]
  <2>1. turn' = [turn EXCEPT ![t] = r] /\ Listens
    BY <1>10 DEF Listens, PollsSession, Sets, GoesTo, Over, EndsWithNote, AnsweredEnds
  <2>2. Counts
    BY <1>2, <1>3, <1>10 DEF Counts, PollsSession, ChatUpset, EndsWithNote
  <2>3. row.at = "poll"
    BY <1>10 DEF PollsSession, AtTurn
  <2>4. r \in TurnRows /\ HearsNoMore(t, r) /\ r.at = "drain"
    BY <1>1, <1>2, <1>10 DEF TurnRows, TurnPhases, HearsNoMore
  <2>5. Orderly(t, r, notes')
    <3> HIDE DEF r
    <3> QED
      BY <2>3, <2>4, KeepsHeard DEF Unheard, Persisting
  <2>6. PostAgentChat(t) \/ (InTurn(t) /\ overlapped' = overlapped)
    BY <1>10, <2>3 DEF PollsSession, InTurn
  <2> HIDE DEF r
  <2> QED
    BY <2>1, <2>2, <2>4, <2>5, <2>6, OrderlyTurn DEF Counts
<1>11. CASE DrainsThread(t) /\ NewReplies(t) # {}
  <2> DEFINE r == [row EXCEPT !.at = "prose", !.todo = NewReplies(t), !.cursor = Len(thread),
                          !.replied = TRUE]
  <2>1. turn' = [turn EXCEPT ![t] = r] /\ Listens
    BY <1>11 DEF Listens, DrainsThread, Sets, GoesTo, Over, EndsWithNote, AnsweredEnds
  <2>2. Counts
    BY <1>2, <1>3, <1>11 DEF Counts, DrainsThread, ChatUpset, EndsWithNote
  <2>3. row.at = "drain"
    BY <1>11 DEF DrainsThread, AtTurn
  <2>4. r \in TurnRows
    BY <1>1, <1>2, <1>11 DEF TurnRows, TurnPhases
  <2>5. Orderly(t, r, notes')
    <3>1. /\ r.at = "prose" /\ r.todo = NewReplies(t) /\ r.pin = row.pin /\ r.cursor = Len(thread)
          /\ r.lost = row.lost /\ row.todo = {}
      BY <1>1, <2>3 DEF TurnRows, TurnInOrder, Persisting
    <3> HIDE DEF r
    <3>2. row.pin \in Nat /\ row.cursor \in Nat /\ row.pin <= row.cursor /\ row.cursor <= Len(thread)
      BY <1>1 DEF TurnRows, TurnInOrder
    <3> DEFINE heard == {e \in DOMAIN thread : r.pin < e /\ e <= r.cursor}
    <3>3. r.todo \subseteq heard /\ heard \ r.todo \subseteq Heard(t)
      BY <1>2, <3>1, <3>2 DEF NewReplies, Heard
    <3>4. \A e \in heard \ r.todo : Shown(e) \/ e \in r.lost
      BY <3>1, <3>3 DEF TurnInOrder
    <3> QED
      BY <1>2, <1>11, <3>1, <3>2, <3>3, <3>4 DEF Orderly, Unheard, Persisting, RowPhases
  <2>6. PostAgentChat(t) \/ (InTurn(t) /\ overlapped' = overlapped)
    BY <1>11, <2>3 DEF DrainsThread, InTurn
  <2> HIDE DEF r
  <2> QED
    BY <2>1, <2>2, <2>4, <2>5, <2>6, OrderlyTurn DEF Counts
<1>12. CASE DrainsThread(t) /\ NewReplies(t) = {} /\ row.replied
  <2> DEFINE r == [row EXCEPT !.at = "over"]
  <2>1. turn' = [turn EXCEPT ![t] = r] /\ Listens
    BY <1>12 DEF Listens, DrainsThread, Sets, GoesTo, Over, EndsWithNote, AnsweredEnds
  <2>2. Counts
    BY <1>2, <1>3, <1>12 DEF Counts, DrainsThread, ChatUpset, EndsWithNote
  <2>3. row.at = "drain"
    BY <1>12 DEF DrainsThread, AtTurn
  <2>4. r \in TurnRows /\ HearsNoMore(t, r) /\ r.at = "over" /\ (~r.deserted /\ ~r.mute => t \in notes' \/ r.replied)
    BY <1>1, <1>2, <1>12 DEF TurnRows, TurnPhases, HearsNoMore
  <2>5. Orderly(t, r, notes')
    <3> HIDE DEF r
    <3> QED
      BY <2>3, <2>4, KeepsHeard DEF Unheard, Persisting
  <2>6. PostAgentChat(t) \/ (InTurn(t) /\ overlapped' = overlapped)
    BY <1>12, <2>3 DEF DrainsThread, InTurn
  <2> HIDE DEF r
  <2> QED
    BY <2>1, <2>2, <2>4, <2>5, <2>6, OrderlyTurn DEF Counts
<1>13. CASE DrainsThread(t) /\ NewReplies(t) = {} /\ ~row.replied
  <2> DEFINE r == [row EXCEPT !.at = "poll"]
  <2>1. turn' = [turn EXCEPT ![t] = r] /\ Listens
    BY <1>13 DEF Listens, DrainsThread, Sets, GoesTo, Over, EndsWithNote, AnsweredEnds
  <2>2. Counts
    BY <1>2, <1>3, <1>13 DEF Counts, DrainsThread, ChatUpset, EndsWithNote
  <2>3. row.at = "drain"
    BY <1>13 DEF DrainsThread, AtTurn
  <2>4. r \in TurnRows /\ HearsNoMore(t, r) /\ r.at = "poll"
    BY <1>1, <1>2, <1>13 DEF TurnRows, TurnPhases, HearsNoMore
  <2>5. Orderly(t, r, notes')
    <3> HIDE DEF r
    <3> QED
      BY <2>3, <2>4, KeepsHeard DEF Unheard, Persisting
  <2>6. PostAgentChat(t) \/ (InTurn(t) /\ overlapped' = overlapped)
    BY <1>13, <2>3 DEF DrainsThread, InTurn
  <2> HIDE DEF r
  <2> QED
    BY <2>1, <2>2, <2>4, <2>5, <2>6, OrderlyTurn DEF Counts
<1>14. CASE DrainFails(t)
  <2> DEFINE r == [row EXCEPT !.at = "poll"]
  <2>1. turn' = [turn EXCEPT ![t] = r] /\ Listens
    BY <1>14 DEF Listens, DrainFails, Sets, GoesTo, Over, EndsWithNote, AnsweredEnds
  <2>2. Counts
    BY <1>2, <1>3, <1>14 DEF Counts, DrainFails, ChatUpset, EndsWithNote
  <2>3. row.at = "drain"
    BY <1>14 DEF DrainFails, AtTurn
  <2>4. r \in TurnRows /\ HearsNoMore(t, r) /\ r.at = "poll"
    BY <1>1, <1>2, <1>14 DEF TurnRows, TurnPhases, HearsNoMore
  <2>5. Orderly(t, r, notes')
    <3> HIDE DEF r
    <3> QED
      BY <2>3, <2>4, KeepsHeard DEF Unheard, Persisting
  <2>6. PostAgentChat(t) \/ (InTurn(t) /\ overlapped' = overlapped)
    BY <1>14, <2>3 DEF DrainFails, InTurn
  <2> HIDE DEF r
  <2> QED
    BY <2>1, <2>2, <2>4, <2>5, <2>6, OrderlyTurn DEF Counts
<1>15. CASE TimesOut(t, b) /\ row.replied
  <2> DEFINE r == [row EXCEPT !.at = "over"]
  <2>1. turn' = [turn EXCEPT ![t] = r] /\ Listens
    BY <1>15 DEF Listens, TimesOut, Sets, GoesTo, Over, EndsWithNote, AnsweredEnds
  <2>2. Counts
    BY <1>2, <1>3, <1>15 DEF Counts, TimesOut, ChatUpset, EndsWithNote
  <2>3. row.at = "poll"
    BY <1>15 DEF TimesOut, AtTurn
  <2>4. r \in TurnRows /\ HearsNoMore(t, r) /\ r.at = "over" /\ (~r.deserted /\ ~r.mute => t \in notes' \/ r.replied)
    BY <1>1, <1>2, <1>15 DEF TurnRows, TurnPhases, HearsNoMore
  <2>5. Orderly(t, r, notes')
    <3> HIDE DEF r
    <3> QED
      BY <2>3, <2>4, KeepsHeard DEF Unheard, Persisting
  <2>6. PostAgentChat(t) \/ (InTurn(t) /\ overlapped' = overlapped)
    BY <1>15, <2>3 DEF TimesOut, InTurn
  <2> HIDE DEF r
  <2> QED
    BY <2>1, <2>2, <2>4, <2>5, <2>6, OrderlyTurn DEF Counts
<1>16. CASE TimesOut(t, b) /\ ~row.replied
  <2> DEFINE r == [row EXCEPT !.at = "over", !.mute = b]
  <2>1. turn' = [turn EXCEPT ![t] = r] /\ Listens
    BY <1>16 DEF Listens, TimesOut, Sets, GoesTo, Over, EndsWithNote, AnsweredEnds
  <2>2. Counts
    BY <1>2, <1>3, <1>16 DEF Counts, TimesOut, ChatUpset, EndsWithNote
  <2>3. row.at = "poll"
    BY <1>16 DEF TimesOut, AtTurn
  <2>4. r \in TurnRows /\ HearsNoMore(t, r) /\ r.at = "over" /\ (~r.deserted /\ ~r.mute => t \in notes' \/ r.replied)
    BY <1>1, <1>2, <1>16 DEF TurnRows, TurnPhases, HearsNoMore, TimesOut, EndsWithNote
  <2>5. Orderly(t, r, notes')
    <3> HIDE DEF r
    <3> QED
      BY <2>3, <2>4, KeepsHeard DEF Unheard, Persisting
  <2>6. PostAgentChat(t) \/ (InTurn(t) /\ overlapped' = overlapped)
    BY <1>16, <2>3 DEF TimesOut, InTurn
  <2> HIDE DEF r
  <2> QED
    BY <2>1, <2>2, <2>4, <2>5, <2>6, OrderlyTurn DEF Counts
<1>17. CASE TurnFails(t, b) /\ row.at = "config"
  <2> DEFINE r == [row EXCEPT !.at = "over", !.mute = b]
  <2>1. turn' = [turn EXCEPT ![t] = r] /\ Listens
    BY <1>17 DEF Listens, TurnFails, Sets, GoesTo, Over, EndsWithNote, AnsweredEnds
  <2>2. Counts
    BY <1>2, <1>3, <1>17 DEF Counts, TurnFails, ChatUpset, EndsWithNote
  <2>3. row.at = "config"
    BY <1>17 DEF TurnFails, AtTurn
  <2>4. r \in TurnRows /\ HearsNoMore(t, r) /\ r.at = "over" /\ (~r.deserted /\ ~r.mute => t \in notes' \/ r.replied)
    BY <1>1, <1>2, <1>17 DEF TurnRows, TurnPhases, HearsNoMore, TurnFails, EndsWithNote
  <2>5. Orderly(t, r, notes')
    <3> HIDE DEF r
    <3> QED
      BY <2>3, <2>4, KeepsHeard DEF Unheard, Persisting
  <2>6. PostAgentChat(t) \/ (InTurn(t) /\ overlapped' = overlapped)
    BY <1>17, <2>3 DEF TurnFails, InTurn
  <2> HIDE DEF r
  <2> QED
    BY <2>1, <2>2, <2>4, <2>5, <2>6, OrderlyTurn DEF Counts
<1>18. CASE TurnFails(t, b) /\ row.at = "launch"
  <2> DEFINE r == [row EXCEPT !.at = "over", !.mute = b]
  <2>1. turn' = [turn EXCEPT ![t] = r] /\ Listens
    BY <1>18 DEF Listens, TurnFails, Sets, GoesTo, Over, EndsWithNote, AnsweredEnds
  <2>2. Counts
    BY <1>2, <1>3, <1>18 DEF Counts, TurnFails, ChatUpset, EndsWithNote
  <2>3. row.at = "launch"
    BY <1>18 DEF TurnFails, AtTurn
  <2>4. r \in TurnRows /\ HearsNoMore(t, r) /\ r.at = "over" /\ (~r.deserted /\ ~r.mute => t \in notes' \/ r.replied)
    BY <1>1, <1>2, <1>18 DEF TurnRows, TurnPhases, HearsNoMore, TurnFails, EndsWithNote
  <2>5. Orderly(t, r, notes')
    <3> HIDE DEF r
    <3> QED
      BY <2>3, <2>4, KeepsHeard DEF Unheard, Persisting
  <2>6. PostAgentChat(t) \/ (InTurn(t) /\ overlapped' = overlapped)
    BY <1>18, <2>3 DEF TurnFails, InTurn
  <2> HIDE DEF r
  <2> QED
    BY <2>1, <2>2, <2>4, <2>5, <2>6, OrderlyTurn DEF Counts
<1>19. TurnFails(t, b) => row.at \in {"config", "launch"}
  BY DEF TurnFails, AtTurn
<1> QED
  BY <1>4, <1>5, <1>6, <1>7, <1>8, <1>9, <1>10, <1>11, <1>12, <1>13, <1>14, <1>15, <1>16, <1>17, <1>18, <1>19 DEF QuietStep

\* One row more of the reply in hand.
Wrote(t, shown, more) ==
    more = [shown EXCEPT ![Reply(t)] = shown[Reply(t)] + 1]

\* Whatever was shown still is.
ShowsMore == \A e \in Replies : Shown(e) => Shown(e)'

\* A reply dealt with, shown or lost, leaves the turn with the rest of its
\* batch. (the loop over the drained events)
LEMMA NextInOrder ==
  ASSUME ChatTypeOK, NEW t \in Turns, TurnInOrder(t), turn[t].todo # {},
         NEW e \in Replies, e = Reply(t), NEW lost \in SUBSET {e}, NextReply(t, lost),
         Shown(e)' \/ e \in lost, ShowsMore, thread' = thread, notes' = notes
  PROVE  /\ turn' \in [Turns -> TurnRows] /\ \A u \in Turns \ {t} : turn'[u] = turn[u]
         /\ TurnInOrder(t)' /\ turn'[t].at \in {"poll", "prose"}
<1> DEFINE p == IF turn[t].todo = {e} THEN "poll" ELSE "prose"
           r == [turn[t] EXCEPT !.todo = turn[t].todo \ {e}, !.lost = turn[t].lost \cup lost,
                                !.at = p]
<1>1. /\ turn \in [Turns -> TurnRows] /\ turn[t] \in TurnRows
      /\ e \in turn[t].todo /\ e \in Heard(t) /\ Heard(t) \subseteq Replies
  BY TurnFacts
<1>2. turn' = [turn EXCEPT ![t] = r]
  BY DEF NextReply, Sets
<1>3. p \in {"poll", "prose"} /\ p \in TurnPhases /\ (p = "poll" <=> turn[t].todo = {e})
  BY DEF TurnPhases
<1> HIDE DEF p
<1>4. /\ r \in TurnRows /\ r.at = p /\ r.todo = turn[t].todo \ {e}
      /\ r.lost = turn[t].lost \cup lost
      /\ r.pin = turn[t].pin /\ r.cursor = turn[t].cursor
  BY <1>1, <1>3 DEF TurnRows
<1> HIDE DEF r
<1>5. /\ turn' \in [Turns -> TurnRows] /\ turn'[t] = r
      /\ \A u \in Turns \ {t} : turn'[u] = turn[u]
  BY <1>1, <1>2, <1>4
<1>6. Heard(t)' = Heard(t)
  BY <1>4, <1>5 DEF Heard
<1>7. r.todo = {} <=> p = "poll"
  BY <1>1, <1>3, <1>4
<1>8. \A f \in Heard(t) \ r.todo : Shown(f)' \/ f \in r.lost
  <2>1. ASSUME NEW f \in Heard(t) \ r.todo PROVE Shown(f)' \/ f \in r.lost
    <3>1. CASE f = e
      BY <1>4, <3>1
    <3>2. CASE f # e
      <4>1. Shown(f) \/ f \in turn[t].lost
        BY <1>4, <2>1, <3>2 DEF TurnInOrder
      <4>2. f \in Replies
        BY <1>1, <2>1
      <4>3. Shown(f) => Shown(f)'
        BY <4>2 DEF ShowsMore
      <4>4. turn[t].lost \subseteq r.lost
        BY <1>4
      <4> QED
        BY <4>1, <4>3, <4>4
    <3> QED
      BY <3>1, <3>2
  <2> QED
    BY <2>1
<1>9. TurnInOrder(t)'
  <2>1. turn'[t].todo \subseteq Heard(t)' /\ Heard(t)' # {}
    <3>1. turn[t].todo \subseteq Heard(t)
      BY DEF TurnInOrder
    <3> QED
      BY <1>1, <1>4, <1>5, <1>6, <3>1
  <2>2. \A f \in Heard(t)' \ turn'[t].todo : Shown(f)' \/ f \in turn'[t].lost
    BY <1>5, <1>6, <1>8
  <2>3. /\ turn'[t].pin <= turn'[t].cursor /\ turn'[t].cursor <= Len(thread')
        /\ turn'[t].at \in {"poll", "prose"}
        /\ turn'[t].todo # {} <=> turn'[t].at = "prose"
    BY <1>3, <1>4, <1>5, <1>7 DEF TurnInOrder
  <2> QED
    BY <2>1, <2>2, <2>3 DEF TurnInOrder, Unheard, Persisting
<1> QED
  BY <1>3, <1>4, <1>5, <1>9

\* The turn goes on with the reply it has in hand.
StaysWith(t, p) ==
    \E r \in TurnRows :
        /\ turn' = [turn EXCEPT ![t] = r] /\ r.at = p /\ turn[t].lost \subseteq r.lost
        /\ r.todo = turn[t].todo /\ r.pin = turn[t].pin /\ r.cursor = turn[t].cursor

LEMMA StaysWithReply ==
  ASSUME ChatTypeOK, NEW t \in Turns, TurnInOrder(t), NEW e \in Replies
  PROVE  /\ \A p \in TurnPhases : GoesTo(t, p) => StaysWith(t, p)
         /\ \A lost \in SUBSET {e} :
               Sets(t, [turn[t] EXCEPT !.at = Surface, !.lost = @ \cup lost]) =>
                   StaysWith(t, Surface)
<1>1. turn[t] \in TurnRows
  BY TurnFacts
<1>2. ASSUME NEW p \in TurnPhases, GoesTo(t, p) PROVE StaysWith(t, p)
  <2> DEFINE r == [turn[t] EXCEPT !.at = p]
  <2>1. /\ r \in TurnRows /\ r.at = p /\ turn[t].lost = r.lost
        /\ r.todo = turn[t].todo /\ r.pin = turn[t].pin /\ r.cursor = turn[t].cursor
    BY <1>1, MovesOn
  <2>2. turn' = [turn EXCEPT ![t] = r]
    BY <1>2 DEF GoesTo, Sets
  <2> HIDE DEF r
  <2> QED
    BY <2>1, <2>2 DEF StaysWith
<1>3. ASSUME NEW lost \in SUBSET {e},
             Sets(t, [turn[t] EXCEPT !.at = Surface, !.lost = @ \cup lost])
      PROVE  StaysWith(t, Surface)
  <2> DEFINE r == [turn[t] EXCEPT !.at = Surface, !.lost = turn[t].lost \cup lost]
  <2>1. /\ r \in TurnRows /\ r.at = Surface /\ turn[t].lost \subseteq r.lost
        /\ r.todo = turn[t].todo /\ r.pin = turn[t].pin /\ r.cursor = turn[t].cursor
    BY <1>1 DEF TurnRows, Surface, TurnPhases
  <2>2. turn' = [turn EXCEPT ![t] = r]
    BY <1>3 DEF Sets
  <2> HIDE DEF r
  <2> QED
    BY <2>1, <2>2 DEF StaysWith
<1> QED
  BY <1>2, <1>3

\* Nor does a step inside a reply disturb it. (append_agent_message)
LEMMA InsideInOrder ==
  ASSUME ChatTypeOK, NEW t \in Turns, TurnInOrder(t), turn[t].todo # {},
         NEW p \in RowPhases \cup {"card", "line"}, StaysWith(t, p),
         ShowsMore, thread' = thread, notes' = notes
  PROVE  /\ turn' \in [Turns -> TurnRows] /\ \A u \in Turns \ {t} : turn'[u] = turn[u]
         /\ TurnInOrder(t)' /\ turn'[t].at = p /\ turn'[t].todo = turn[t].todo
<1>1. turn \in [Turns -> TurnRows] /\ Heard(t) \subseteq Replies /\ Heard(t) # {}
  BY TurnFacts
<1>2. PICK r \in TurnRows :
        /\ turn' = [turn EXCEPT ![t] = r] /\ r.at = p /\ turn[t].lost \subseteq r.lost
        /\ r.todo = turn[t].todo /\ r.pin = turn[t].pin /\ r.cursor = turn[t].cursor
  BY DEF StaysWith
<1>3. /\ turn' \in [Turns -> TurnRows] /\ turn'[t] = r
      /\ \A u \in Turns \ {t} : turn'[u] = turn[u]
  BY <1>1, <1>2
<1>4. Heard(t)' = Heard(t)
  BY <1>2, <1>3 DEF Heard
<1>5. \A f \in Heard(t) \ r.todo : Shown(f)' \/ f \in r.lost
  BY <1>1, <1>2 DEF TurnInOrder, ShowsMore
<1>6. TurnInOrder(t)'
  BY <1>1, <1>2, <1>3, <1>4, <1>5 DEF TurnInOrder, Unheard, Persisting, RowPhases
<1> QED
  BY <1>2, <1>3, <1>6

\* A step that persists a reply: it looks for its rows or writes one of them,
\* or fails to. (persist_reply)
PersistStep(t) ==
    \/ AppendLooks(t) \/ AppendWrites(t) \/ AppendFails(t)
    \/ ConfirmLooks(t) \/ ConfirmWrites(t) \/ RefusalWrites(t) \/ ConfirmFails(t)

\* What that means for the rows under the reply's id.
RowsInTurn(t) ==
    \/ /\ prose' = prose /\ cards' = cards
       /\ turn'[t].at \in RowPhases => ~HasRowOf(Reply(t)) /\ turn'[t].todo = turn[t].todo
    \/ /\ turn[t].at \in RowPhases /\ turn'[t].at \notin RowPhases
       /\ \/ Wrote(t, prose, prose') /\ cards' = cards
          \/ Wrote(t, cards, cards') /\ prose' = prose

\* Rows are only added, one to the reply in hand.
LEMMA PersistRows ==
  ASSUME ChatTypeOK, NEW t \in Turns, TurnInOrder(t), PersistStep(t)
  PROVE  /\ turn[t].todo # {} /\ InTurn(t) /\ Reply(t) \in Replies
         /\ UNCHANGED <<profile, session, thread, chatAgents, notes, overlapped>>
         /\ chatUpsets' \in 0..MaxChatUpsets
         /\ prose' \in [Replies -> Nat] /\ cards' \in [Replies -> Nat] /\ lines' \in [Replies -> Nat]
         /\ \A e \in Replies : prose[e] <= prose'[e] /\ cards[e] <= cards'[e] /\ lines[e] <= lines'[e]
         /\ ShowsMore
<1>1. turn[t].at \in Persisting
  BY DEF PersistStep, AppendLooks, AppendWrites, AppendFails, ConfirmLooks, ConfirmWrites,
         RefusalWrites, ConfirmFails, AtTurn, Persisting
<1>2. turn[t].todo # {} /\ InTurn(t)
  BY <1>1 DEF TurnInOrder, InTurn, Persisting
<1>3. Reply(t) \in Replies
  BY <1>2, TurnFacts
<1>4. UNCHANGED <<profile, session, thread, chatAgents, notes, overlapped>>
  BY DEF PersistStep, AppendLooks, AppendWrites, AppendFails, ConfirmLooks, ConfirmWrites,
         RefusalWrites, ConfirmFails
<1>5. chatUpsets' = chatUpsets \/ ChatUpset
  BY DEF PersistStep, AppendLooks, AppendWrites, AppendFails, ConfirmLooks, ConfirmWrites,
         RefusalWrites, ConfirmFails
<1>6. chatUpsets' \in 0..MaxChatUpsets
  BY <1>5, ChatBoundsAssumption DEF ChatUpset, ChatTypeOK
<1>7. /\ prose' = prose \/ Wrote(t, prose, prose')
      /\ cards' = cards \/ Wrote(t, cards, cards')
      /\ lines' = lines \/ Wrote(t, lines, lines')
  BY DEF PersistStep, AppendLooks, AppendWrites, AppendFails, ConfirmLooks, ConfirmWrites,
         RefusalWrites, ConfirmFails, Wrote
<1>8. prose \in [Replies -> Nat] /\ cards \in [Replies -> Nat] /\ lines \in [Replies -> Nat]
  BY DEF ChatTypeOK
<1>9. /\ prose' \in [Replies -> Nat] /\ \A e \in Replies : prose[e] <= prose'[e]
      /\ cards' \in [Replies -> Nat] /\ \A e \in Replies : cards[e] <= cards'[e]
      /\ lines' \in [Replies -> Nat] /\ \A e \in Replies : lines[e] <= lines'[e]
  <2>1. prose' \in [Replies -> Nat] /\ \A e \in Replies : prose[e] <= prose'[e]
    BY <1>3, <1>7, <1>8 DEF Wrote
  <2>2. cards' \in [Replies -> Nat] /\ \A e \in Replies : cards[e] <= cards'[e]
    BY <1>3, <1>7, <1>8 DEF Wrote
  <2>3. lines' \in [Replies -> Nat] /\ \A e \in Replies : lines[e] <= lines'[e]
    BY <1>3, <1>7, <1>8 DEF Wrote
  <2> QED
    BY <2>1, <2>2, <2>3
<1>10. ShowsMore
  BY <1>8, <1>9 DEF ShowsMore, Shown
<1> QED
  BY <1>2, <1>3, <1>4, <1>6, <1>9, <1>10

\* The reply in hand is dealt with, shown or lost, or the turn stays with it.
GetsOn(t, e) ==
    \/ \E lost \in SUBSET {e} : NextReply(t, lost) /\ (Shown(e)' \/ e \in lost)
    \/ \E p \in RowPhases \cup {"card", "line"} :
          StaysWith(t, p) /\ (p \in RowPhases => ~HasRowOf(Reply(t)) /\ prose' = prose /\ cards' = cards)

LEMMA PersistGetsOn ==
  ASSUME ChatTypeOK, NEW t \in Turns, TurnInOrder(t), PersistStep(t), NEW e \in Replies, e = Reply(t)
  PROVE  GetsOn(t, e)
<1>1. /\ prose \in [Replies -> Nat] /\ cards \in [Replies -> Nat] /\ lines \in [Replies -> Nat]
  BY DEF ChatTypeOK
<1>2. {} \in SUBSET {e} /\ {e} \in SUBSET {e} /\ RowPhases \subseteq TurnPhases
  BY DEF RowPhases, TurnPhases
<1>3. ASSUME NEW lost \in SUBSET {e}, AfterProse(t, lost),
             ~Proposes(e) => Shown(e)' \/ e \in lost
      PROVE  GetsOn(t, e)
  <2>1. CASE Proposes(e)
    <3>1. StaysWith(t, Surface)
      BY <1>3, <2>1, StaysWithReply DEF AfterProse
    <3>2. Surface \in {"card", "line"}
      BY DEF Surface
    <3> QED
      BY <3>1, <3>2 DEF GetsOn, RowPhases
  <2>2. CASE ~Proposes(e)
    BY <1>3, <2>2 DEF AfterProse, GetsOn
  <2> QED
    BY <2>1, <2>2
<1>4. CASE AppendLooks(t)
  <2>1. CASE HasProse(e) /\ ~HasRowOf(e)
    <3>1. GoesTo(t, "proseRow") /\ prose' = prose /\ cards' = cards
      BY <1>4, <2>1 DEF AppendLooks
    <3>2. StaysWith(t, "proseRow")
      BY <1>2, <3>1, StaysWithReply DEF RowPhases
    <3> QED
      BY <2>1, <3>1, <3>2 DEF GetsOn, RowPhases
  <2>2. CASE ~(HasProse(e) /\ ~HasRowOf(e))
    <3>1. AfterProse(t, {}) /\ UNCHANGED <<prose, cards, lines>>
      BY <1>4, <2>2 DEF AppendLooks
    <3>2. ~Proposes(e) => HasRowOf(e)
      BY <2>2 DEF Proposes, HasProse
    <3>3. HasRowOf(e) => Shown(e)'
      BY <1>1, <3>1 DEF HasRowOf, Shown
    <3> QED
      BY <1>2, <1>3, <3>1, <3>2, <3>3
  <2> QED
    BY <2>1, <2>2
<1>5. CASE AppendWrites(t)
  <2>1. AfterProse(t, {}) /\ Wrote(t, prose, prose') /\ UNCHANGED <<cards, lines>>
    BY <1>5 DEF AppendWrites, Wrote
  <2>2. Shown(e)'
    BY <1>1, <2>1 DEF Wrote, Shown
  <2> QED
    BY <1>2, <1>3, <2>1, <2>2
<1>6. CASE AppendFails(t)
  BY <1>2, <1>3, <1>6 DEF AppendFails
<1>7. CASE ConfirmLooks(t)
  <2>1. UNCHANGED <<prose, cards, lines>>
    BY <1>7 DEF ConfirmLooks
  <2>2. CASE HasRowOf(e)
    <3>1. Shown(e)'
      BY <1>1, <2>1, <2>2 DEF HasRowOf, Shown
    <3> QED
      BY <1>2, <1>7, <2>2, <3>1 DEF ConfirmLooks, GetsOn
  <2>3. CASE ~HasRowOf(e)
    <3>1. StaysWith(t, "cardRow")
      BY <1>2, <1>7, <2>3, StaysWithReply DEF ConfirmLooks, RowPhases
    <3> QED
      BY <2>1, <2>3, <3>1 DEF GetsOn, RowPhases
  <2> QED
    BY <2>2, <2>3
<1>8. CASE ConfirmWrites(t)
  <2>1. NextReply(t, {}) /\ Wrote(t, cards, cards') /\ UNCHANGED <<prose, lines>>
    BY <1>8 DEF ConfirmWrites, Wrote
  <2>2. Shown(e)'
    BY <1>1, <2>1 DEF Wrote, Shown
  <2> QED
    BY <1>2, <2>1, <2>2 DEF GetsOn
<1>9. CASE RefusalWrites(t)
  <2>1. NextReply(t, {}) /\ Wrote(t, lines, lines') /\ UNCHANGED <<prose, cards>>
    BY <1>9 DEF RefusalWrites, Wrote
  <2>2. Shown(e)'
    BY <1>1, <2>1 DEF Wrote, Shown
  <2> QED
    BY <1>2, <2>1, <2>2 DEF GetsOn
<1>10. CASE ConfirmFails(t)
  BY <1>2, <1>10 DEF ConfirmFails, GetsOn
<1> QED
  BY <1>4, <1>5, <1>6, <1>7, <1>8, <1>9, <1>10 DEF PersistStep

\* The steps that persist keep the turn in order, also when the store fails.
\* (append_agent_message, append_confirm_request)
LEMMA PersistSteps ==
  ASSUME ChatTypeOK, NEW t \in Turns, TurnInOrder(t), PersistStep(t)
  PROVE  /\ ChatTypeOK' /\ \A u \in Turns \ {t} : turn'[u] = turn[u]
         /\ TurnInOrder(t)' /\ RowsInTurn(t)
<1>1. /\ turn[t].todo # {} /\ Reply(t) \in Replies
      /\ UNCHANGED <<profile, session, thread, chatAgents, notes, overlapped>>
      /\ chatUpsets' \in 0..MaxChatUpsets
      /\ prose' \in [Replies -> Nat] /\ cards' \in [Replies -> Nat] /\ lines' \in [Replies -> Nat]
      /\ ShowsMore
  BY PersistRows
<1>2. PICK e \in Replies : e = Reply(t)
  BY <1>1
<1>3. GetsOn(t, e)
  BY <1>2, PersistGetsOn
<1>4. /\ turn' \in [Turns -> TurnRows] /\ \A u \in Turns \ {t} : turn'[u] = turn[u]
      /\ TurnInOrder(t)'
      /\ turn'[t].at \in RowPhases =>
            ~HasRowOf(Reply(t)) /\ turn'[t].todo = turn[t].todo /\ prose' = prose /\ cards' = cards
  <2>1. CASE \E lost \in SUBSET {e} : NextReply(t, lost) /\ (Shown(e)' \/ e \in lost)
    BY <1>1, <1>2, <2>1, NextInOrder DEF RowPhases
  <2>2. CASE \E p \in RowPhases \cup {"card", "line"} :
               StaysWith(t, p) /\ (p \in RowPhases => ~HasRowOf(Reply(t)) /\ prose' = prose /\ cards' = cards)
    BY <1>1, <2>2, InsideInOrder
  <2> QED
    BY <1>3, <2>1, <2>2 DEF GetsOn
<1>5. ChatTypeOK'
  BY <1>1, <1>4 DEF ChatTypeOK, TurnRows
<1>6. RowsInTurn(t)
  <2>1. CASE prose' = prose /\ cards' = cards
    BY <1>4, <2>1 DEF RowsInTurn
  <2>2. CASE ~(prose' = prose /\ cards' = cards)
    <3>1. \/ turn[t].at = "proseRow" /\ Wrote(t, prose, prose') /\ cards' = cards
          \/ turn[t].at = "cardRow" /\ Wrote(t, cards, cards') /\ prose' = prose
      BY <2>2 DEF PersistStep, AppendLooks, AppendWrites, AppendFails, ConfirmLooks, ConfirmWrites,
                  RefusalWrites, ConfirmFails, Wrote, AtTurn
    <3> QED
      BY <1>4, <2>2, <3>1 DEF RowsInTurn, RowPhases
  <2> QED
    BY <2>1, <2>2
<1> QED
  BY <1>4, <1>5, <1>6

\* The agents add to the thread and die; no turn moves. (hcom)
LEMMA AgentSteps ==
  ASSUME ChatTypeOK,
         (\E form \in Forms : AgentReplies(form)) \/ (\E all \in BOOLEAN : AgentsGo(all))
  PROVE  /\ ChatTypeOK' /\ UNCHANGED <<turn, prose, cards, lines, notes, overlapped>>
         /\ Len(thread) <= Len(thread')
<1>1. thread \in Seq(Forms) /\ Len(thread) \in 0..MaxReplies /\ chatAgents \in Nat
      /\ chatUpsets \in 0..MaxChatUpsets
  BY ThreadIds DEF ChatTypeOK
<1>2. CASE \E form \in Forms : AgentReplies(form)
  <2>1. thread' \in Seq(Forms) /\ Len(thread') <= MaxReplies /\ Len(thread) <= Len(thread')
    BY <1>1, <1>2, ChatBoundsAssumption DEF AgentReplies
  <2> QED
    BY <1>2, <2>1 DEF AgentReplies, ChatTypeOK
<1>3. CASE \E all \in BOOLEAN : AgentsGo(all)
  <2>1. chatAgents' \in Nat /\ chatUpsets' \in 0..MaxChatUpsets
    BY <1>1, <1>3, ChatBoundsAssumption DEF AgentsGo, ChatUpset
  <2> QED
    BY <1>1, <1>3, <2>1 DEF AgentsGo, ChatTypeOK
<1> QED
  BY <1>2, <1>3

\* No turn is under way, or only this one, and it goes on.
LEMMA RowsByQuiet ==
  ASSUME ChatTypeOK, OneRowEach, NEW t \in Turns,
         \A u \in Turns \ {t} : turn'[u] = turn[u],
         UNCHANGED <<prose, cards>>, turn'[t].at \notin RowPhases,
         PostAgentChat(t) \/ (InTurn(t) /\ overlapped' = overlapped)
  PROVE  OneRowEach'
<1> SUFFICES ASSUME ~overlapped'
             PROVE  /\ \A u, v \in Turns : InTurn(u)' /\ InTurn(v)' => u = v
                    /\ \A e \in Replies : prose'[e] + cards'[e] <= 1
                    /\ \A u \in Turns : turn'[u].at \in RowPhases => ~HasRowOf(Reply(u))'
  BY DEF OneRowEach
<1>1. ~overlapped /\ \A u \in Turns \ {t} : ~InTurn(u)
  <2>1. CASE PostAgentChat(t)
    <3>1. overlapped' = (overlapped \/ \E u \in Turns : InTurn(u))
      BY <2>1 DEF PostAgentChat
    <3> QED
      BY <3>1, Zenon
  <2>2. CASE InTurn(t) /\ overlapped' = overlapped
    <3>1. ~overlapped
      BY <2>2, Zenon
    <3> QED
      BY <2>2, <3>1 DEF OneRowEach
  <2> QED
    BY <2>1, <2>2
<1>2. \A u \in Turns \ {t} : ~InTurn(u)' /\ turn'[u].at \notin RowPhases
  BY <1>1 DEF InTurn, RowPhases
<1> QED
  BY <1>1, <1>2 DEF OneRowEach

\* The only turn looks for a row, or writes the first of a reply.
LEMMA RowsByPersisting ==
  ASSUME ChatTypeOK, OneRowEach, NEW t \in Turns, TurnInOrder(t), InTurn(t), overlapped' = overlapped,
         \A u \in Turns \ {t} : turn'[u] = turn[u], RowsInTurn(t), turn[t].todo # {}
  PROVE  OneRowEach'
<1> SUFFICES ASSUME ~overlapped'
             PROVE  /\ \A u, v \in Turns : InTurn(u)' /\ InTurn(v)' => u = v
                    /\ \A e \in Replies : prose'[e] + cards'[e] <= 1
                    /\ \A u \in Turns : turn'[u].at \in RowPhases => ~HasRowOf(Reply(u))'
  BY DEF OneRowEach
<1>1. ~overlapped /\ \A u \in Turns \ {t} : ~InTurn(u)
  BY DEF OneRowEach
<1>2. \A u \in Turns \ {t} : ~InTurn(u)' /\ turn'[u].at \notin RowPhases
  BY <1>1 DEF InTurn, RowPhases
<1>3. /\ prose \in [Replies -> Nat] /\ cards \in [Replies -> Nat] /\ Reply(t) \in Replies
      /\ \A e \in Replies : prose[e] + cards[e] <= 1
  BY <1>1, TurnFacts DEF ChatTypeOK, OneRowEach
<1>4. \A e \in Replies : prose'[e] + cards'[e] <= 1
  <2>1. CASE turn[t].at \in RowPhases
    <3>1. prose[Reply(t)] = 0 /\ cards[Reply(t)] = 0
      BY <1>1, <1>3, <2>1 DEF OneRowEach, HasRowOf
    <3> QED
      BY <1>3, <3>1 DEF RowsInTurn, Wrote
  <2>2. CASE turn[t].at \notin RowPhases
    BY <1>3, <2>2 DEF RowsInTurn
  <2> QED
    BY <2>1, <2>2
<1>5. turn'[t].at \in RowPhases => ~HasRowOf(Reply(t))'
  BY DEF RowsInTurn, HasRowOf, Reply
<1> QED
  BY <1>2, <1>4, <1>5

\* Every step keeps types, turns and rows in order.
LEMMA ChatKept == ChatInv /\ [ChatNext]_chatVars => ChatInv'
<1> SUFFICES ASSUME ChatInv, [ChatNext]_chatVars PROVE ChatInv'
  OBVIOUS
<1>1. ChatTypeOK /\ (\A t \in Turns : TurnInOrder(t)) /\ OneRowEach
  BY DEF ChatInv
<1>2. /\ prose \in [Replies -> Nat] /\ cards \in [Replies -> Nat] /\ lines \in [Replies -> Nat]
      /\ Len(thread) \in Nat
  BY <1>1, ThreadIds DEF ChatTypeOK
<1>3. CASE UNCHANGED chatVars
  <2>1. UNCHANGED <<profile, session, thread, chatAgents, turn, prose, cards, lines, notes,
                    overlapped, chatUpsets>>
    BY <1>3 DEF chatVars
  <2> QED
    BY <1>1, <2>1 DEF ChatInv, ChatTypeOK, TurnInOrder, Heard, Shown, OneRowEach, InTurn, HasRowOf,
                      Reply
<1>4. ASSUME NEW t \in Turns, NEW b \in BOOLEAN, QuietStep(t, b)
      PROVE  ChatInv'
  <2>1. /\ ChatTypeOK' /\ \A u \in Turns \ {t} : turn'[u] = turn[u]
        /\ Listens /\ notes \subseteq notes'
        /\ TurnInOrder(t)' /\ turn'[t].at \notin RowPhases
        /\ PostAgentChat(t) \/ (InTurn(t) /\ overlapped' = overlapped)
    BY <1>1, <1>4, QuietTurns
  <2>2. UNCHANGED <<thread, prose, cards, lines>>
    BY <2>1 DEF Listens
  <2>3. \A u \in Turns \ {t} : TurnInOrder(u)'
    BY <1>1, <1>2, <2>1, <2>2, OthersInOrder
  <2>4. OneRowEach'
    BY <1>1, <2>1, <2>2, RowsByQuiet
  <2> QED
    BY <2>1, <2>3, <2>4 DEF ChatInv
<1>5. ASSUME NEW t \in Turns, PersistStep(t)
      PROVE  ChatInv'
  <2>1. /\ ChatTypeOK' /\ \A u \in Turns \ {t} : turn'[u] = turn[u]
        /\ TurnInOrder(t)' /\ RowsInTurn(t)
    BY <1>1, <1>5, PersistSteps
  <2>2. /\ turn[t].todo # {} /\ InTurn(t) /\ UNCHANGED <<thread, notes, overlapped>>
        /\ \A e \in Replies : prose[e] <= prose'[e] /\ cards[e] <= cards'[e] /\ lines[e] <= lines'[e]
    BY <1>1, <1>5, PersistRows
  <2>3. \A u \in Turns \ {t} : TurnInOrder(u)'
    BY <1>1, <1>2, <2>1, <2>2, OthersInOrder
  <2>4. OneRowEach'
    BY <1>1, <2>1, <2>2, RowsByPersisting
  <2> QED
    BY <2>1, <2>3, <2>4 DEF ChatInv
<1>6. ASSUME (\E form \in Forms : AgentReplies(form)) \/ (\E all \in BOOLEAN : AgentsGo(all))
      PROVE  ChatInv'
  <2>1. /\ ChatTypeOK' /\ UNCHANGED <<turn, prose, cards, lines, notes, overlapped>>
        /\ Len(thread) <= Len(thread')
    BY <1>1, <1>6, AgentSteps
  <2>2. \A u \in Turns : TurnInOrder(u)'
    BY <1>1, <1>2, <2>1, OthersInOrder
  <2>3. OneRowEach'
    BY <1>1, <2>1 DEF OneRowEach, InTurn, HasRowOf, Reply
  <2> QED
    BY <2>1, <2>2, <2>3 DEF ChatInv
<1>7. ASSUME NEW t \in Turns, PostAgentChat(t) \/ TurnSteps(t)
      PROVE  PersistStep(t) \/ \E b \in BOOLEAN : QuietStep(t, b)
  BY <1>7 DEF TurnSteps, PersistStep, QuietStep
<1> QED
  BY <1>3, <1>4, <1>5, <1>6, <1>7 DEF ChatNext

\* Nothing is said, posted or shown before the first post.
LEMMA ChatAtFirst == ChatInit => ChatInv
<1> SUFFICES ASSUME ChatInit PROVE ChatInv
  OBVIOUS
<1>1. [profile |-> profile, session |-> session] \in Chats
  BY ChatsAssumption DEF ChatInit
<1>2. /\ thread \in Seq(Forms) /\ Len(thread) = 0 /\ thread = <<>>
      /\ MaxReplies \in Nat /\ MaxChatUpsets \in Nat
  BY ChatBoundsAssumption DEF ChatInit
<1>3. NewTurn \in TurnRows
  BY <1>2 DEF NewTurn, TurnRows, TurnPhases
<1>4. turn \in [Turns -> TurnRows] /\ \A t \in Turns : turn[t] = NewTurn
  BY <1>3 DEF ChatInit
<1>5. ChatTypeOK
  BY <1>1, <1>2, <1>4 DEF ChatInit, ChatTypeOK, TurnRows
<1>6. \A t \in Turns : TurnInOrder(t)
  BY <1>2, <1>4 DEF TurnInOrder, NewTurn, Heard, Unheard, Persisting
<1>7. OneRowEach
  BY <1>4 DEF OneRowEach, InTurn, NewTurn, ChatInit, RowPhases
<1> QED
  BY <1>5, <1>6, <1>7 DEF ChatInv

\* A reply makes one message and one card in the conversation at most, as long
\* as turns do not overlap, even if one drains the thread from its beginning.
\* (append_agent_message)
THEOREM RepliesAppearOnce == ChatSpec => []NoReplyTwice
<1>1. ChatInv => NoReplyTwice
  BY DEF ChatInv, OneRowEach, NoReplyTwice, ChatTypeOK
<1> QED
  BY <1>1, ChatAtFirst, ChatKept, PTL DEF ChatSpec

\* When a turn is over, each reply it took from the thread is shown, unless an
\* append of that reply failed, and if it took none it has left a note, unless
\* that could not be appended or no agent was alive any more: for any number of
\* turns and replies, however turns overlap and whatever calls fail.
\* (stream_replies, persist_reply, post_agent_chat)
THEOREM TurnsAreAnswered == ChatSpec => []TurnIsAnswered
<1>1. ChatInv => TurnIsAnswered
  <2>1. ASSUME ChatInv, NEW t \in Turns, AtTurn(t, "over")
        PROVE  /\ \A e \in Heard(t) : Shown(e) \/ e \in turn[t].lost
               /\ Heard(t) = {} => t \in notes \/ turn[t].mute \/ turn[t].deserted
    BY <2>1 DEF ChatInv, TurnInOrder, AtTurn, Persisting
  <2> QED
    BY <2>1 DEF TurnIsAnswered
<1> QED
  BY <1>1, ChatAtFirst, ChatKept, PTL DEF ChatSpec

-----------------------------------------------------------------------------
(***************************************************************************)
(* The panel. A request is a record whose commands come one after the      *)
(* other; one that has acted and not yet looked finds what it acted on as  *)
(* it left it, or knows that somebody has been there.                      *)
(***************************************************************************)
PanelVerbs == {"none", "list", "view", "create", "close", "merge", "comment", "comments", "auth",
               "trees", "remove", "prune"}
Acts == {"close", "merge"}
LeavesAs(verb) == IF verb = "close" THEN "CLOSED" ELSE "MERGED"

RequestOfFields(req) ==
    req \in [verb : {req.verb}, on : {req.on}, how : {req.how}, left : {req.left},
             shown : {req.shown}, answered : {req.answered}, overtaken : {req.overtaken}]

LeftInOrder(req) ==
    /\ req.verb \in PanelVerbs
    /\ req.verb \in Acts => req.left \in {<<req.verb, "view">>, <<"view">>, <<>>}
    /\ req.verb = "remove" => req.left \in {<<"trees", "remove">>, <<"remove">>, <<>>}
    /\ req.verb \notin Acts \cup {"remove"} => req.left \in {<<req.verb>>, <<>>}
    /\ req.verb \in Acts \cup {"create"} => req.on \in Numbers

\* What is shown at the end.
ShownIsDone(req) ==
    req.answered =>
        /\ req.left = <<>>
        /\ ~req.overtaken /\ req.verb \in Acts => req.shown = LeavesAs(req.verb)
        /\ req.verb = "remove" => req.on \in Linked /\ (req.shown = "dirty" => req.how)

\* Between the act and the look.
ActStands(req, items) ==
    req.verb \in Acts /\ req.left = <<"view">> /\ ~req.overtaken
        => items[req.on] = LeavesAs(req.verb)

RequestSound(req, items) ==
    RequestOfFields(req) /\ LeftInOrder(req) /\ ShownIsDone(req) /\ ActStands(req, items)

PanelInv ==
    /\ request = [c \in PanelClients |-> request[c]]
    /\ item = [n \in Numbers |-> item[n]]
    /\ \A c \in PanelClients : RequestSound(request[c], item)

\* The sequences of commands, taken apart.
LEMMA CommandsInTurn ==
    /\ \A v : Tail(<<v>>) = <<>> /\ Head(<<v>>) = v /\ <<v>> # <<>>
    /\ \A v, w : Tail(<<v, w>>) = <<w>> /\ Head(<<v, w>>) = v /\ <<v, w>> # <<>>
    /\ \A v, w, u : <<v, w>> # <<u>>
<1>1. \A v : Tail(<<v>>) = <<>> /\ Head(<<v>>) = v /\ <<v>> # <<>>
  OBVIOUS
<1>2. \A v, w : Tail(<<v, w>>) = <<w>> /\ Head(<<v, w>>) = v /\ <<v, w>> # <<>>
  OBVIOUS
<1>3. \A v, w, u : <<v, w>> # <<u>>
  <2> TAKE v, w, u
  <2>1. Len(<<v, w>>) = 2 /\ Len(<<u>>) = 1
    OBVIOUS
  <2> QED BY <2>1
<1> QED BY <1>1, <1>2, <1>3

\* No request, and what others do to one.
LEMMA NoRequestIsSound == \A items : RequestSound(NoRequest, items)
BY Zenon DEF RequestSound, RequestOfFields, LeftInOrder, ShownIsDone, ActStands, NoRequest,
   PanelVerbs, Acts

LEMMA OvertakenIsSound ==
    ASSUME NEW req, NEW items, NEW later, RequestSound(req, items), req.left # <<>>
    PROVE  RequestSound([req EXCEPT !.overtaken = TRUE], later)
<1> DEFINE o == [req EXCEPT !.overtaken = TRUE]
<1>0. RequestOfFields(req)
  BY DEF RequestSound
<1>1. /\ o \in [verb : {req.verb}, on : {req.on}, how : {req.how}, left : {req.left},
                shown : {req.shown}, answered : {req.answered}, overtaken : {TRUE}]
      /\ o.overtaken = TRUE
  BY <1>0 DEF RequestOfFields
<1> HIDE DEF o
<1>2. /\ o.verb = req.verb /\ o.on = req.on /\ o.left = req.left /\ o.answered = req.answered
      /\ o.how = req.how /\ o.shown = req.shown /\ o.overtaken = TRUE
  BY <1>1
<1>3. RequestOfFields(o)
  BY <1>1, <1>2, Zenon DEF RequestOfFields
<1>4. RequestSound(o, later)
  BY <1>2, <1>3, Zenon DEF RequestSound, LeftInOrder, ShownIsDone, ActStands
<1> QED BY <1>4 DEF o

LEMMA UntouchedIsSound ==
    ASSUME NEW req, NEW items, NEW later, RequestSound(req, items),
           req.left = <<>> \/ (req.on \in Numbers => later[req.on] = items[req.on])
    PROVE  RequestSound(req, later)
<1>1. req.verb \in Acts => req.on \in Numbers
  BY DEF RequestSound, LeftInOrder
<1>2. req.left = <<>> => req.left # <<"view">>
  BY CommandsInTurn
<1> QED BY <1>1, <1>2, Zenon DEF RequestSound, ActStands

\* An item moves and the requests about it know.
LEMMA OvertakingIsSound ==
    ASSUME PanelInv, NEW of, NEW later, \A n \in Numbers : n # of => later[n] = item[n],
           NEW c \in PanelClients
    PROVE  RequestSound(Overtaken(of)[c], later)
<1>1. RequestSound(request[c], item)
  BY DEF PanelInv
<1>2. CASE request[c].on = of /\ request[c].left # <<>>
  <2>1. Overtaken(of)[c] = [request[c] EXCEPT !.overtaken = TRUE]
    BY <1>2 DEF Overtaken
  <2> QED BY <1>1, <1>2, <2>1, OvertakenIsSound
<1>3. CASE ~(request[c].on = of /\ request[c].left # <<>>)
  <2>1. Overtaken(of)[c] = request[c]
    BY <1>3 DEF Overtaken
  <2>2. RequestSound(request[c], later)
    BY <1>1, <1>3, UntouchedIsSound
  <2> QED BY <2>1, <2>2
<1> QED BY <1>2, <1>3

LEMMA OvertakenByClient == \A of : Overtaken(of) = [c \in PanelClients |-> Overtaken(of)[c]]
BY DEF Overtaken

\* A request that has failed is gone.
LEMMA DropsGives ==
    ASSUME PanelInv, NEW c \in PanelClients, DropsRequest(c), item' = item
    PROVE  PanelInv'
BY NoRequestIsSound DEF PanelInv, DropsRequest

\* The request before a command of its own, with the others as it leaves them.
LEMMA CommandKeepsSound ==
    ASSUME PanelInv, NEW c \in PanelClients, NEW reqs, NEW shows,
           reqs = [d \in PanelClients |-> reqs[d]], reqs[c] = request[c],
           \A d \in PanelClients \ {c} : RequestSound(reqs[d], item'),
           item' = [n \in Numbers |-> item'[n]],
           request' = Prints(reqs, c, shows),
           \A p : /\ RequestOfFields(p)
                  /\ p.verb = request[c].verb /\ p.on = request[c].on /\ p.how = request[c].how
                  /\ p.left = Tail(request[c].left) /\ p.shown = shows
                  /\ p.answered = (Tail(request[c].left) = <<>>)
                  /\ p.overtaken = request[c].overtaken
                  => RequestSound(p, item')
    PROVE  PanelInv'
<1>1. RequestOfFields(reqs[c])
  BY DEF PanelInv, RequestSound
<1>2. /\ request' = [d \in PanelClients |-> request'[d]]
      /\ \A d \in PanelClients \ {c} : request'[d] = reqs[d]
      /\ RequestOfFields(request'[c])
      /\ request'[c].verb = request[c].verb /\ request'[c].on = request[c].on
      /\ request'[c].how = request[c].how
      /\ request'[c].left = Tail(request[c].left) /\ request'[c].shown = shows
      /\ request'[c].answered = (Tail(request[c].left) = <<>>)
      /\ request'[c].overtaken = request[c].overtaken
  <2>1. reqs[c] \in [verb : {reqs[c].verb}, on : {reqs[c].on}, how : {reqs[c].how},
                     left : {reqs[c].left}, shown : {reqs[c].shown},
                     answered : {reqs[c].answered}, overtaken : {reqs[c].overtaken}]
    BY <1>1 DEF RequestOfFields
  <2>2. /\ request' = [d \in PanelClients |-> request'[d]]
        /\ \A d \in PanelClients \ {c} : request'[d] = reqs[d]
        /\ request'[c] = [reqs[c] EXCEPT !.left = Tail(@), !.shown = shows,
                                        !.answered = (Tail(reqs[c].left) = <<>>)]
    BY DEF Prints
  <2>3. request'[c] \in [verb : {reqs[c].verb}, on : {reqs[c].on}, how : {reqs[c].how},
                        left : {Tail(reqs[c].left)}, shown : {shows},
                        answered : {Tail(reqs[c].left) = <<>>}, overtaken : {reqs[c].overtaken}]
    BY <2>1, <2>2
  <2>4. /\ request'[c].verb = reqs[c].verb /\ request'[c].on = reqs[c].on
        /\ request'[c].how = reqs[c].how
        /\ request'[c].left = Tail(reqs[c].left) /\ request'[c].shown = shows
        /\ request'[c].answered = (Tail(reqs[c].left) = <<>>)
        /\ request'[c].overtaken = reqs[c].overtaken
    BY <2>3
  <2>5. RequestOfFields(request'[c])
    BY <2>3, <2>4, Zenon DEF RequestOfFields
  <2> QED BY <2>2, <2>4, <2>5
<1>3. RequestSound(request'[c], item')
  BY <1>2
<1>4. \A d \in PanelClients : RequestSound(request'[d], item')
  BY <1>2, <1>3
<1> QED BY <1>2, <1>4 DEF PanelInv

\* A command that leaves the items alone: all but the acts and the removal.
LEMMA LookKeepsSound ==
    ASSUME PanelInv, NEW c \in PanelClients, NEW command, AtCommand(c, command),
           command \notin Acts \cup {"remove"}, NEW shows,
           command = "view" => shows = item[request[c].on],
           item' = item, request' = Prints(request, c, shows)
    PROVE  PanelInv'
<1>1. /\ RequestSound(request[c], item) /\ Head(request[c].left) = command
      /\ request[c].left # <<>>
  BY DEF PanelInv, AtCommand
<1>2. ASSUME NEW p, RequestOfFields(p),
             p.verb = request[c].verb, p.on = request[c].on, p.how = request[c].how,
             p.left = Tail(request[c].left), p.shown = shows,
             p.answered = (Tail(request[c].left) = <<>>),
             p.overtaken = request[c].overtaken
      PROVE  RequestSound(p, item)
  <2>1. CASE request[c].verb \in Acts
    <3>1. request[c].left = <<"view">> /\ command = "view"
      BY <1>1, <2>1, CommandsInTurn DEF RequestSound, LeftInOrder
    <3>2. p.left = <<>> /\ <<>> # <<"view">>
      BY <1>2, <3>1, CommandsInTurn
    <3>3. ~p.overtaken => p.shown = LeavesAs(p.verb)
      BY <1>1, <1>2, <2>1, <3>1 DEF RequestSound, ActStands
    <3> QED BY <1>1, <1>2, <2>1, <3>2, <3>3, Zenon
            DEF RequestSound, LeftInOrder, ShownIsDone, ActStands, Acts
  <2>2. CASE request[c].verb = "remove"
    <3>1. request[c].left = <<"trees", "remove">>
      BY <1>1, <2>2, CommandsInTurn DEF RequestSound, LeftInOrder
    <3>2. p.left = <<"remove">> /\ p.left # <<>>
      BY <1>2, <3>1, CommandsInTurn
    <3>3. ~p.answered
      BY <1>2, <3>2
    <3>4. p.verb = "remove" /\ p.verb \in PanelVerbs /\ p.verb \notin Acts
          /\ p.verb \notin Acts \cup {"create"}
      BY <1>2, <2>2 DEF PanelVerbs, Acts
    <3> QED BY <1>2, <3>2, <3>3, <3>4, Zenon
            DEF RequestSound, LeftInOrder, ShownIsDone, ActStands
  <2>3. CASE request[c].verb \notin Acts \cup {"remove"}
    <3>1. request[c].left = <<request[c].verb>>
      BY <1>1, <2>3 DEF RequestSound, LeftInOrder
    <3>2. p.left = <<>>
      BY <1>2, <3>1, CommandsInTurn
    <3> QED BY <1>1, <1>2, <2>3, <3>2, Zenon
            DEF RequestSound, LeftInOrder, ShownIsDone, ActStands
  <2> QED BY <2>1, <2>2, <2>3
<1>3. \A d \in PanelClients \ {c} : RequestSound(request[d], item)
  BY DEF PanelInv
<1>4. request = [d \in PanelClients |-> request[d]] /\ item = [n \in Numbers |-> item[n]]
  BY DEF PanelInv
<1> QED BY <1>2, <1>3, <1>4, CommandKeepsSound

\* An act leaves its item as its look will show it.
LEMMA ActKeepsSound ==
    ASSUME PanelInv, NEW c \in PanelClients, NEW command \in Acts \cup {"create"}, NEW from, NEW to,
           command \in Acts => to = LeavesAs(command), Moves(c, command, from, to)
    PROVE  PanelInv'
<1> DEFINE n == request[c].on
<1>1. /\ RequestSound(request[c], item) /\ Head(request[c].left) = command
      /\ request[c].left # <<>>
  BY DEF PanelInv, AtCommand, Moves
<1>2. /\ request[c].verb = command
      /\ command \in Acts => request[c].left = <<command, "view">>
      /\ command \notin Acts => request[c].left = <<command>>
  BY <1>1, CommandsInTurn DEF RequestSound, LeftInOrder, Acts
<1>3. n \in Numbers
  BY <1>1, <1>2 DEF RequestSound, LeftInOrder
<1>4. CASE ~(loggedIn /\ item[n] \in from)
  BY <1>4, DropsGives DEF Moves
<1>5. CASE loggedIn /\ item[n] \in from
  <2>1. item' = [item EXCEPT ![n] = to] /\ item' = [k \in Numbers |-> item'[k]]
        /\ item'[n] = to /\ \A k \in Numbers : k # n => item'[k] = item[k]
    BY <1>3, <1>5 DEF Moves, PanelInv
  <2>2. \A d \in PanelClients : RequestSound(Overtaken(n)[d], item')
    BY <2>1, OvertakingIsSound
  <2>3. CASE PanelUpset /\ request' = [Overtaken(n) EXCEPT ![c] = NoRequest]
    <3>1. /\ request' = [d \in PanelClients |-> request'[d]] /\ request'[c] = NoRequest
          /\ \A d \in PanelClients \ {c} : request'[d] = Overtaken(n)[d]
      BY <2>3, OvertakenByClient
    <3>2. \A d \in PanelClients : RequestSound(request'[d], item')
      BY <2>2, <3>1, NoRequestIsSound
    <3> QED BY <2>1, <3>1, <3>2 DEF PanelInv
  <2>4. CASE request' = Prints(IF item[n] = to THEN request
                               ELSE [Overtaken(n) EXCEPT ![c] = request[c]], c, request[c].shown)
    <3> DEFINE reqs == IF item[n] = to THEN request ELSE [Overtaken(n) EXCEPT ![c] = request[c]]
    <3>1. reqs = [d \in PanelClients |-> reqs[d]] /\ reqs[c] = request[c]
      BY OvertakenByClient DEF PanelInv
    <3>2. \A d \in PanelClients \ {c} : RequestSound(reqs[d], item')
      <4>1. CASE item[n] = to
        <5>1. \A k \in Numbers : item'[k] = item[k]
          BY <2>1, <4>1
        <5>2. \A d \in PanelClients : reqs[d] = request[d] /\ RequestSound(request[d], item)
          BY <4>1 DEF PanelInv
        <5> HIDE DEF reqs
        <5> QED BY <5>1, <5>2, UntouchedIsSound
      <4>2. CASE item[n] # to
        <5>1. \A d \in PanelClients \ {c} : reqs[d] = Overtaken(n)[d]
          BY <4>2, OvertakenByClient
        <5> QED BY <2>2, <5>1
      <4> QED BY <4>1, <4>2
    <3>3. ASSUME NEW p, RequestOfFields(p),
                 p.verb = request[c].verb, p.on = n, p.how = request[c].how,
                 p.left = Tail(request[c].left), p.shown = request[c].shown,
                 p.answered = (Tail(request[c].left) = <<>>),
                 p.overtaken = request[c].overtaken
          PROVE  RequestSound(p, item')
      <4>1. CASE command \in Acts
        <5>0. Tail(request[c].left) = <<"view">> /\ <<"view">> # <<>>
          BY <1>2, <4>1, CommandsInTurn
        <5>1. p.left = <<"view">> /\ p.left # <<>> /\ ~p.answered /\ p.verb = command
          BY <1>2, <3>3, <5>0, Zenon
        <5>2. item'[p.on] = LeavesAs(p.verb)
          BY <2>1, <3>3, <4>1, <5>1
        <5>3. command \in PanelVerbs /\ command # "remove"
          BY <4>1 DEF PanelVerbs, Acts
        <5> QED BY <1>3, <3>3, <4>1, <5>1, <5>2, <5>3, Zenon
                DEF RequestSound, LeftInOrder, ShownIsDone, ActStands
      <4>2. CASE command \notin Acts
        <5>1. p.left = <<>> /\ p.verb = command /\ command = "create"
          BY <1>2, <3>3, <4>2, CommandsInTurn
        <5>2. command \in PanelVerbs /\ command # "remove"
          BY <5>1 DEF PanelVerbs
        <5> QED BY <1>3, <3>3, <4>2, <5>1, <5>2, Zenon
                DEF RequestSound, LeftInOrder, ShownIsDone, ActStands
      <4> QED BY <4>1, <4>2
    <3>4. request' = Prints(reqs, c, request[c].shown)
      BY <2>4
    <3>5. item' = [k \in Numbers |-> item'[k]]
      BY <2>1
    <3> HIDE DEF reqs
    <3> QED BY <3>1, <3>2, <3>3, <3>4, <3>5, CommandKeepsSound
  <2> QED BY <1>5, <2>3, <2>4 DEF Moves
<1> QED BY <1>4, <1>5

\* A removal takes the tree it was asked to, and no dirty one unforced.
LEMMA RemovalKeepsSound ==
    ASSUME PanelInv, NEW c \in PanelClients, Removes(c)
    PROVE  PanelInv'
<1> DEFINE t == request[c].on
<1>1. /\ RequestSound(request[c], item) /\ Head(request[c].left) = "remove"
      /\ request[c].left # <<>> /\ item' = item
  BY DEF PanelInv, AtCommand, Removes, github
<1>2. request[c].verb = "remove" /\ request[c].left = <<"remove">>
  BY <1>1, CommandsInTurn DEF RequestSound, LeftInOrder, Acts
<1>3. CASE DropsRequest(c)
  BY <1>1, <1>3, DropsGives
<1>4. CASE /\ t \in Linked /\ (treeIs[t] = "dirty" => request[c].how)
           /\ request' = Prints([Overtaken(t) EXCEPT ![c] = request[c]], c, treeIs[t])
  <2> DEFINE reqs == [Overtaken(t) EXCEPT ![c] = request[c]]
  <2>1. /\ reqs = [d \in PanelClients |-> reqs[d]] /\ reqs[c] = request[c]
        /\ \A d \in PanelClients \ {c} : reqs[d] = Overtaken(t)[d]
    BY OvertakenByClient
  <2>2. \A d \in PanelClients \ {c} : RequestSound(reqs[d], item')
    BY <1>1, <2>1, OvertakingIsSound
  <2>3. ASSUME NEW p, RequestOfFields(p),
               p.verb = request[c].verb, p.on = t, p.how = request[c].how,
               p.left = Tail(request[c].left), p.shown = treeIs[t],
               p.answered = (Tail(request[c].left) = <<>>),
               p.overtaken = request[c].overtaken
        PROVE  RequestSound(p, item')
    <3>1. p.left = <<>> /\ p.verb = "remove"
      BY <1>2, <2>3, CommandsInTurn
    <3>2. "remove" \in PanelVerbs /\ "remove" \notin Acts /\ "remove" \notin Acts \cup {"create"}
          /\ "remove" \in Acts \cup {"remove"}
      BY DEF PanelVerbs, Acts
    <3> QED BY <1>4, <2>3, <3>1, <3>2, Zenon
            DEF RequestSound, LeftInOrder, ShownIsDone, ActStands
  <2>4. item' = [k \in Numbers |-> item'[k]] /\ request' = Prints(reqs, c, treeIs[t])
    BY <1>1, <1>4 DEF PanelInv
  <2> HIDE DEF reqs
  <2> QED BY <2>1, <2>2, <2>3, <2>4, CommandKeepsSound
<1> QED BY <1>3, <1>4 DEF Removes

\* A request is begun with the commands of its verb.
LEMMA AskKeepsSound ==
    ASSUME PanelInv, NEW c \in PanelClients, NEW verb \in PanelVerbs, NEW on, NEW how,
           verb \in Acts \cup {"create"} => on \in Numbers, AsksPanel(c, verb, on, how)
    PROVE  PanelInv'
<1> DEFINE r == [NoRequest EXCEPT !.verb = verb, !.on = on, !.how = how,
                                  !.left = PanelCommands(verb)]
<1>1. /\ r \in [verb : {verb}, on : {on}, how : {how}, left : {PanelCommands(verb)},
                shown : {Blank}, answered : {FALSE}, overtaken : {FALSE}]
  BY DEF NoRequest
<1>2. /\ request' = [d \in PanelClients |-> request'[d]] /\ request'[c] = r /\ item' = item
      /\ \A d \in PanelClients \ {c} : request'[d] = request[d]
  BY DEF AsksPanel, PanelInv, github
<1> HIDE DEF r
<1>3. /\ r.verb = verb /\ r.on = on /\ r.how = how /\ r.left = PanelCommands(verb)
      /\ r.shown = Blank /\ r.answered = FALSE /\ r.overtaken = FALSE
  BY <1>1
<1>4. RequestOfFields(r)
  BY <1>1, <1>3, Zenon DEF RequestOfFields
<1>5. /\ verb \in Acts => PanelCommands(verb) = <<verb, "view">>
      /\ verb = "remove" => PanelCommands(verb) = <<"trees", "remove">>
      /\ verb \notin Acts \cup {"remove"} => PanelCommands(verb) = <<verb>>
      /\ verb \in Acts => PanelCommands(verb) # <<"view">>
  BY CommandsInTurn DEF PanelCommands, Acts
<1>6. RequestSound(r, item)
  BY <1>3, <1>4, <1>5, Zenon DEF RequestSound, LeftInOrder, ShownIsDone, ActStands
<1>7. \A d \in PanelClients : RequestSound(request'[d], item)
  BY <1>2, <1>6 DEF PanelInv
<1> QED BY <1>2, <1>7 DEF PanelInv

\* Whatever the panel asks is one of its verbs, of something that verb is for.
LEMMA AsksArePanel ==
  ASSUME NEW c \in PanelClients, PanelAsks(c)
  PROVE  \E verb, on, how :
           /\ verb \in PanelVerbs /\ AsksPanel(c, verb, on, how)
           /\ verb \in Acts \cup {"create", "comment"} => on \in Numbers
           /\ verb = "merge" => on \in PrNumbers
<1> USE DEF PanelVerbs, Acts, Numbers
<1>1. CASE ListsIssues(c) \/ ListsPrs(c)
  BY <1>1 DEF ListsIssues, ListsPrs
<1>2. CASE ViewsIssue(c) \/ ViewsPr(c)
  BY <1>2 DEF ViewsIssue, ViewsPr
<1>3. CASE CreatesIssue(c) \/ CreatesPanelPr(c)
  BY <1>3 DEF CreatesIssue, CreatesPanelPr
<1>4. CASE ClosesIssue(c) \/ ClosesPr(c) \/ MergesPr(c)
  BY <1>4 DEF ClosesIssue, ClosesPr, MergesPr
<1>5. CASE CommentsIssue(c) \/ CommentsPr(c)
  BY <1>5 DEF CommentsIssue, CommentsPr
<1>6. CASE ListsIssueComments(c) \/ ListsPrComments(c)
  BY <1>6 DEF ListsIssueComments, ListsPrComments
<1>7. CASE ChecksAuth(c) \/ ListsTrees(c) \/ PrunesTrees(c)
  BY <1>7 DEF ChecksAuth, ListsTrees, PrunesTrees
<1>8. CASE RemovesTree(c)
  BY <1>8 DEF RemovesTree
<1> QED BY <1>1, <1>2, <1>3, <1>4, <1>5, <1>6, <1>7, <1>8 DEF PanelAsks

LEMMA PanelHoldsAtFirst == PanelInit => PanelInv
BY NoRequestIsSound DEF PanelInit, PanelInv

LEMMA PanelHoldsOn == PanelInv /\ [PanelNext]_panelVars => PanelInv'
<1> SUFFICES ASSUME PanelInv, [PanelNext]_panelVars
             PROVE  PanelInv'
  OBVIOUS
<1>1. CASE UNCHANGED panelVars
  BY <1>1 DEF panelVars, PanelInv
<1>2. ASSUME NEW c \in PanelClients, PanelAsks(c)
      PROVE  PanelInv'
  <2>1. PICK verb, on, how :
           verb \in PanelVerbs /\ AsksPanel(c, verb, on, how) /\ (verb \in Acts \cup {"create"} => on \in Numbers)
    BY <1>2, AsksArePanel
  <2> QED BY <2>1, AskKeepsSound
<1>3. ASSUME NEW c \in PanelClients, NEW command, NEW may, NEW shows,
             Looks(c, command, may, shows), command \notin Acts \cup {"remove"},
             command = "view" => shows = item[request[c].on]
      PROVE  PanelInv'
  <2>1. AtCommand(c, command) /\ item' = item
    BY <1>3 DEF Looks, github
  <2>2. CASE request' = Prints(request, c, shows)
    BY <1>3, <2>1, <2>2, LookKeepsSound
  <2>3. CASE DropsRequest(c)
    BY <2>1, <2>3, DropsGives
  <2> QED BY <1>3, <2>2, <2>3 DEF Looks
<1>4. ASSUME NEW c \in PanelClients, PanelRuns(c)
      PROVE  PanelInv'
  <2>1. CASE Lists(c) \/ ReadsComments(c) \/ ReadsAuth(c) \/ ReadsTrees(c)
    <3>1. \E shows, may : Looks(c, "list", may, shows) \/ Looks(c, "comments", may, shows)
                          \/ Looks(c, "auth", may, shows) \/ Looks(c, "trees", may, shows)
      BY <2>1, Zenon DEF Lists, ReadsComments, ReadsAuth, ReadsTrees
    <3> QED BY <1>3, <3>1 DEF Acts
  <2>2. CASE Views(c)
    BY <1>3, <2>2 DEF Views, Acts
  <2>3. CASE Opens(c) \/ Closes(c) \/ Merges(c)
    BY <2>3, ActKeepsSound DEF Opens, Closes, Merges, Acts, LeavesAs
  <2>4. CASE Comments(c)
    <3>1. AtCommand(c, "comment") /\ item' = item
      BY <2>4 DEF Comments
    <3>2. request' = Prints(request, c, Blank) \/ DropsRequest(c)
      BY <2>4 DEF Comments
    <3> QED BY <3>1, <3>2, LookKeepsSound, DropsGives DEF Acts
  <2>5. CASE Removes(c)
    BY <2>5, RemovalKeepsSound
  <2>6. CASE Prunes(c)
    <3>1. AtCommand(c, "prune") /\ item' = item /\ request' = Prints(request, c, Blank)
      BY <2>6 DEF Prunes, github
    <3> QED BY <3>1, LookKeepsSound DEF Acts
  <2>7. CASE PanelFails(c)
    BY <2>7, DropsGives DEF PanelFails, github
  <2> QED BY <1>4, <2>1, <2>2, <2>3, <2>4, <2>5, <2>6, <2>7 DEF PanelRuns
<1>6. ASSUME NEW n \in Numbers, PersonMoves(n)
      PROVE  PanelInv'
  <2>1. PICK to : item' = [item EXCEPT ![n] = to] /\ request' = Overtaken(n)
    BY <1>6 DEF PersonMoves
  <2>2. item' = [k \in Numbers |-> item'[k]] /\ \A k \in Numbers : k # n => item'[k] = item[k]
    BY <2>1 DEF PanelInv
  <2>3. \A c \in PanelClients : RequestSound(Overtaken(n)[c], item')
    BY <2>2, OvertakingIsSound
  <2> QED BY <2>1, <2>2, <2>3, OvertakenByClient DEF PanelInv
<1>7. CASE LogsInOrOut \/ \E t \in Linked : LocksTree(t)
  <2>1. item' = item /\ request' = request
    BY <1>7 DEF LogsInOrOut, LocksTree, github
  <2> QED BY <2>1 DEF PanelInv
<1>8. ASSUME NEW t \in Linked, TreeChanges(t)
      PROVE  PanelInv'
  <2>1. item' = item /\ request' = Overtaken(t)
    BY <1>8 DEF TreeChanges, github
  <2>2. \A c \in PanelClients : RequestSound(Overtaken(t)[c], item)
    BY OvertakingIsSound
  <2> QED BY <2>1, <2>2, OvertakenByClient DEF PanelInv
<1> QED BY <1>1, <1>2, <1>4, <1>6, <1>7, <1>8 DEF PanelNext

(***************************************************************************)
(* What the panel answers has happened, however many requests there are    *)
(* and whoever else changes the repository: a closed item is closed, a     *)
(* merged one merged unless somebody moved it on in between, and a removal *)
(* took a linked tree, and no changes with it that it was not told to.     *)
(* (gh_close_issue, gh_close_pr, gh_merge_pr, gh_remove_worktree)          *)
(***************************************************************************)
THEOREM AnswersAreDone == PanelSpec => []AnsweredIsDone
<1>1. PanelInv => AnsweredIsDone
  <2> SUFFICES ASSUME PanelInv, NEW c \in PanelClients, request[c].answered,
                      ~request[c].overtaken
               PROVE  /\ request[c].verb = "close" => request[c].shown = "CLOSED"
                      /\ request[c].verb = "merge" => request[c].shown = "MERGED"
                      /\ request[c].verb = "remove" =>
                             request[c].on \in Linked /\ (request[c].shown = "dirty" => request[c].how)
    BY Zenon DEF AnsweredIsDone
  <2>1. RequestSound(request[c], item)
    BY DEF PanelInv
  <2> QED BY <2>1 DEF RequestSound, ShownIsDone, Acts, LeavesAs
<1> QED BY <1>1, PanelHoldsAtFirst, PanelHoldsOn, PTL DEF PanelSpec



-----------------------------------------------------------------------------
(***************************************************************************)
(* The types of the panel. That no item gets more comments than there were *)
(* calls is a count: each comment, and each request that is yet to make    *)
(* one, is a call of its own.                                              *)
(***************************************************************************)
Commenting(n) ==
    {c \in PanelClients : request[c].verb = "comment" /\ request[c].on = n /\ request[c].left # <<>>}

MeantFor(req) ==
    req.left # <<>> => /\ req.verb = "merge" => req.on \in PrNumbers
                       /\ req.verb = "comment" => req.on \in Numbers

CommentsCounted ==
    \A n \in Numbers : IsFiniteSet(Commenting(n)) /\ comments[n] + Cardinality(Commenting(n)) <= panelCount

PanelRest ==
    /\ panelDesk \in PanelDesks
    /\ item \in [Numbers -> PrStates] /\ \A n \in IssueNumbers : item[n] \in IssueStates
    /\ comments \in [Numbers -> Nat]
    /\ treeIs \in [Linked -> {"none", "clean", "dirty", "gone"}] /\ lockedTrees \subseteq Linked
    /\ panelCount \in 0..MaxPanelCalls /\ eventCount \in 0..MaxPanelEvents
    /\ \A c \in PanelClients : MeantFor(request[c])
    /\ CommentsCounted

\* A request is over or goes on with what it was asked.
GoesOnWith(req, next) ==
    next.left = <<>> \/ (req.left # <<>> /\ next.verb = req.verb /\ next.on = req.on)
AllGoOn == \A c \in PanelClients : GoesOnWith(request[c], request'[c])

LEMMA DropsGoOn ==
  ASSUME PanelInv, NEW c \in PanelClients, DropsRequest(c)
  PROVE  AllGoOn
<1>1. NoRequest.left = <<>> /\ request'[c] = NoRequest
      /\ \A d \in PanelClients \ {c} : request'[d] = request[d]
  BY DEF DropsRequest, NoRequest, PanelInv
<1> QED
  BY <1>1 DEF AllGoOn, GoesOnWith

LEMMA OvertakenGoOn ==
  ASSUME PanelInv, NEW of, NEW c \in PanelClients
  PROVE  GoesOnWith(request[c], Overtaken(of)[c])
<1>1. RequestOfFields(request[c])
  BY DEF PanelInv, RequestSound
<1>2. /\ [request[c] EXCEPT !.overtaken = TRUE].verb = request[c].verb
      /\ [request[c] EXCEPT !.overtaken = TRUE].on = request[c].on
  BY <1>1 DEF RequestOfFields
<1> QED
  BY <1>2 DEF Overtaken, GoesOnWith

LEMMA PrintsGoOn ==
  ASSUME PanelInv, NEW c \in PanelClients, request[c].left # <<>>, NEW shows, NEW reqs,
         reqs = [d \in PanelClients |-> reqs[d]], reqs[c] = request[c],
         \A d \in PanelClients \ {c} : GoesOnWith(request[d], reqs[d]),
         request' = Prints(reqs, c, shows)
  PROVE  AllGoOn
<1>1. RequestOfFields(reqs[c])
  BY DEF PanelInv, RequestSound
<1> DEFINE r == [reqs[c] EXCEPT !.left = Tail(@), !.shown = shows,
                               !.answered = (Tail(reqs[c].left) = <<>>)]
<1>2. r.verb = request[c].verb /\ r.on = request[c].on
  BY <1>1 DEF RequestOfFields
<1>3. /\ \A d \in PanelClients \ {c} : request'[d] = reqs[d]
      /\ request'[c] = r
  BY DEF Prints
<1> HIDE DEF r
<1> QED
  BY <1>2, <1>3 DEF AllGoOn, GoesOnWith

\* What the commands do to the requests: none takes up another matter.
LEMMA CommandsGoOn ==
  ASSUME PanelInv, NEW c \in PanelClients, PanelRuns(c)
  PROVE  AllGoOn
<1>1. \A d \in PanelClients : GoesOnWith(request[d], request[d])
  BY DEF GoesOnWith
<1>2. request = [d \in PanelClients |-> request[d]]
  BY DEF PanelInv
<1>3. ASSUME NEW shows, request[c].left # <<>>, request' = Prints(request, c, shows)
      PROVE  AllGoOn
  BY <1>1, <1>2, <1>3, PrintsGoOn
<1>4. ASSUME NEW of, NEW shows, request[c].left # <<>>,
             request' = Prints([Overtaken(of) EXCEPT ![c] = request[c]], c, shows)
      PROVE  AllGoOn
  <2> DEFINE reqs == [Overtaken(of) EXCEPT ![c] = request[c]]
  <2>1. /\ reqs = [d \in PanelClients |-> reqs[d]] /\ reqs[c] = request[c]
        /\ \A d \in PanelClients \ {c} : reqs[d] = Overtaken(of)[d]
    BY OvertakenByClient
  <2>2. \A d \in PanelClients \ {c} : GoesOnWith(request[d], reqs[d])
    BY <2>1, OvertakenGoOn
  <2>3. request' = Prints(reqs, c, shows)
    BY <1>4
  <2> HIDE DEF reqs
  <2> QED
    BY <1>4, <2>1, <2>2, <2>3, PrintsGoOn
<1>5. ASSUME NEW of, request' = [Overtaken(of) EXCEPT ![c] = NoRequest] PROVE AllGoOn
  <2>1. /\ request'[c] = NoRequest /\ NoRequest.left = <<>>
        /\ \A d \in PanelClients \ {c} : request'[d] = Overtaken(of)[d]
    BY <1>5, OvertakenByClient DEF NoRequest
  <2> QED
    BY <2>1, OvertakenGoOn DEF AllGoOn, GoesOnWith
<1>6. ASSUME NEW command, NEW may, NEW shows, Looks(c, command, may, shows) PROVE AllGoOn
  <2>1. request[c].left # <<>> /\ (request' = Prints(request, c, shows) \/ DropsRequest(c))
    BY <1>6 DEF Looks, AtCommand
  <2> QED
    BY <1>3, <2>1, DropsGoOn
<1>7. CASE Lists(c) \/ Views(c) \/ ReadsComments(c) \/ ReadsAuth(c) \/ ReadsTrees(c)
  <2>1. \E command, may, shows : Looks(c, command, may, shows)
    BY <1>7, Zenon DEF Lists, Views, ReadsComments, ReadsAuth, ReadsTrees
  <2> QED
    BY <1>6, <2>1
<1>8. CASE Opens(c) \/ Closes(c) \/ Merges(c)
  <2>1. PICK command, from, to : Moves(c, command, from, to)
    BY <1>8, Zenon DEF Opens, Closes, Merges
  <2> DEFINE n == request[c].on
  <2>2. /\ request[c].left # <<>>
        /\ \/ request' = Prints(request, c, request[c].shown)
           \/ request' = Prints([Overtaken(n) EXCEPT ![c] = request[c]], c, request[c].shown)
           \/ request' = [Overtaken(n) EXCEPT ![c] = NoRequest]
           \/ DropsRequest(c)
    BY <2>1 DEF Moves, AtCommand
  <2> QED
    BY <1>3, <1>4, <1>5, <2>2, DropsGoOn
<1>9. CASE Comments(c) \/ Prunes(c) \/ PanelFails(c)
  <2>1. request[c].left # <<>> /\ (request' = Prints(request, c, Blank) \/ DropsRequest(c))
    BY <1>9 DEF Comments, Prunes, PanelFails, AtCommand
  <2> QED
    BY <1>3, <2>1, DropsGoOn
<1>10. CASE Removes(c)
  <2> DEFINE t == request[c].on
  <2>1. /\ request[c].left # <<>>
        /\ \/ request' = Prints([Overtaken(t) EXCEPT ![c] = request[c]], c, treeIs[t])
           \/ DropsRequest(c)
    BY <1>10 DEF Removes, AtCommand
  <2> QED
    BY <1>4, <2>1, DropsGoOn
<1> QED
  BY <1>7, <1>8, <1>9, <1>10 DEF PanelRuns

\* While all go on, nobody new comments, and requests mean what they meant.
LEMMA NoneMoreComment ==
  ASSUME PanelRest, AllGoOn
  PROVE  /\ \A c \in PanelClients : MeantFor(request'[c])
         /\ \A n \in Numbers : /\ Commenting(n)' \subseteq Commenting(n) /\ IsFiniteSet(Commenting(n)')
                               /\ Cardinality(Commenting(n)') <= Cardinality(Commenting(n))
                               /\ Cardinality(Commenting(n)') \in Nat /\ Cardinality(Commenting(n)) \in Nat
         /\ UNCHANGED <<comments, panelCount>> => CommentsCounted'
<1>1. \A c \in PanelClients : MeantFor(request'[c])
  BY DEF PanelRest, AllGoOn, GoesOnWith, MeantFor
<1>2. \A n \in Numbers : Commenting(n)' \subseteq Commenting(n)
  BY DEF AllGoOn, GoesOnWith, Commenting
<1>3. \A n \in Numbers : IsFiniteSet(Commenting(n))
  BY DEF PanelRest, CommentsCounted
<1>4. \A n \in Numbers : /\ IsFiniteSet(Commenting(n)')
                         /\ Cardinality(Commenting(n)') <= Cardinality(Commenting(n))
                         /\ Cardinality(Commenting(n)') \in Nat /\ Cardinality(Commenting(n)) \in Nat
  BY <1>2, <1>3, FS_Subset, FS_CardinalityType
<1>5. ASSUME UNCHANGED <<comments, panelCount>> PROVE CommentsCounted'
  <2>1. \A n \in Numbers : comments[n] \in Nat /\ comments[n] + Cardinality(Commenting(n)) <= panelCount
                           /\ panelCount \in Nat
    BY PanelConstants DEF PanelRest, CommentsCounted
  <2> QED
    BY <1>4, <1>5, <2>1 DEF CommentsCounted
<1> QED
  BY <1>1, <1>2, <1>4, <1>5

\* A request comes in. One more call allows for one more comment.
LEMMA AskedInType ==
  ASSUME PanelInv, PanelRest, NEW c \in PanelClients, NEW verb, NEW on, NEW how,
         verb = "merge" => on \in PrNumbers, verb = "comment" => on \in Numbers,
         AsksPanel(c, verb, on, how)
  PROVE  PanelRest'
<1> DEFINE r == [NoRequest EXCEPT !.verb = verb, !.on = on, !.how = how,
                                  !.left = PanelCommands(verb)]
<1>1. r.verb = verb /\ r.on = on
  BY DEF NoRequest
<1>2. /\ request'[c] = r /\ \A d \in PanelClients \ {c} : request'[d] = request[d]
      /\ panelCount < MaxPanelCalls /\ panelCount' = panelCount + 1
      /\ UNCHANGED <<panelDesk, item, comments, treeIs, lockedTrees, eventCount>>
  BY DEF AsksPanel, PanelInv, github, repoTrees
<1> HIDE DEF r
<1>3. \A d \in PanelClients : MeantFor(request'[d])
  BY <1>1, <1>2 DEF PanelRest, MeantFor
<1>4. ASSUME NEW n \in Numbers
      PROVE  /\ IsFiniteSet(Commenting(n)')
             /\ comments'[n] + Cardinality(Commenting(n)') <= panelCount'
  <2>1. Commenting(n)' \subseteq Commenting(n) \cup {c}
    BY <1>2 DEF Commenting
  <2>2. /\ IsFiniteSet(Commenting(n)) /\ comments[n] \in Nat /\ panelCount \in Nat
        /\ comments[n] + Cardinality(Commenting(n)) <= panelCount
    BY PanelConstants DEF PanelRest, CommentsCounted
  <2>3. /\ IsFiniteSet(Commenting(n) \cup {c}) /\ Cardinality(Commenting(n)) \in Nat
        /\ Cardinality(Commenting(n) \cup {c}) <= Cardinality(Commenting(n)) + 1
    <3>1. Cardinality(Commenting(n)) \in Nat
      BY <2>2, FS_CardinalityType
    <3>2. /\ IsFiniteSet(Commenting(n) \cup {c})
          /\ Cardinality(Commenting(n) \cup {c})
               = IF c \in Commenting(n) THEN Cardinality(Commenting(n)) ELSE Cardinality(Commenting(n)) + 1
      BY <2>2, FS_AddElement
    <3> HIDE DEF Commenting
    <3> QED
      BY <3>1, <3>2
  <2>4. /\ IsFiniteSet(Commenting(n)') /\ Cardinality(Commenting(n)') \in Nat
        /\ Cardinality(Commenting(n)') <= Cardinality(Commenting(n) \cup {c})
    BY <2>1, <2>3, FS_Subset, FS_CardinalityType
  <2>5. Cardinality(Commenting(n) \cup {c}) \in Nat
    BY <2>3, FS_CardinalityType
  <2> QED
    BY <1>2, <2>2, <2>3, <2>4, <2>5
<1>5. CommentsCounted'
  BY <1>4 DEF CommentsCounted
<1> QED
  BY <1>2, <1>3, <1>5, PanelConstants DEF PanelRest

\* The commands on GitHub and on the trees. (gh_*, the worktree routes)
LEMMA RunsInType ==
  ASSUME PanelInv, PanelRest, NEW c \in PanelClients, PanelRuns(c)
  PROVE  PanelRest'
<1>0. AllGoOn
  BY CommandsGoOn
<1>1. \A d \in PanelClients : MeantFor(request'[d])
  BY <1>0, NoneMoreComment
<1>2. PanelUpset \/ UNCHANGED eventCount => eventCount' \in 0..MaxPanelEvents
  BY PanelConstants DEF PanelUpset, PanelRest
<1>3. \A command \in {"merge", "comment"} : AtCommand(c, command) => request[c].verb = command
  <2>1. RequestSound(request[c], item)
    BY DEF PanelInv
  <2> QED
    BY <2>1, CommandsInTurn DEF AtCommand, RequestSound, LeftInOrder, Acts
<1>4. CASE Lists(c) \/ Views(c) \/ ReadsComments(c) \/ ReadsAuth(c) \/ ReadsTrees(c) \/ PanelFails(c)
  <2>1. /\ UNCHANGED <<panelDesk, item, comments, treeIs, lockedTrees, panelCount>>
        /\ PanelUpset \/ UNCHANGED eventCount
    BY <1>4 DEF Lists, Views, ReadsComments, ReadsAuth, ReadsTrees, Looks, PanelFails, github, repoTrees
  <2> QED
    BY <1>0, <1>1, <1>2, <2>1, NoneMoreComment DEF PanelRest
<1>5. CASE Opens(c) \/ Closes(c) \/ Merges(c)
  <2> DEFINE n == request[c].on
  <2>1. /\ UNCHANGED <<panelDesk, comments, treeIs, lockedTrees, panelCount>>
        /\ PanelUpset \/ UNCHANGED eventCount
        /\ \/ item' = item
           \/ \E to \in {"OPEN", "CLOSED"} : item' = [item EXCEPT ![n] = to]
           \/ n \in PrNumbers /\ item' = [item EXCEPT ![n] = "MERGED"]
    BY <1>3, <1>5 DEF Opens, Closes, Merges, Moves, PanelRest, MeantFor, AtCommand, repoTrees
  <2>2. item' \in [Numbers -> PrStates] /\ \A k \in IssueNumbers : item'[k] \in IssueStates
    BY <2>1, PanelConstants DEF PanelRest, PrStates, IssueStates, Numbers
  <2> QED
    BY <1>0, <1>1, <1>2, <2>1, <2>2, NoneMoreComment DEF PanelRest
<1>6. CASE Comments(c)
  <2> DEFINE n == request[c].on
  <2>1. /\ UNCHANGED <<panelDesk, item, treeIs, lockedTrees, panelCount>>
        /\ PanelUpset \/ UNCHANGED eventCount
        /\ comments' \in {comments, [comments EXCEPT ![n] = @ + 1]}
        /\ request[c].left # <<>> /\ request[c].verb = "comment" /\ n \in Numbers
        /\ request' = Prints(request, c, Blank) \/ DropsRequest(c)
    BY <1>3, <1>6 DEF Comments, PanelRest, MeantFor, AtCommand, repoTrees
  <2>2. request'[c].left = <<>>
    <3>1. request[c].left = <<"comment">> /\ RequestOfFields(request[c])
      BY <2>1 DEF PanelInv, RequestSound, LeftInOrder, Acts
    <3>2. Tail(<<"comment">>) = <<>>
      BY CommandsInTurn
    <3>3. ASSUME request' = Prints(request, c, Blank) PROVE request'[c].left = <<>>
      <4>1. request'[c] = [request[c] EXCEPT !.left = Tail(@), !.shown = Blank,
                                             !.answered = (Tail(request[c].left) = <<>>)]
        BY <3>3 DEF Prints, PanelInv
      <4>2. request'[c].left = Tail(request[c].left)
        BY <3>1, <4>1 DEF RequestOfFields
      <4> QED
        BY <3>1, <3>2, <4>2
    <3> QED
      BY <2>1, <3>3 DEF DropsRequest, NoRequest, PanelInv
  <2>3. /\ comments' \in [Numbers -> Nat]
        /\ \A k \in Numbers : comments'[k] = comments[k] \/ (k = n /\ comments'[k] = comments[k] + 1)
    BY <2>1 DEF PanelRest
  <2>4. ASSUME NEW k \in Numbers PROVE comments'[k] + Cardinality(Commenting(k)') <= panelCount
    <3>1. /\ comments[k] \in Nat /\ panelCount \in Nat
          /\ IsFiniteSet(Commenting(k)) /\ comments[k] + Cardinality(Commenting(k)) <= panelCount
      BY PanelConstants DEF PanelRest, CommentsCounted
    <3>2. /\ Commenting(k)' \subseteq Commenting(k) /\ IsFiniteSet(Commenting(k)')
          /\ Cardinality(Commenting(k)') <= Cardinality(Commenting(k))
          /\ Cardinality(Commenting(k)') \in Nat /\ Cardinality(Commenting(k)) \in Nat
      BY <1>0, NoneMoreComment
    <3>3. CASE k = n
      <4>1. c \in Commenting(k) /\ c \notin Commenting(k)'
        BY <2>1, <2>2, <3>3 DEF Commenting
      <4>2. Cardinality(Commenting(k)') < Cardinality(Commenting(k))
        BY <3>1, <3>2, <4>1, FS_Subset
      <4> QED
        BY <2>3, <3>1, <3>2, <4>2
    <3>4. CASE k # n
      BY <2>3, <3>1, <3>2, <3>4
    <3> QED
      BY <3>3, <3>4
  <2>5. CommentsCounted'
    BY <1>0, <2>1, <2>4, NoneMoreComment DEF CommentsCounted
  <2> QED
    BY <1>1, <1>2, <2>1, <2>3, <2>5 DEF PanelRest
<1>7. CASE Removes(c) \/ Prunes(c)
  <2>1. /\ UNCHANGED <<panelDesk, item, comments, lockedTrees, panelCount, eventCount>>
        /\ treeIs' \in [Linked -> {"none", "clean", "dirty", "gone"}]
    BY <1>7 DEF Removes, Prunes, github, PanelRest
  <2> QED
    BY <1>0, <1>1, <2>1, NoneMoreComment DEF PanelRest
<1> QED
  BY <1>4, <1>5, <1>6, <1>7 DEF PanelRuns

\* They hold at first, every step keeps them, and they give the types.
LEMMA PanelTypesInductive ==
  /\ PanelInit => PanelInv /\ PanelRest
  /\ PanelInv /\ PanelRest /\ [PanelNext]_panelVars => PanelInv' /\ PanelRest'
  /\ PanelInv /\ PanelRest => PanelTypeOK
<1>1. ASSUME PanelInit PROVE PanelRest
  <2>1. \A c \in PanelClients : request[c].left = <<>>
    BY <1>1 DEF PanelInit, NoRequest
  <2>2. \A n \in Numbers : Commenting(n) = {}
    BY <2>1 DEF Commenting
  <2>3. CommentsCounted
    BY <1>1, <2>2, FS_EmptySet DEF PanelInit, CommentsCounted
  <2> QED
    BY <1>1, <2>1, <2>3, PanelConstants
       DEF PanelInit, PanelRest, MeantFor, IssueStates, PrStates, Numbers
<1>2. ASSUME PanelInv, PanelRest, [PanelNext]_panelVars PROVE PanelRest'
  <2>1. CASE UNCHANGED panelVars
    BY <1>2, <2>1 DEF panelVars, PanelRest, CommentsCounted, Commenting
  <2>2. ASSUME NEW c \in PanelClients, PanelAsks(c) PROVE PanelRest'
    <3>1. \E verb, on, how : /\ AsksPanel(c, verb, on, how)
                             /\ verb = "merge" => on \in PrNumbers
                             /\ verb = "comment" => on \in Numbers
      BY <2>2, AsksArePanel DEF Numbers
    <3> QED
      BY <1>2, <3>1, AskedInType
  <2>3. PanelUpset => eventCount' \in 0..MaxPanelEvents
    BY <1>2, PanelConstants DEF PanelUpset, PanelRest
  <2>4. ASSUME \E of : request' = Overtaken(of) PROVE AllGoOn
    BY <1>2, <2>4, OvertakenGoOn DEF AllGoOn
  <2>5. ASSUME NEW n \in Numbers, PersonMoves(n) PROVE PanelRest'
    <3>1. PICK to : /\ to \in (IF n \in PrNumbers THEN PrStates ELSE IssueStates)
                    /\ item' = [item EXCEPT ![n] = to]
                    /\ request' = Overtaken(n) /\ PanelUpset
                    /\ UNCHANGED <<panelDesk, comments, treeIs, lockedTrees, panelCount>>
      BY <2>5 DEF PersonMoves, repoTrees
    <3>2. item' \in [Numbers -> PrStates] /\ \A k \in IssueNumbers : item'[k] \in IssueStates
      BY <1>2, <3>1, PanelConstants DEF PanelRest, PrStates, Numbers
    <3> QED
      BY <1>2, <2>3, <2>4, <3>1, <3>2, NoneMoreComment DEF PanelRest
  <2>6. CASE LogsInOrOut \/ \E t \in Linked : LocksTree(t)
    <3>1. /\ UNCHANGED <<panelDesk, item, comments, treeIs, panelCount, request>>
          /\ PanelUpset /\ lockedTrees' \subseteq Linked
      BY <1>2, <2>6 DEF LogsInOrOut, LocksTree, github, repoTrees, PanelRest
    <3> QED
      BY <1>2, <2>3, <3>1 DEF PanelRest, CommentsCounted, Commenting
  <2>7. ASSUME NEW t \in Linked, TreeChanges(t) PROVE PanelRest'
    <3>1. /\ UNCHANGED <<panelDesk, item, comments, lockedTrees, panelCount>>
          /\ PanelUpset /\ request' = Overtaken(t)
          /\ treeIs' \in [Linked -> {"none", "clean", "dirty", "gone"}]
      BY <1>2, <2>7 DEF TreeChanges, github, PanelRest
    <3> QED
      BY <1>2, <2>3, <2>4, <3>1, NoneMoreComment DEF PanelRest
  <2> QED
    BY <1>2, <2>1, <2>2, <2>5, <2>6, <2>7, RunsInType DEF PanelNext
<1>3. ASSUME PanelInv, PanelRest PROVE PanelTypeOK
  <2>1. \A n \in Numbers : comments[n] \in 0..MaxPanelCalls
    BY <1>3, FS_CardinalityType, PanelConstants DEF PanelRest, CommentsCounted
  <2> QED
    BY <1>3, <2>1 DEF PanelRest, PanelTypeOK, Numbers
<1> QED
  BY <1>1, <1>2, <1>3, PanelHoldsAtFirst, PanelHoldsOn


-----------------------------------------------------------------------------
(***************************************************************************)
(* The components together: a behaviour is one part's, and that part keeps *)
(* its invariant.                                                          *)
(***************************************************************************)
WorkshopInv ==
    /\ part \in Parts
    /\ part = "landing" => TypedFrame
    /\ part = "sync" => SyncFrame /\ SyncRest
    /\ part = "chat" => ChatInv
    /\ part = "book" => BookInv /\ BookRest
    /\ part = "publish" => PubTypes
    /\ part = "shelf" => ShelfInv /\ ShelfRest
    /\ part = "settings" => Landings /\ SetRest
    /\ part = "tree" => TreeInv /\ ViewTyped
    /\ part = "panel" => PanelInv /\ PanelRest

\* Every component keeps to the types of its variables, however many tasks,
\* machines, turns, pages, documents, requests and files there are: no row is
\* written that the stored one has no room for, what is checked out exists, no
\* log outgrows its bound and no settings name a repository that is none.
\* (land, pull and push, the turns of a chat, create_asset and delete_document,
\* publish, the catalogue's handlers, resolve, list_tree, the panel's handlers)
THEOREM WorkshopKeepsType == Spec => []WorkshopTypeOK
<1>1. Init => WorkshopInv
  BY FrameAtFirst, SyncTypesInductive, ChatAtFirst, BookTypesInductive, PubTypesInductive,
     ShelfTypesInductive, SetTypesInductive, TreeTypesInductive, PanelTypesInductive
     DEF Init, WorkshopInv
<1>2. WorkshopInv /\ [Next]_vars => WorkshopInv'
  <2> SUFFICES ASSUME WorkshopInv, [Next]_vars PROVE WorkshopInv'
    OBVIOUS
  <2>1. UNCHANGED part
    BY DEF Next, vars
  <2>2. CASE part = "landing"
    <3>1. [LandNext]_landVars
      BY <2>2 DEF Next, vars
    <3> QED
      BY <2>1, <2>2, <3>1, FrameKept DEF WorkshopInv
  <2>3. CASE part = "sync"
    <3>1. [SyncNext]_syncVars
      BY <2>3 DEF Next, vars
    <3> QED
      BY <2>1, <2>3, <3>1, SyncTypesInductive DEF WorkshopInv
  <2>4. CASE part = "chat"
    <3>1. [ChatNext]_chatVars
      BY <2>4 DEF Next, vars
    <3> QED
      BY <2>1, <2>4, <3>1, ChatKept DEF WorkshopInv
  <2>5. CASE part = "book"
    <3>1. [BookNext]_bookVars
      BY <2>5 DEF Next, vars
    <3> QED
      BY <2>1, <2>5, <3>1, BookTypesInductive DEF WorkshopInv
  <2>6. CASE part = "publish"
    <3>1. [PublishNext]_pubVars
      BY <2>6 DEF Next, vars
    <3> QED
      BY <2>1, <2>6, <3>1, PubTypesInductive DEF WorkshopInv
  <2>7. CASE part = "shelf"
    <3>1. [ShelfNext]_shelfVars
      BY <2>7 DEF Next, vars
    <3> QED
      BY <2>1, <2>7, <3>1, ShelfTypesInductive DEF WorkshopInv
  <2>8. CASE part = "settings"
    <3>1. [SetNext]_setVars
      BY <2>8 DEF Next, vars
    <3> QED
      BY <2>1, <2>8, <3>1, SetTypesInductive DEF WorkshopInv
  <2>9. CASE part = "tree"
    <3>1. [TreeNext]_treeVars
      BY <2>9 DEF Next, vars
    <3> QED
      BY <2>1, <2>9, <3>1, TreeTypesInductive DEF WorkshopInv
  <2>10. CASE part = "panel"
    <3>1. [PanelNext]_panelVars
      BY <2>10 DEF Next, vars
    <3> QED
      BY <2>1, <2>10, <3>1, PanelTypesInductive DEF WorkshopInv
  <2>11. CASE part \notin {"landing", "sync", "chat", "book", "publish", "shelf", "settings", "tree",
                           "panel"}
    BY <2>1, <2>11 DEF WorkshopInv
  <2> QED
    BY <2>2, <2>3, <2>4, <2>5, <2>6, <2>7, <2>8, <2>9, <2>10, <2>11
<1>3. WorkshopInv => WorkshopTypeOK
  <2>1. TypedFrame => LandTypeOK
    BY DEF TypedFrame
  <2>2. ChatInv => ChatTypeOK
    BY DEF ChatInv
  <2> QED
    BY <2>1, <2>2, SyncTypesInductive, BookTypesInductive, PubTypesInductive, ShelfTypesInductive,
       SetTypesInductive, TreeTypesInductive, PanelTypesInductive DEF WorkshopInv, WorkshopTypeOK
<1> QED
  BY <1>1, <1>2, <1>3, PTL DEF Spec
=============================================================================
