----------------------------- MODULE MCWorkshop -----------------------------
(***************************************************************************)
(* The work that leaves the store, a small instance of each component: the *)
(* landing of finished tasks in git, the synchronisation of two machines'  *)
(* stores through a remote, the turns of the management agent, the         *)
(* authored documents in the store and in git, the catalogue of small      *)
(* records, the settings tasks work under, and the operator's views of a   *)
(* checkout and of GitHub. The parts share no state, so a behaviour is one *)
(* part's.                                                                 *)
(***************************************************************************)
EXTENDS Landing, ContentSync, AgentChat, Book, Publishing, Shelf, Settings, FileTree, Panel

CONSTANTS
    Parts,          \* the parts to check
    t1, t2,
    u1, u2,         \* requests that publish
    j1, j2, j3, repoA, repoB,   \* tasks and repositories
    f1, f2, f3, dir, text1, text2

VARIABLE part

vars == <<part, landVars, syncVars, chatVars, bookVars, pubVars, shelfVars, setVars, treeVars,
          panelVars>>

Layout(worktrees, mode, merge, remote, slots) ==
    [worktrees |-> worktrees, mode |-> mode, merge |-> merge, remote |-> remote,
     slots |-> slots]

SoundLayouts ==
    {Layout(TRUE, "new", "fast-forward", TRUE, 2), Layout(TRUE, "new", "merge", TRUE, 2),
     Layout(TRUE, "new", "pr", TRUE, 2), Layout(TRUE, "shared", "merge", TRUE, 2),
     Layout(TRUE, "branch", "merge", TRUE, 1), Layout(FALSE, "shared", "merge", FALSE, 1)}

\* Edits of tasks under overlapping jobs, and of tasks and workflows under
\* single jobs and a mishap.
Regime(records, jobs, upsets) == [records |-> records, jobs |-> jobs, upsets |-> upsets]
MixedRegimes == {Regime(SyncTasks, 2, 0), Regime(Records, 1, 1)}

Conversation(p, s) == [profile |-> p, session |-> s]
Conversations == {Conversation("manage", "turn"), Conversation("author", "conversation")}

Ask(verbs, clients, calls, panel) ==
    [verbs |-> verbs, clients |-> clients, calls |-> calls, panel |-> panel]

\* Two documents published at once, one published beside the panel, a
\* publication taken step by step, and what else writes the row.
Requests ==
    {Ask({"publish", "commit"}, {u1, u2}, 2, 0),
     Ask({"publish"}, {u1}, 2, 1),
     Ask({"branch", "commitPush", "pr"}, {u1}, 3, 0),
     Ask({"publish", "setRepo", "edit", "issue"}, {u1}, 3, 0),
     Ask({"edit", "setRepo", "branch", "issue"}, {u1, u2}, 2, 0)}

Layer(repo, merge, worktrees, tool) ==
    [repo |-> repo, prefix |-> Unset, tool |-> tool, gate |-> Unset, merge |-> merge,
     worktrees |-> worktrees, trust |-> Unset]

TwoHosts ==
    {[env |-> Layer(Unset, Unset, Garbled, Unset), file |-> Layer(repoA, "merge", Unset, Unset)],
     [env |-> Layer(repoB, Unset, FALSE, Unset), file |-> Layer(repoA, Unset, TRUE, "codex")]}

Workspace(repo, mode, merge, prefix, gate) ==
    [repo |-> repo, prefix |-> prefix, mode |-> mode, name |-> Unset, tool |-> Unset,
     gate |-> gate, merge |-> merge]

TwoSpaces == {Workspace(repoA, "shared", "merge", Unset, "none"),
              Workspace(repoB, "new", Unset, "team", Unset)}

Retooled == {[tool |-> "codex", mode |-> "reuse", trust |-> FALSE]}
SecondReusesFirst == [j \in Jobs |-> IF j = j2 THEN j1 ELSE NoTask]
SoundRepos == [r \in Repos |-> "sound"]

\* One task of the workflow under an edit, a restart and a second claim; two
\* of them at once; a standalone one.
Workbenches ==
    {[jobs |-> {j1}, edits |-> 1, restarts |-> 1, claims |-> 2],
     [jobs |-> {j1, j2}, edits |-> 0, restarts |-> 0, claims |-> 2],
     [jobs |-> {j3}, edits |-> 1, restarts |-> 1, claims |-> 1]}

\* Two files in a directory and one beside it.
FilePaths == {f1, f2, f3}
DirectoriesOf == [p \in FilePaths \cup {dir} |-> IF p \in {f2, f3} THEN {dir} ELSE {}]
OneFile == {[f \in FilePaths |-> IF f = f1 THEN text1 ELSE NoFile]}

Init ==
    /\ part \in Parts
    /\ LandInit /\ SyncInit /\ ChatInit /\ BookInit /\ PublishInit /\ ShelfInit
    /\ SetInit /\ TreeInit /\ PanelInit
    /\ part # "panel" => panelDesk = CHOOSE verbs \in PanelDesks : TRUE
    /\ part # "panel" => item = [n \in Numbers |-> "OPEN"]
    /\ part # "landing" => layout = CHOOSE l \in Layouts : TRUE
    /\ part # "sync" => regime = CHOOSE r \in Regimes : TRUE
    /\ part # "chat" => profile = (CHOOSE c \in Chats : TRUE).profile
    /\ part # "book" => desk = CHOOSE d \in Desks : TRUE
    /\ part # "publish" => pubDesk = CHOOSE d \in PublishDesks : TRUE
    /\ part # "settings" => bench = CHOOSE b \in Benches : TRUE
    /\ part # "settings" => conf = Loaded(CHOOSE s \in Surroundings : TRUE)
    /\ part # "settings" => space = CHOOSE w \in Spaces : TRUE
    /\ part # "shelf" => shelf = CHOOSE s \in Shelves : TRUE

Next ==
    /\ UNCHANGED part
    /\ \/ /\ part = "landing" /\ LandNext
          /\ UNCHANGED <<syncVars, chatVars, bookVars, pubVars, shelfVars, setVars,
                         treeVars, panelVars>>
       \/ /\ part = "sync" /\ SyncNext
          /\ UNCHANGED <<landVars, chatVars, bookVars, pubVars, shelfVars, setVars,
                         treeVars, panelVars>>
       \/ /\ part = "chat" /\ ChatNext
          /\ UNCHANGED <<landVars, syncVars, bookVars, pubVars, shelfVars, setVars,
                         treeVars, panelVars>>
       \/ /\ part = "book" /\ BookNext
          /\ UNCHANGED <<landVars, syncVars, chatVars, pubVars, shelfVars, setVars,
                         treeVars, panelVars>>
       \/ /\ part = "publish" /\ PublishNext
          /\ UNCHANGED <<landVars, syncVars, chatVars, bookVars, shelfVars, setVars,
                         treeVars, panelVars>>
       \/ /\ part = "shelf" /\ ShelfNext
          /\ UNCHANGED <<landVars, syncVars, chatVars, bookVars, pubVars, setVars,
                         treeVars, panelVars>>
       \/ /\ part = "settings" /\ SetNext
          /\ UNCHANGED <<landVars, syncVars, chatVars, bookVars, pubVars, shelfVars,
                         treeVars, panelVars>>
       \/ /\ part = "tree" /\ TreeNext
          /\ UNCHANGED <<landVars, syncVars, chatVars, bookVars, pubVars, shelfVars,
                         setVars, panelVars>>
       \/ /\ part = "panel" /\ PanelNext
          /\ UNCHANGED <<landVars, syncVars, chatVars, bookVars, pubVars, shelfVars,
                         setVars, treeVars>>

Spec == Init /\ [][Next]_vars

-----------------------------------------------------------------------------

\* The component at work keeps to the types of its variables: no field is
\* written that the stored row or the request does not have, no commit is taken
\* for one that was never made, and no counter leaves its range.
WorkshopTypeOK ==
    /\ part \in Parts
    /\ part = "landing" => LandTypeOK
    /\ part = "sync" => SyncTypeOK
    /\ part = "chat" => ChatTypeOK
    /\ part = "book" => BookTypeOK
    /\ part = "publish" => PublishTypeOK
    /\ part = "shelf" => ShelfTypeOK
    /\ part = "settings" => SetTypeOK
    /\ part = "tree" => TreeTypeOK
    /\ part = "panel" => PanelTypeOK
=============================================================================
