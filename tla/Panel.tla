------------------------------- MODULE Panel -------------------------------
(***************************************************************************)
(* The operators' panel on a repository: issues, pull requests and         *)
(* worktrees. A request runs one or two gh or git commands, each by what   *)
(* it finds then; people on GitHub, the engine and its agents change the   *)
(* same things in between.                                                 *)
(***************************************************************************)
EXTENDS Naturals, Sequences

CONSTANTS
    PanelClients,   \* requests in flight at once
    IssueNumbers, PrNumbers,
    PrimaryTree,    \* the main working tree, and another path to it
    AliasOfPrimary,
    Linked,         \* the linked ones, made for tasks
    PanelDesks,     \* the sets of verbs used in a behaviour
    Blank,
    MaxPanelCalls, MaxPanelEvents   \* bounds

ASSUME PanelConstants ==
    /\ IssueNumbers \cap PrNumbers = {} /\ {PrimaryTree, AliasOfPrimary} \cap Linked = {}
    /\ MaxPanelCalls \in Nat /\ MaxPanelEvents \in Nat

VARIABLES
    panelDesk,      \* the verbs used; never changes
    item,           \* the state of each issue and pull request
    comments,       \* how many each has
    treeIs,         \* what each linked tree is
    lockedTrees,
    loggedIn,       \* gh has a login
    request,        \* per client, its request
    panelCount, eventCount

panelVars == <<panelDesk, item, comments, treeIs, lockedTrees, loggedIn, request, panelCount,
               eventCount>>
github == <<panelDesk, item, comments, loggedIn>>
repoTrees == <<treeIs, lockedTrees>>

Numbers == IssueNumbers \cup PrNumbers
IssueStates == {"NONE", "OPEN", "CLOSED"}
PrStates == IssueStates \cup {"MERGED"}

\* `overtaken` is kept for the property only: what the request acted on has
\* been changed by others since.
NoRequest == [verb |-> "none", on |-> Blank, how |-> Blank, left |-> <<>>,
              shown |-> Blank, answered |-> FALSE, overtaken |-> FALSE]

(***************************************************************************)
(* The commands of each verb. Closing and merging act and then look.       *)
(***************************************************************************)
\* A mutant: the answer is what was looked up before the act.
LooksFirst(verb) ==
    CASE verb \in {"close", "merge"} -> <<"view", verb>>
      [] verb = "remove" -> <<"trees", "remove">>
      [] OTHER -> <<verb>>

PanelCommands(verb) ==
    CASE verb \in {"close", "merge"} -> <<verb, "view">>
      [] verb = "remove" -> <<"trees", "remove">>
      [] OTHER -> <<verb>>

AsksPanel(c, verb, on, how) ==
    /\ verb \in panelDesk /\ request[c].left = <<>>
    /\ panelCount < MaxPanelCalls /\ panelCount' = panelCount + 1
    /\ request' = [request EXCEPT ![c] =
                      [NoRequest EXCEPT !.verb = verb, !.on = on, !.how = how,
                                        !.left = PanelCommands(verb)]]
    /\ UNCHANGED <<github, repoTrees, eventCount>>

\* An unknown filter lists the open ones, an unknown method merges.
IssueFilter == {"open", "closed", "all"}
PrFilter == IssueFilter \cup {"merged"}
Matches(state, filter) ==
    CASE filter = "all" -> state # "NONE"
      [] filter = "closed" -> state = "CLOSED"
      [] filter = "merged" -> state = "MERGED"
      [] OTHER -> state = "OPEN"

ListsIssues(c) == \E filter \in IssueFilter : AsksPanel(c, "list", IssueNumbers, filter)
ListsPrs(c) == \E filter \in PrFilter : AsksPanel(c, "list", PrNumbers, filter)
ViewsIssue(c) == \E n \in IssueNumbers : AsksPanel(c, "view", n, Blank)
ViewsPr(c) == \E n \in PrNumbers : AsksPanel(c, "view", n, Blank)
CreatesIssue(c) == \E n \in IssueNumbers : AsksPanel(c, "create", n, Blank)
CreatesPanelPr(c) == \E n \in PrNumbers : AsksPanel(c, "create", n, Blank)
ClosesIssue(c) == \E n \in IssueNumbers : AsksPanel(c, "close", n, Blank)
ClosesPr(c) == \E n \in PrNumbers : AsksPanel(c, "close", n, Blank)
MergesPr(c) == \E n \in PrNumbers : AsksPanel(c, "merge", n, Blank)
CommentsIssue(c) == \E n \in IssueNumbers : AsksPanel(c, "comment", n, Blank)
CommentsPr(c) == \E n \in PrNumbers : AsksPanel(c, "comment", n, Blank)
ListsIssueComments(c) == \E n \in IssueNumbers : AsksPanel(c, "comments", n, Blank)
ListsPrComments(c) == \E n \in PrNumbers : AsksPanel(c, "comments", n, Blank)
ChecksAuth(c) == AsksPanel(c, "auth", Blank, Blank)
ListsTrees(c) == AsksPanel(c, "trees", Blank, Blank)
RemovesTree(c) ==
    \E t \in Linked \cup {PrimaryTree, AliasOfPrimary}, force \in BOOLEAN :
        AsksPanel(c, "remove", t, force)
PrunesTrees(c) == AsksPanel(c, "prune", Blank, Blank)

PanelAsks(c) ==
    \/ ListsIssues(c) \/ ListsPrs(c) \/ ViewsIssue(c) \/ ViewsPr(c)
    \/ CreatesIssue(c) \/ CreatesPanelPr(c) \/ ClosesIssue(c) \/ ClosesPr(c) \/ MergesPr(c)
    \/ CommentsIssue(c) \/ CommentsPr(c) \/ ListsIssueComments(c) \/ ListsPrComments(c)
    \/ ChecksAuth(c) \/ ListsTrees(c) \/ RemovesTree(c) \/ PrunesTrees(c)

(***************************************************************************)
(* The commands.                                                           *)
(***************************************************************************)
AtCommand(c, command) == request[c].left # <<>> /\ Head(request[c].left) = command
Prints(reqs, c, shows) ==
    [reqs EXCEPT ![c].left = Tail(@), ![c].shown = shows, ![c].answered = Tail(reqs[c].left) = <<>>]
DropsRequest(c) == request' = [request EXCEPT ![c] = NoRequest]

PanelUpset == eventCount < MaxPanelEvents /\ eventCount' = eventCount + 1

\* The requests, now that a state they are about has become another.
Overtaken(of) ==
    [c \in PanelClients |-> IF request[c].on = of /\ request[c].left # <<>>
                            THEN [request[c] EXCEPT !.overtaken = TRUE] ELSE request[c]]

\* A command that reads: it prints what it finds, or fails.
Looks(c, command, may, shows) ==
    /\ AtCommand(c, command)
    /\ IF may THEN request' = Prints(request, c, shows) ELSE DropsRequest(c)
    /\ UNCHANGED <<github, repoTrees, panelCount, eventCount>>

Lists(c) ==
    Looks(c, "list", loggedIn, {n \in request[c].on : Matches(item[n], request[c].how)})
Views(c) ==
    LET n == request[c].on IN Looks(c, "view", loggedIn /\ item[n] # "NONE", item[n])
ReadsComments(c) ==
    LET n == request[c].on IN Looks(c, "comments", loggedIn /\ item[n] # "NONE", comments[n])
ReadsAuth(c) == Looks(c, "auth", TRUE, loggedIn)

\* The main one comes first, and the request to remove it ends here.
Registered == {PrimaryTree} \cup {t \in Linked : treeIs[t] # "none"}
ReadsTrees(c) ==
    Looks(c, "trees", request[c].verb = "remove" => request[c].on # PrimaryTree, Registered)

\* A command on GitHub: refused, done, or done with its answer lost. It
\* prints nothing of the state it leaves.
Moves(c, command, from, to) ==
    LET n == request[c].on
    IN /\ AtCommand(c, command)
       /\ IF loggedIn /\ item[n] \in from
          THEN /\ item' = [item EXCEPT ![n] = to]
               /\ \/ /\ request' = Prints(IF item[n] = to THEN request
                                        ELSE [Overtaken(n) EXCEPT ![c] = request[c]],
                                        c, request[c].shown)
                     /\ UNCHANGED eventCount
                  \/ PanelUpset /\ request' = [Overtaken(n) EXCEPT ![c] = NoRequest]
          ELSE DropsRequest(c) /\ UNCHANGED <<item, eventCount>>
       /\ UNCHANGED <<panelDesk, comments, loggedIn, repoTrees, panelCount>>

Opens(c) == Moves(c, "create", {"NONE"}, "OPEN")
Closes(c) == Moves(c, "close", {"OPEN", "CLOSED"}, "CLOSED")
Merges(c) == Moves(c, "merge", {"OPEN", "MERGED"}, "MERGED")

Comments(c) ==
    LET n == request[c].on
    IN /\ AtCommand(c, "comment")
       /\ IF loggedIn /\ item[n] # "NONE"
          THEN /\ comments' = [comments EXCEPT ![n] = @ + 1]
               /\ \/ request' = Prints(request, c, Blank) /\ UNCHANGED eventCount
                  \/ PanelUpset /\ DropsRequest(c)
          ELSE DropsRequest(c) /\ UNCHANGED <<comments, eventCount>>
       /\ UNCHANGED <<panelDesk, item, loggedIn, repoTrees, panelCount>>

\* git refuses the main working tree by whatever path, a locked one, and one
\* with changes unless forced. What was taken is noted for the property.
Removes(c) ==
    LET t == request[c].on
    IN /\ AtCommand(c, "remove")
       /\ IF t \in Linked /\ treeIs[t] # "none" /\ t \notin lockedTrees
             /\ (treeIs[t] = "dirty" => request[c].how)
          THEN /\ treeIs' = [treeIs EXCEPT ![t] = "none"]
               /\ request' = Prints([Overtaken(t) EXCEPT ![c] = request[c]], c, treeIs[t])
          ELSE DropsRequest(c) /\ UNCHANGED treeIs
       /\ UNCHANGED <<github, lockedTrees, panelCount, eventCount>>

Prunes(c) ==
    /\ AtCommand(c, "prune")
    /\ treeIs' = [t \in Linked |-> IF treeIs[t] = "gone" /\ t \notin lockedTrees
                                   THEN "none" ELSE treeIs[t]]
    /\ request' = Prints(request, c, Blank)
    /\ UNCHANGED <<github, lockedTrees, panelCount, eventCount>>

PanelFails(c) ==
    /\ request[c].left # <<>> /\ PanelUpset /\ DropsRequest(c)
    /\ UNCHANGED <<github, repoTrees, panelCount>>

PanelRuns(c) ==
    \/ Lists(c) \/ Views(c) \/ ReadsComments(c) \/ ReadsAuth(c) \/ ReadsTrees(c)
    \/ Opens(c) \/ Closes(c) \/ Merges(c) \/ Comments(c)
    \/ Removes(c) \/ Prunes(c) \/ PanelFails(c)

(***************************************************************************)
(* What else changes them: people on GitHub and at the terminal, the       *)
(* engine's trees and the agents in them.                                  *)
(***************************************************************************)
PersonMoves(n) ==
    /\ PanelUpset
    /\ \E to \in (IF n \in PrNumbers THEN PrStates ELSE IssueStates) \ {"NONE", item[n]} :
          /\ item[n] = "NONE" => to = "OPEN"
          /\ item[n] = "CLOSED" => to = "OPEN"
          /\ item[n] # "MERGED"
          /\ item' = [item EXCEPT ![n] = to]
    /\ request' = Overtaken(n)
    /\ UNCHANGED <<panelDesk, comments, loggedIn, repoTrees, panelCount>>

LogsInOrOut ==
    /\ PanelUpset
    /\ loggedIn' = ~loggedIn
    /\ UNCHANGED <<panelDesk, item, comments, repoTrees, request, panelCount>>

TreeChanges(t) ==
    /\ PanelUpset
    /\ \E to \in {"none", "clean", "dirty", "gone"} \ {treeIs[t]} :
          /\ treeIs[t] \in {"none", "gone"} => to \in {"none", "clean"}
          /\ treeIs' = [treeIs EXCEPT ![t] = to]
    /\ request' = Overtaken(t)
    /\ UNCHANGED <<github, lockedTrees, panelCount>>

LocksTree(t) ==
    /\ PanelUpset
    /\ treeIs[t] # "none"
    /\ lockedTrees' = lockedTrees \cup {t}
    /\ UNCHANGED <<github, treeIs, request, panelCount>>

PanelInit ==
    /\ panelDesk \in PanelDesks
    /\ \E state \in {"NONE", "OPEN"} : item = [n \in Numbers |-> state]
    /\ comments = [n \in Numbers |-> 0]
    /\ treeIs = [t \in Linked |-> "clean"] /\ lockedTrees = {}
    /\ loggedIn = TRUE
    /\ request = [c \in PanelClients |-> NoRequest]
    /\ panelCount = 0 /\ eventCount = 0

PanelNext ==
    \/ \E c \in PanelClients : PanelAsks(c) \/ PanelRuns(c)
    \/ \E n \in Numbers : PersonMoves(n)
    \/ LogsInOrOut
    \/ \E t \in Linked : TreeChanges(t) \/ LocksTree(t)

PanelSpec == PanelInit /\ [][PanelNext]_panelVars

-----------------------------------------------------------------------------

PanelTypeOK ==
    /\ panelDesk \in PanelDesks
    /\ \A n \in IssueNumbers : item[n] \in IssueStates
    /\ \A n \in PrNumbers : item[n] \in PrStates
    /\ \A n \in Numbers : comments[n] \in 0..MaxPanelCalls
    /\ treeIs \in [Linked -> {"none", "clean", "dirty", "gone"}]
    /\ lockedTrees \subseteq Linked
    /\ panelCount \in 0..MaxPanelCalls /\ eventCount \in 0..MaxPanelEvents

\* What the panel answers has happened. A close answers with the issue or
\* pull request closed, a merge with it merged, unless somebody moved it on
\* between the act and the look; a removal that was not forced has taken no
\* uncommitted work with it, made before or after the trees were listed, and
\* none has taken the main tree. (gh_close_issue, gh_merge_pr, gh_close_pr,
\* gh_remove_worktree)
AnsweredIsDone ==
    \A c \in PanelClients :
        LET req == request[c]
        IN req.answered /\ ~req.overtaken =>
              /\ req.verb = "close" => req.shown = "CLOSED"
              /\ req.verb = "merge" => req.shown = "MERGED"
              /\ req.verb = "remove" => req.on \in Linked /\ (req.shown = "dirty" => req.how)
=============================================================================
