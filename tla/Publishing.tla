----------------------------- MODULE Publishing -----------------------------
(***************************************************************************)
(* Documents published to one git checkout: a branch per document, the     *)
(* rendered text committed to it, a pull request. The operators' git panel *)
(* moves the same checkout. A request is a list of steps, each a git or gh *)
(* command or a write of the document's whole row, by the row read at the  *)
(* start; nothing keeps two requests apart.                                *)
(***************************************************************************)
EXTENDS Naturals, Sequences

CONSTANTS
    Papers,         \* the documents; each has a file and a branch of its own
    MainLine,       \* the base branch
    Side,           \* a branch made in the panel
    NoBranch,       \* no such branch, none recorded, no base set
    Publishers,     \* requests in flight at once
    PublishDesks,   \* what is asked in a behaviour: see PublishDesksAssumption
    MaxTexts, MaxPublishUpsets      \* bounds

ASSUME PublishConstants ==
    /\ MainLine \notin Papers /\ Side \notin Papers \cup {MainLine}
    /\ NoBranch \notin Papers \cup {MainLine, Side}
    /\ NoBranch \notin [has : SUBSET [n : Nat, docs : SUBSET Papers], file : [Papers -> Nat]]
    /\ MaxTexts \in Nat \ {0}

\* The verbs used, by how many clients at once, and bounds on their requests
\* and on those of the panel.
ASSUME PublishDesksAssumption ==
    \A w \in PublishDesks : w.clients \subseteq Publishers /\ w.calls \in Nat /\ w.panel \in Nat

VARIABLES
    pubDesk,        \* what is asked; never changes
    paperRow,       \* the publishing target and the links of each document
    paperText,      \* which version its pages make up
    headBranch,     \* the branch checked out
    local,          \* the branches of the checkout
    indexed, onDisk,    \* the version of each file there
    upstream,       \* the branches on GitHub: their commits and files
    prs,            \* the pull requests opened
    pubCall,        \* per request, the steps left and what it has read
    pubCalls, panelCalls, pubUpsets,
    entangled       \* two requests, or one and what another left, have met
                    \* in the checkout; kept for the property only

pubVars == <<pubDesk, paperRow, paperText, headBranch, local, indexed, onDisk, upstream, prs,
             pubCall, pubCalls, panelCalls, pubUpsets, entangled>>
gitVars == <<headBranch, local, indexed, onDisk>>
ghVars == <<upstream, prs>>

PubBranches == Papers \cup {MainLine, Side}
PaperRows == [base : {MainLine, NoBranch}, branch : PubBranches \cup {NoBranch},
              pr : Nat, issue : BOOLEAN]
Bare == [has |-> {}, file |-> [d \in Papers |-> 0]]
NoPubCall == [verb |-> "none", doc |-> NoBranch, left |-> <<>>, row |-> NoBranch, text |-> 0,
              n |-> 0]

\* The steps of each request after the reads it begins with.
Program ==
    [edit |-> <<"save">>, setRepo |-> <<"save">>,
     branch |-> <<"switch", "name", "save">>,
     commit |-> <<"render", "write", "add", "commit">>,
     commitPush |-> <<"render", "write", "add", "commit", "push">>,
     pr |-> <<"open", "save">>, issue |-> <<"openIssue", "save">>,
     publish |-> <<"switch", "name", "render", "write", "add", "commit", "push", "open", "save">>]

NextIs(c, step) == pubCall[c].left # <<>> /\ Head(pubCall[c].left) = step
Done(c) == LET rest == Tail(pubCall[c].left)
           IN IF rest = <<>> THEN NoPubCall ELSE [pubCall[c] EXCEPT !.left = rest]
Proceeds(c) == pubCall' = [pubCall EXCEPT ![c] = Done(c)]
Learns(c, row) ==
    pubCall' = [pubCall EXCEPT ![c] = [Done(c) EXCEPT !.row = row]]
Refused(c) ==
    /\ pubCall' = [pubCall EXCEPT ![c] = NoPubCall]
    /\ UNCHANGED <<gitVars, ghVars, entangled>>

InCheckout(c) == \E s \in {"name", "render", "write", "add", "commit"} : NextIs(c, s)
OthersInCheckout(c) == \E d \in Publishers \ {c} : InCheckout(d)
Meets(c, mixes) == entangled' = (entangled \/ OthersInCheckout(c) \/ mixes)

Bounds == <<pubCalls, panelCalls, pubUpsets>>

(***************************************************************************)
(* A request begins: the document, its target, and for a pull request its  *)
(* branch must be there.                                                   *)
(***************************************************************************)
MayBegin(verb, row) == verb = "pr" => row.branch # NoBranch

Begins(c, verb, d, row) ==
    /\ pubCall[c] = NoPubCall /\ verb \in pubDesk.verbs /\ c \in pubDesk.clients
    /\ pubCalls < pubDesk.calls /\ pubCalls' = pubCalls + 1
    /\ MayBegin(verb, row)
    /\ pubCall' = [pubCall EXCEPT ![c] =
                     [verb |-> verb, doc |-> d, left |-> Program[verb], row |-> row, text |-> 0,
                      n |-> pubCalls + 1]]
    /\ entangled' = (entangled \/ (verb \in {"commit", "commitPush"} /\ OthersInCheckout(c)))
    /\ UNCHANGED <<pubDesk, paperRow, paperText, gitVars, ghVars, panelCalls, pubUpsets>>

\* An edit keeps the target and the links as read; a new target keeps the
\* links.
EditsPaper(c, d) == Begins(c, "edit", d, paperRow[d])
SetsRepo(c, d, base) == Begins(c, "setRepo", d, [paperRow[d] EXCEPT !.base = base])
StartsOther(c, d) ==
    \E verb \in DOMAIN Program \ {"edit", "setRepo"} : Begins(c, verb, d, paperRow[d])

SavesRow(c) ==
    /\ NextIs(c, "save")
    /\ paperRow' = [paperRow EXCEPT ![pubCall[c].doc] = pubCall[c].row]
    /\ Proceeds(c)
    /\ UNCHANGED <<pubDesk, paperText, gitVars, ghVars, Bounds, entangled>>

\* The document's pages or those of a reference change.
RevisesText(d) ==
    /\ paperText[d] < MaxTexts
    /\ paperText' = [paperText EXCEPT ![d] = @ + 1]
    /\ UNCHANGED <<pubDesk, paperRow, gitVars, ghVars, pubCall, Bounds, entangled>>

(***************************************************************************)
(* git in the checkout.                                                    *)
(***************************************************************************)
PapersAt(b) == local[b].file

\* A switch keeps what is not committed, and is refused where it would have
\* to overwrite it.
Clean(target, d) ==
    \/ target[d] = PapersAt(headBranch)[d]
    \/ indexed[d] = target[d]
    \/ indexed[d] = PapersAt(headBranch)[d] /\ onDisk[d] = indexed[d]
Keeps(target, d) == target[d] = PapersAt(headBranch)[d] \/ indexed[d] = target[d]

CanSwitch(target) == \A d \in Papers : Clean(target, d)

SwitchesTo(b, target) ==
    /\ CanSwitch(target)
    /\ headBranch' = b
    /\ indexed' = [d \in Papers |-> IF Keeps(target, d) THEN indexed[d] ELSE target[d]]
    /\ onDisk' = [d \in Papers |-> IF Keeps(target, d) THEN onDisk[d] ELSE target[d]]

\* git switch -c
CanMake(b, from) ==
    local[b] = NoBranch /\ local[from] # NoBranch /\ CanSwitch(PapersAt(from))

MakesBranch(b, from) ==
    /\ CanMake(b, from)
    /\ SwitchesTo(b, PapersAt(from))
    /\ local' = [local EXCEPT ![b] = local[from]]

\* A mutant: the base is not handed on.
StartFromHead(c) == headBranch

StartPoint(c) == IF pubCall[c].row.base = NoBranch THEN headBranch ELSE pubCall[c].row.base

\* A branch that is there already is not taken up again.
CreatesBranch(c) ==
    /\ NextIs(c, "switch")
    /\ IF CanMake(pubCall[c].doc, StartPoint(c))
       THEN /\ MakesBranch(pubCall[c].doc, StartPoint(c))
            /\ Proceeds(c)
            /\ Meets(c, pubCall[c].row.base = NoBranch /\ headBranch # MainLine)
            /\ UNCHANGED ghVars
       ELSE Refused(c)
    /\ UNCHANGED <<pubDesk, paperRow, paperText, Bounds>>

\* The branch recorded is the one checked out by now.
NamesBranch(c) ==
    /\ NextIs(c, "name")
    /\ Learns(c, [pubCall[c].row EXCEPT !.branch = headBranch])
    /\ UNCHANGED <<pubDesk, paperRow, paperText, gitVars, ghVars, Bounds, entangled>>

Renders(c) ==
    /\ NextIs(c, "render")
    /\ pubCall' = [pubCall EXCEPT ![c] = [Done(c) EXCEPT !.text = paperText[pubCall[c].doc]]]
    /\ UNCHANGED <<pubDesk, paperRow, paperText, gitVars, ghVars, Bounds, entangled>>

WritesFile(c) ==
    /\ NextIs(c, "write")
    /\ onDisk' = [onDisk EXCEPT ![pubCall[c].doc] = pubCall[c].text]
    /\ Proceeds(c) /\ Meets(c, FALSE)
    /\ UNCHANGED <<pubDesk, paperRow, paperText, headBranch, local, indexed, ghVars, Bounds>>

AddsFile(c) ==
    /\ NextIs(c, "add")
    /\ indexed' = [indexed EXCEPT ![pubCall[c].doc] = onDisk[pubCall[c].doc]]
    /\ Proceeds(c) /\ Meets(c, FALSE)
    /\ UNCHANGED <<pubDesk, paperRow, paperText, headBranch, local, onDisk, ghVars, Bounds>>

\* Everything in the index is committed, to the branch that is checked out;
\* refused when that is nothing.
CommitsIndex(c) ==
    /\ NextIs(c, "commit")
    /\ LET docs == {d \in Papers : indexed[d] # PapersAt(headBranch)[d]}
       IN IF docs = {} THEN Refused(c)
          ELSE /\ local' = [local EXCEPT ![headBranch] =
                               [has |-> @.has \cup {[n |-> pubCall[c].n, docs |-> docs]},
                                file |-> indexed]]
               /\ Proceeds(c)
               /\ Meets(c, headBranch # pubCall[c].doc)
               /\ UNCHANGED <<headBranch, indexed, onDisk, ghVars>>
    /\ UNCHANGED <<pubDesk, paperRow, paperText, Bounds>>

\* Of the recorded branch, or else of the one checked out.
Pushed(c) == IF pubCall[c].row.branch = NoBranch THEN headBranch ELSE pubCall[c].row.branch

PushesPaper(c) ==
    /\ NextIs(c, "push")
    /\ LET b == Pushed(c)
       IN IF local[b] # NoBranch /\ upstream[b].has \subseteq local[b].has
          THEN /\ upstream' = [upstream EXCEPT ![b] = local[b]]
               /\ Proceeds(c)
               /\ UNCHANGED <<gitVars, prs, entangled>>
          ELSE Refused(c)
    /\ UNCHANGED <<pubDesk, paperRow, paperText, Bounds>>

(***************************************************************************)
(* GitHub.                                                                 *)
(***************************************************************************)
\* gh pr create wants something to merge and no other open request.
MayOpen(b) ==
    /\ ~(upstream[b].has \subseteq upstream[MainLine].has)
    /\ \A i \in DOMAIN prs : prs[i].head = b => prs[i].state # "open"

OpensPr(c) ==
    /\ NextIs(c, "open")
    /\ LET b == pubCall[c].row.branch
       IN IF MayOpen(b)
          THEN /\ prs' = Append(prs, [doc |-> pubCall[c].doc, head |-> b, state |-> "open"])
               /\ Learns(c, [pubCall[c].row EXCEPT !.pr = Len(prs')])
               /\ UNCHANGED <<gitVars, upstream, entangled>>
          ELSE Refused(c)
    /\ UNCHANGED <<pubDesk, paperRow, paperText, Bounds>>

OpensIssue(c) ==
    /\ NextIs(c, "openIssue")
    /\ Learns(c, [pubCall[c].row EXCEPT !.issue = TRUE])
    /\ UNCHANGED <<pubDesk, paperRow, paperText, gitVars, ghVars, Bounds, entangled>>

\* A command fails, or the daemon dies: what is done stays done. A file left
\* in the index goes into the next commit, whosever that is.
RequestFails(c) ==
    /\ pubCall[c] # NoPubCall
    /\ pubUpsets < MaxPublishUpsets /\ pubUpsets' = pubUpsets + 1
    /\ pubCall' = [pubCall EXCEPT ![c] = NoPubCall]
    /\ entangled' = (entangled \/ NextIs(c, "commit"))
    /\ UNCHANGED <<pubDesk, paperRow, paperText, gitVars, ghVars, pubCalls, panelCalls>>

(***************************************************************************)
(* The git panel.                                                          *)
(***************************************************************************)
Panel ==
    /\ panelCalls < pubDesk.panel /\ panelCalls' = panelCalls + 1
    /\ UNCHANGED <<pubDesk, paperRow, paperText, pubCall, pubCalls, pubUpsets>>
PanelMovesHead == entangled' = (entangled \/ \E c \in Publishers : InCheckout(c))

PanelCreatesBranch(from) ==
    /\ Panel /\ MakesBranch(Side, from) /\ PanelMovesHead
    /\ UNCHANGED ghVars

PanelChecksOut(b) ==
    /\ Panel /\ local[b] # NoBranch /\ SwitchesTo(b, PapersAt(b)) /\ PanelMovesHead
    /\ UNCHANGED <<local, ghVars>>

\* Without force only what the checkout contains.
PanelDeletesBranch(b, force) ==
    /\ Panel /\ local[b] # NoBranch /\ b # headBranch
    /\ force \/ local[b].has \subseteq local[headBranch].has
    /\ local' = [local EXCEPT ![b] = NoBranch]
    /\ UNCHANGED <<headBranch, indexed, onDisk, ghVars, entangled>>

PanelOpensPr(b) ==
    /\ Panel /\ MayOpen(b)
    /\ prs' = Append(prs, [doc |-> NoBranch, head |-> b, state |-> "open"])
    /\ UNCHANGED <<gitVars, upstream, entangled>>

PanelClosesPr(i) ==
    /\ Panel /\ prs[i].state = "open"
    /\ prs' = [prs EXCEPT ![i].state = "closed"]
    /\ UNCHANGED <<gitVars, upstream, entangled>>

\* What the base is on GitHub when b is merged: its own files but for those
\* that b's commits are about.
BaseWith(b) ==
    LET base == upstream[MainLine]
        brought == upstream[b].has \ base.has
    IN [has |-> base.has \cup brought,
        file |-> [d \in Papers |-> IF \E k \in brought : d \in k.docs
                                   THEN upstream[b].file[d] ELSE base.file[d]]]

\* With the deletion of the head the local branch goes too. A checkout that
\* was on it moves to the base, made if it is not there, and pulls it if it
\* has no commits of its own.
Pulled(base) ==
    IF local[MainLine] = NoBranch \/ local[MainLine].has \subseteq base.has
    THEN base ELSE local[MainLine]

PanelMergesPr(i) ==
    /\ Panel /\ prs[i].state = "open"
    /\ prs' = [prs EXCEPT ![i].state = "merged"]
    /\ LET b == prs[i].head
           merged == [upstream EXCEPT ![MainLine] = BaseWith(b)]
           onBase == Pulled(merged[MainLine])
       IN \/ upstream' = merged /\ UNCHANGED <<gitVars, entangled>>
          \/ /\ upstream' = [merged EXCEPT ![b] = Bare]
             /\ headBranch # b
             /\ local' = [local EXCEPT ![b] = NoBranch]
             /\ UNCHANGED <<headBranch, indexed, onDisk, entangled>>
          \/ /\ upstream' = [merged EXCEPT ![b] = Bare]
             /\ headBranch = b
             /\ SwitchesTo(MainLine, onBase.file)
             /\ local' = [local EXCEPT ![b] = NoBranch, ![MainLine] = onBase]
             /\ PanelMovesHead

PublishInit ==
    /\ pubDesk \in PublishDesks
    /\ paperRow = [d \in Papers |->
                     [base |-> MainLine, branch |-> NoBranch, pr |-> 0, issue |-> FALSE]]
    /\ paperText = [d \in Papers |-> 1]
    /\ headBranch = MainLine
    /\ local = [b \in PubBranches |-> IF b = MainLine
                   THEN Bare ELSE NoBranch]
    /\ indexed = [d \in Papers |-> 0] /\ onDisk = [d \in Papers |-> 0]
    /\ upstream = [b \in PubBranches |-> Bare]
    /\ prs = <<>>
    /\ pubCall = [c \in Publishers |-> NoPubCall]
    /\ pubCalls = 0 /\ panelCalls = 0 /\ pubUpsets = 0
    /\ entangled = FALSE

RequestStarts(c, d) ==
    \/ EditsPaper(c, d) \/ StartsOther(c, d)
    \/ \E base \in {MainLine, NoBranch} : SetsRepo(c, d, base)

RequestSteps(c) ==
    \/ SavesRow(c)
    \/ CreatesBranch(c) \/ NamesBranch(c)
    \/ Renders(c) \/ WritesFile(c) \/ AddsFile(c) \/ CommitsIndex(c)
    \/ PushesPaper(c) \/ OpensPr(c) \/ OpensIssue(c)

PanelSteps ==
    \/ \E b \in PubBranches :
          \/ PanelCreatesBranch(b) \/ PanelChecksOut(b) \/ PanelOpensPr(b)
          \/ \E force \in BOOLEAN : PanelDeletesBranch(b, force)
    \/ \E i \in DOMAIN prs :
          PanelClosesPr(i) \/ PanelMergesPr(i)

PublishNext ==
    \/ \E c \in Publishers :
          RequestSteps(c) \/ RequestFails(c) \/ \E d \in Papers : RequestStarts(c, d)
    \/ \E d \in Papers : RevisesText(d)
    \/ PanelSteps

PublishSpec == PublishInit /\ [][PublishNext]_pubVars

-----------------------------------------------------------------------------

PublishTypeOK ==
    /\ pubDesk \in PublishDesks
    /\ paperRow \in [Papers -> PaperRows]
    /\ paperText \in [Papers -> 1..MaxTexts]
    /\ local[headBranch] # NoBranch
    /\ \A d \in Papers : indexed[d] \in 0..MaxTexts /\ onDisk[d] \in 0..MaxTexts
    /\ \A i \in DOMAIN prs : prs[i].state \in {"open", "closed", "merged"}
    /\ \A c \in Publishers : pubCall[c] # NoPubCall => pubCall[c].row \in PaperRows

\* A pull request opened for a document asks to merge that document's file
\* and nobody else's, however many documents were published from the same
\* checkout, whichever steps of them failed, and wherever the panel left it,
\* so long as no two requests met in the checkout. (publish, create_branch)
PrShowsOnlyItsDocument ==
    ~entangled =>
        \A i \in DOMAIN prs : prs[i].doc # NoBranch =>
            \A k \in upstream[prs[i].head].has \ upstream[MainLine].has : k.docs = {prs[i].doc}
=============================================================================
