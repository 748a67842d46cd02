------------------------------ MODULE FileTree ------------------------------
(***************************************************************************)
(* The tree of a checkout as the Files tab shows it: every file, tagged    *)
(* with how it changed. It is put together from the output of two or three *)
(* git commands, run one after the other while an agent edits, stages and  *)
(* commits in the same checkout and its branch is landed in the base.      *)
(***************************************************************************)
EXTENDS Naturals, Sequences, FiniteSets

CONSTANTS
    Files,          \* the paths of files, and of directories
    Dirs,
    DirsOf,         \* per path, the directories it is in
    Texts,          \* what a file may hold
    NoFile,         \* no such file
    Untagged,       \* no tag
    AtFirst,        \* what a checkout may hold at the start
    MaxTouches      \* bound: the changes made to the checkout

ASSUME FileTreeConstants ==
    /\ Files \cap Dirs = {} /\ NoFile \notin Texts
    /\ DirsOf \in [Files \cup Dirs -> SUBSET Dirs]
    /\ \A path \in Files \cup Dirs :
          /\ IsFiniteSet(DirsOf[path])
          /\ \A d \in DirsOf[path] : DirsOf[d] \subseteq DirsOf[path] \ {d}
    /\ AtFirst \subseteq [Files -> Texts \cup {NoFile}]
    /\ Untagged \notin {"Modified", "Added", "Deleted", "Untracked"}

VARIABLES
    forked,         \* what the branch was last at in base: the merge base
    committed,      \* HEAD of the checkout, its index and its files
    staged, worked,
    tree,           \* the request for the tree
    opened,         \* what the viewer of a file shows, until a change or the next tree
    touches

treeVars == <<forked, committed, staged, worked, tree, opened, touches>>
checkout == <<forked, committed, staged, worked, touches>>

Snapshots == [Files -> Texts \cup {NoFile}]
ChangeKinds == {"Modified", "Added", "Deleted", "Untracked"}
EmptyMap == [key \in {} |-> Untagged]

\* `differ` and `same` are kept for the property only: the files that have
\* been different from the reference, the same everywhere, since it was asked.
NoListing == [left |-> <<>>, based |-> FALSE, listed |-> {}, status |-> EmptyMap,
           answered |-> FALSE, differ |-> {}, same |-> {}]

NoView == [file |-> Untagged, shows |-> Untagged]

(***************************************************************************)
(* What the commands print, parsed.                                        *)
(***************************************************************************)
InTree(snapshot) == {f \in Files : snapshot[f] # NoFile}
Under(d) == {f \in Files : d \in DirsOf[f]}

\* Files git takes for renamed: one gone, one come, of one text. A pairing
\* leaves out none it could pair.
Renames(from, to) ==
    LET alike == {p \in (InTree(from) \ InTree(to)) \X (InTree(to) \ InTree(from)) :
                     from[p[1]] = to[p[2]]}
        Apart(pairs) == \A p, q \in pairs : p = q \/ (p[1] # q[1] /\ p[2] # q[2])
    IN {pairs \in SUBSET alike :
           Apart(pairs) /\ \A p \in alike \ pairs : ~Apart(pairs \cup {p})}

Olds(pairs) == {p[1] : p \in pairs}
News(pairs) == {p[2] : p \in pairs}

Kind(from, to, f) ==
    CASE from[f] = NoFile -> "Added"
      [] to[f] = NoFile -> "Deleted"
      [] OTHER -> "Modified"

\* A directory that has nothing tracked is printed in place of its files.
Untracked == InTree(worked) \ InTree(staged)
Collapsed == {d \in Dirs : Under(d) \cap Untracked # {} /\ Under(d) \cap InTree(staged) = {}}
Outermost == {d \in Collapsed : DirsOf[d] \cap Collapsed = {}}
UntrackedKeys == Outermost \cup {f \in Untracked : DirsOf[f] \cap Collapsed = {}}

FromPorcelain(f) ==
    IF staged[f] # committed[f] THEN Kind(committed, staged, f) ELSE Kind(staged, worked, f)

\* Of a renamed file the record has the new path and then the old one, and
\* the second is taken for the key.
ParseStatus(pairs) ==
    LET moved == Olds(pairs) \cup News(pairs)
        dirty == {f \in Files \ moved : staged[f] # committed[f]
                                          \/ (staged[f] # NoFile /\ worked[f] # staged[f])}
        tracked == dirty \cup Olds(pairs)
    IN [key \in tracked \cup UntrackedKeys |->
           CASE key \in UntrackedKeys -> "Untracked"
             [] key \in Olds(pairs) -> "Modified"
             [] OTHER -> FromPorcelain(key)]

ParseNameStatus(pairs) ==
    LET moved == Olds(pairs) \cup News(pairs)
        changed == {f \in Files \ moved : committed[f] # forked[f]}
    IN [key \in changed \cup News(pairs) |->
           IF key \in changed THEN Kind(forked, committed, key) ELSE "Modified"]

\* Uncommitted changes win over the branch's.
Union(status, branch) ==
    [key \in DOMAIN status \cup DOMAIN branch |->
        IF key \in DOMAIN status THEN status[key] ELSE branch[key]]

ResolveStatus(status, path) ==
    LET keys == IF path \in DOMAIN status THEN {path} ELSE DirsOf[path] \cap DOMAIN status
    IN IF keys = {} THEN Untagged ELSE status[CHOOSE key \in keys : TRUE]

\* A mutant: the branch's changes are read before the uncommitted ones.
BranchFirst(based) ==
    IF based THEN <<"list", "branch", "status">> ELSE <<"list", "status">>

Commands(based) ==
    IF based THEN <<"list", "status", "branch">> ELSE <<"list", "status">>

(***************************************************************************)
(* A request for the tree.                                                 *)
(***************************************************************************)
Differs(f, based, com, wor, fork) ==
    wor[f] \notin {NoFile, IF based THEN fork[f] ELSE com[f]}
Differing(based) == {f \in Files : Differs(f, based, committed, worked, forked)}
AllSame == {f \in InTree(worked) : \A s \in {staged, committed, forked} : s[f] = worked[f]}

ListTree(based) ==
    /\ tree.left = <<>>
    /\ tree' = [NoListing EXCEPT !.left = Commands(based), !.based = based,
                              !.differ = Differing(based), !.same = AllSame]
    /\ opened' = NoView
    /\ UNCHANGED checkout

Runs(command) == tree.left # <<>> /\ Head(tree.left) = command
Advances(req) == [req EXCEPT !.left = Tail(@), !.answered = Tail(req.left) = <<>>]

\* Files in the index and untracked ones: FullTree adds the directories.
LsFiles ==
    /\ Runs("list")
    /\ tree' = Advances([tree EXCEPT !.listed = InTree(staged) \cup InTree(worked)])
    /\ UNCHANGED <<checkout, opened>>

ReadsStatus ==
    /\ Runs("status")
    /\ \E pairs \in Renames(committed, staged) :
          tree' = Advances([tree EXCEPT !.status = Union(ParseStatus(pairs), tree.status),
                                    !.differ = @ \ News(pairs)])
    /\ UNCHANGED <<checkout, opened>>

ReadsBranch ==
    /\ Runs("branch")
    /\ \E pairs \in Renames(forked, committed) :
          tree' = Advances([tree EXCEPT !.status = Union(tree.status, ParseNameStatus(pairs))])
    /\ UNCHANGED <<checkout, opened>>

\* A command that fails ends the request.
TreeFails ==
    /\ tree.left # <<>>
    /\ tree' = NoListing
    /\ UNCHANGED <<checkout, opened>>

FullTree == tree.listed \cup UNION {DirsOf[f] : f \in tree.listed}
Tag(path) == ResolveStatus(tree.status, path)

\* The viewer reads the file off the disk, or the diff of its path.
ReadFile(f) ==
    /\ tree.answered /\ f \in FullTree
    /\ worked[f] # NoFile
    /\ opened' = [file |-> f, shows |-> worked[f]]
    /\ UNCHANGED <<checkout, tree>>

Diff(f) ==
    /\ tree.answered /\ f \in FullTree
    /\ LET empty == IF tree.based THEN committed[f] = forked[f]
                    ELSE worked[f] = committed[f] \/ f \in Untracked
       IN opened' = [file |-> f, shows |-> IF empty THEN "none" ELSE "diff"]
    /\ UNCHANGED <<checkout, tree>>

(***************************************************************************)
(* Meanwhile.                                                              *)
(***************************************************************************)
Touches ==
    /\ touches < MaxTouches /\ touches' = touches + 1
    /\ opened' = NoView

\* What is left of the two sets when the checkout has changed.
Observed ==
    IF tree.left = <<>> THEN tree
    ELSE [tree EXCEPT
            !.differ = {f \in @ : Differs(f, tree.based, committed', worked', forked')},
            !.same = {f \in @ : \A s \in {staged', committed', forked'} :
                                   s[f] = worked'[f] /\ s[f] # NoFile}]

EditsFile(f) ==
    /\ Touches
    /\ \E text \in Texts \cup {NoFile} :
          worked[f] # text /\ worked' = [worked EXCEPT ![f] = text]
    /\ UNCHANGED <<forked, committed, staged>>
    /\ tree' = Observed

MovesFile(f, g) ==
    /\ Touches
    /\ worked[f] # NoFile /\ worked[g] = NoFile
    /\ worked' = [worked EXCEPT ![f] = NoFile, ![g] = worked[f]]
    /\ UNCHANGED <<forked, committed, staged>>
    /\ tree' = Observed

Stages ==
    /\ Touches
    /\ staged # worked /\ staged' = worked
    /\ UNCHANGED <<forked, committed, worked>>
    /\ tree' = Observed

CommitsIndexed ==
    /\ Touches
    /\ committed # staged /\ committed' = staged
    /\ UNCHANGED <<forked, staged, worked>>
    /\ tree' = Observed

Lands ==
    /\ Touches
    /\ forked # committed /\ forked' = committed
    /\ UNCHANGED <<committed, staged, worked>>
    /\ tree' = IF tree.left = <<>> THEN tree ELSE [Observed EXCEPT !.differ = {}]

TreeInit ==
    /\ forked \in AtFirst /\ committed = forked /\ staged = forked /\ worked = forked
    /\ tree = NoListing /\ opened = NoView /\ touches = 0

TreeNext ==
    \/ \E based \in BOOLEAN : ListTree(based)
    \/ LsFiles \/ ReadsStatus \/ ReadsBranch \/ TreeFails
    \/ \E f \in Files : ReadFile(f) \/ Diff(f) \/ EditsFile(f)
    \/ \E f, g \in Files : MovesFile(f, g)
    \/ Stages \/ CommitsIndexed \/ Lands

TreeSpec == TreeInit /\ [][TreeNext]_treeVars

-----------------------------------------------------------------------------

TreeTypeOK ==
    /\ {forked, committed, staged, worked} \subseteq Snapshots
    /\ tree.listed \subseteq Files /\ tree.differ \cup tree.same \subseteq Files
    /\ DOMAIN tree.status \subseteq Files \cup Dirs
    /\ \A key \in DOMAIN tree.status : tree.status[key] \in ChangeKinds
    /\ opened = NoView \/ (opened.file \in Files /\ opened.shows \in Texts \cup {"diff", "none"})

\* The tree is true though no two of its commands see the same checkout. A
\* file that was there and different from the reference (HEAD, or where the
\* branch left base) from the request to the answer is listed and tagged,
\* wherever the difference was at each moment, uncommitted or committed, in a
\* new directory or not; one that was the same everywhere is listed untagged,
\* and so are its directories. Not so for the new path of a rename that is
\* staged, nor when base comes to HEAD meanwhile. (Gh::tree, resolve_status, list_tree)
ChangeIsShown ==
    tree.answered =>
        /\ tree.differ \cup tree.same \subseteq FullTree
        /\ \A f \in tree.differ : Tag(f) # Untagged
        /\ \A f \in tree.same : \A path \in {f} \cup DirsOf[f] : Tag(path) = Untagged
=============================================================================
