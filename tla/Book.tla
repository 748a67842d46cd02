-------------------------------- MODULE Book --------------------------------
(***************************************************************************)
(* One authored document and what hangs off it: its pages, the references  *)
(* merged into it, the sources behind it, and one uploaded file that       *)
(* serves as image or source.                                              *)
(*                                                                         *)
(* Nothing in the store ties these rows together: a page names its         *)
(* document, a link names two ids, an asset row names the bytes kept       *)
(* beside it. What holds between them, the order of the requests' writes   *)
(* makes hold. A request that fails or dies stops where it is.             *)
(***************************************************************************)
EXTENDS Naturals

CONSTANTS
    Authors,        \* requests over HTTP in flight at once
    ToolUsers,      \* calls of the agents' tools in flight at once
    PageIds, SourceIds, References,
    Scopes,         \* the projects an asset may be of
    Global,         \* the scope of an asset of no project
    Desks,          \* the sets of verbs used in a behaviour
    NoRow,
    MaxBookCalls, MaxMishaps        \* bounds

ASSUME BookConstants == Global \in Scopes /\ NoRow \notin Scopes

VARIABLES
    desk,           \* the verbs used; never changes
    bookHeld,       \* the document's row is there
    pageRow,        \* per id: "unused", "held" or "gone"
    sourceRow,      \* the same
    linked,         \* the references and sources attached to the document
    assetRow,       \* the scope in the row of the file's id, or NoRow
    blobs,          \* the scopes under which the bytes are kept
    bookCall,       \* per request, how far it is
    bookCalls, mishaps,
    bookMade,       \* how often the document was created,
    pageOf,         \* the creation each page was added to,
    strays,         \* pages added while the document was being deleted, and
    served          \* scopes of uploads answered and not deleted since: kept
                    \* for the properties only

bookVars == <<desk, bookHeld, pageRow, sourceRow, linked, assetRow, blobs, bookCall,
              bookCalls, mishaps, bookMade, pageOf, strays, served>>
pageVars == <<bookHeld, pageRow, bookMade, pageOf, strays>>
linkVars == <<sourceRow, linked>>
fileVars == <<assetRow, blobs, served>>

Clients == Authors \cup ToolUsers
Ids == PageIds \cup SourceIds \cup References

\* The agents' tools are fewer: they delete nothing and carry no bytes.
ToolVerbs == {"create", "addPage", "updatePage", "addReference", "addLink"}

NoBookCall == [verb |-> "none", at |-> "none", id |-> NoRow, seen |-> {}, made |-> 0,
               scope |-> Global, lone |-> FALSE]

OnBook(c, verb, at) == bookCall[c].verb = verb /\ bookCall[c].at = at
InFlight(c) == bookCall[c] # NoBookCall
Goes(c, at) == bookCall' = [bookCall EXCEPT ![c].at = at]
Answers(c) == bookCall' = [bookCall EXCEPT ![c] = NoBookCall]

DeletingFile == \E c \in Clients : bookCall[c].verb = "deleteAsset"

\* A request comes in.
Asks(c, verb, at, id, scope) ==
    /\ ~InFlight(c) /\ verb \in desk /\ (c \in ToolUsers => verb \in ToolVerbs)
    /\ bookCalls < MaxBookCalls /\ bookCalls' = bookCalls + 1
    /\ bookCall' = [bookCall EXCEPT ![c] =
                       [verb |-> verb, at |-> at, id |-> id, seen |-> {}, made |-> bookMade,
                        scope |-> scope, lone |-> ~DeletingFile]]
    /\ UNCHANGED <<desk, pageVars, linkVars, fileVars, mishaps>>

\* require_document comes first; a request for no document is refused.
AsksOfBook(c, verb, at, id) == bookHeld /\ Asks(c, verb, at, id, Global)

OnPages == UNCHANGED <<desk, linkVars, fileVars, bookCalls, mishaps>>
OnLinks == UNCHANGED <<desk, pageVars, fileVars, bookCalls, mishaps>>
OnFiles == UNCHANGED <<desk, pageVars, linkVars, bookCalls, mishaps>>

(***************************************************************************)
(* The document.                                                           *)
(***************************************************************************)
AsksCreate(c) == ~bookHeld /\ Asks(c, "create", "write", NoRow, Global)

\* A second creation that got past the look is refused by the insert.
CreatesDocument(c) ==
    /\ OnBook(c, "create", "write")
    /\ bookHeld' = TRUE
    /\ bookMade' = IF bookHeld THEN bookMade ELSE bookMade + 1
    /\ Answers(c)
    /\ OnPages /\ UNCHANGED <<pageRow, pageOf, strays>>

\* A mutant: the row goes while pages are left.
RowGoesAnyTime(c) == TRUE

RowGoesLast(c) == bookCall[c].seen = {}

\* The pages are listed, dropped one by one, and then the row. References
\* and sources stay.
ListsPages(c) ==
    /\ OnBook(c, "delete", "list")
    /\ bookCall' = [bookCall EXCEPT ![c].at = "pages",
                                    ![c].seen = {p \in PageIds : pageRow[p] = "held"}]
    /\ OnPages /\ UNCHANGED pageVars

DropsPage(c, p) ==
    /\ OnBook(c, "delete", "pages") /\ p \in bookCall[c].seen
    /\ pageRow' = [pageRow EXCEPT ![p] = "gone"]
    /\ bookCall' = [bookCall EXCEPT ![c].seen = @ \ {p}]
    /\ OnPages /\ UNCHANGED <<bookHeld, bookMade, pageOf, strays>>

DropsDocument(c) ==
    /\ OnBook(c, "delete", "pages") /\ RowGoesLast(c)
    /\ bookHeld' = FALSE
    /\ Answers(c)
    /\ OnPages /\ UNCHANGED <<pageRow, bookMade, pageOf, strays>>

(***************************************************************************)
(* Its pages. Where a page stands and what it says is left out.            *)
(***************************************************************************)
\* An id is minted from the document, the time and the title.
AsksAddPage(c, p) ==
    /\ pageRow[p] = "unused" /\ \A d \in Clients : bookCall[d].id # p
    /\ AsksOfBook(c, "addPage", "write", p)

DeletionUnderWay == \E c \in Clients : OnBook(c, "delete", "pages")

InsertsPage(c) ==
    /\ OnBook(c, "addPage", "write")
    /\ LET p == bookCall[c].id IN
           /\ pageRow' = [pageRow EXCEPT ![p] = "held"]
           /\ pageOf' = [pageOf EXCEPT ![p] = bookCall[c].made]
           /\ strays' = IF DeletionUnderWay \/ ~bookHeld \/ bookMade # bookCall[c].made
                        THEN strays \cup {p} ELSE strays
    /\ Answers(c)
    /\ OnPages /\ UNCHANGED <<bookHeld, bookMade>>

AsksUpdatePage(c, p) == pageRow[p] = "held" /\ AsksOfBook(c, "updatePage", "select", p)

SelectsPage(c) ==
    /\ OnBook(c, "updatePage", "select")
    /\ IF pageRow[bookCall[c].id] = "held" THEN Goes(c, "write") ELSE Answers(c)
    /\ OnPages /\ UNCHANGED pageVars

\* An update writes a row that is there and makes none.
Updated(row) == row

UpdatesPage(c) ==
    /\ OnBook(c, "updatePage", "write")
    /\ pageRow' = [pageRow EXCEPT ![bookCall[c].id] = Updated(@)]
    /\ Answers(c)
    /\ OnPages /\ UNCHANGED <<bookHeld, bookMade, pageOf, strays>>

AsksDeletePage(c, p) ==
    pageRow[p] # "unused" /\ AsksOfBook(c, "deletePage", "write", p)

DeletesPage(c) ==
    /\ OnBook(c, "deletePage", "write")
    /\ pageRow' = [pageRow EXCEPT ![bookCall[c].id] = "gone"]
    /\ Answers(c)
    /\ OnPages /\ UNCHANGED <<bookHeld, bookMade, pageOf, strays>>

(***************************************************************************)
(* The links: references merged in, sources behind.                        *)
(***************************************************************************)
AsksAddReference(c, r) == AsksOfBook(c, "addReference", "find", r)
AsksRemoveReference(c, r) == AsksOfBook(c, "removeReference", "unlink", r)

FindsLink(c) ==
    /\ bookCall[c].at = "find"
    /\ IF bookCall[c].id \in linked THEN Answers(c) ELSE Goes(c, "attach")
    /\ OnLinks /\ UNCHANGED linkVars

\* The index on the link refuses a second row of the same four columns.
Attaches(c) ==
    /\ bookCall[c].at = "attach"
    /\ linked' = linked \cup {bookCall[c].id}
    /\ Answers(c)
    /\ OnLinks /\ UNCHANGED sourceRow

Detaches(c) ==
    /\ bookCall[c].at = "unlink"
    /\ linked' = linked \ {bookCall[c].id}
    /\ Answers(c)
    /\ OnLinks /\ UNCHANGED sourceRow

Minted(s) == sourceRow[s] = "unused" /\ \A d \in Clients : bookCall[d].id # s

AsksAddLink(c, s) == Minted(s) /\ AsksOfBook(c, "addLink", "source", s)

\* A file is stored as an asset of no project first.
AsksAddFile(c, s) == Minted(s) /\ AsksOfBook(c, "addFile", "look", s)

InsertsSource(c) ==
    /\ bookCall[c].at = "source"
    /\ sourceRow' = [sourceRow EXCEPT ![bookCall[c].id] = "held"]
    /\ Goes(c, "find")
    /\ OnLinks /\ UNCHANGED linked

AsksRemoveSource(c, s) ==
    sourceRow[s] # "unused" /\ AsksOfBook(c, "removeSource", "row", s)

DropsSource(c) ==
    /\ OnBook(c, "removeSource", "row")
    /\ sourceRow' = [sourceRow EXCEPT ![bookCall[c].id] = "gone"]
    /\ Goes(c, "unlink")
    /\ OnLinks /\ UNCHANGED linked

(***************************************************************************)
(* The file. Its row's id comes from the content alone, so there is one    *)
(* row for all the projects; the bytes are kept per project.               *)
(***************************************************************************)
AsksUpload(c, scope) == Asks(c, "upload", "look", NoRow, scope)

\* A mutant: a file whose row is found is taken to be stored.
AfterFoundAnswers(c) == Answers(c) /\ served' = served \cup {bookCall[c].scope}

AfterFound(c) == Goes(c, "put") /\ UNCHANGED served

LooksUpAsset(c) ==
    /\ bookCall[c].at = "look" /\ bookCall[c].verb \in {"upload", "addFile"}
    /\ IF assetRow = bookCall[c].scope THEN AfterFound(c)
       ELSE Goes(c, "insert") /\ UNCHANGED served
    /\ OnFiles /\ UNCHANGED <<assetRow, blobs>>

InsertsAsset(c) ==
    /\ bookCall[c].at = "insert"
    /\ IF assetRow = NoRow
       THEN assetRow' = bookCall[c].scope /\ Goes(c, "put")
       ELSE Answers(c) /\ UNCHANGED assetRow
    /\ OnFiles /\ UNCHANGED <<blobs, served>>

PutsBytes(c) ==
    /\ bookCall[c].at = "put"
    /\ blobs' = blobs \cup {bookCall[c].scope}
    /\ served' = IF bookCall[c].lone THEN served \cup {bookCall[c].scope} ELSE served
    /\ IF bookCall[c].verb = "addFile" THEN Goes(c, "source") ELSE Answers(c)
    /\ OnFiles /\ UNCHANGED assetRow

\* From here on no upload under way is sure of its file.
AsksDeleteAsset(c) ==
    /\ ~InFlight(c) /\ "deleteAsset" \in desk /\ c \in Authors
    /\ assetRow # NoRow
    /\ bookCalls < MaxBookCalls /\ bookCalls' = bookCalls + 1
    /\ bookCall' = [d \in Clients |->
                       IF d = c THEN [NoBookCall EXCEPT !.verb = "deleteAsset", !.at = "row",
                                                        !.scope = assetRow]
                       ELSE [bookCall[d] EXCEPT !.lone = FALSE]]
    /\ served' = {}
    /\ UNCHANGED <<desk, pageVars, linkVars, assetRow, blobs, mishaps>>

DropsAsset(c) ==
    /\ OnBook(c, "deleteAsset", "row")
    /\ assetRow' = NoRow
    /\ Goes(c, "bytes")
    /\ OnFiles /\ UNCHANGED <<blobs, served>>

DropsBytes(c) ==
    /\ OnBook(c, "deleteAsset", "bytes")
    /\ blobs' = blobs \ {bookCall[c].scope}
    /\ Answers(c)
    /\ OnFiles /\ UNCHANGED <<assetRow, served>>

(***************************************************************************)
(* A step of a request fails and the request with it; the daemon dies and  *)
(* all of them do.                                                         *)
(***************************************************************************)
Fails(c) ==
    /\ InFlight(c) /\ mishaps < MaxMishaps /\ mishaps' = mishaps + 1
    /\ Answers(c)
    /\ UNCHANGED <<desk, pageVars, linkVars, fileVars, bookCalls>>

BookDies ==
    /\ mishaps < MaxMishaps /\ mishaps' = mishaps + 1
    /\ \E c \in Clients : InFlight(c)
    /\ bookCall' = [c \in Clients |-> NoBookCall]
    /\ UNCHANGED <<desk, pageVars, linkVars, fileVars, bookCalls>>

BookInit ==
    /\ desk \in Desks
    /\ bookHeld = TRUE /\ bookMade = 1
    /\ pageRow = [p \in PageIds |-> "unused"]
    /\ pageOf = [p \in PageIds |-> 0]
    /\ sourceRow = [s \in SourceIds |-> "unused"]
    /\ linked = {} /\ assetRow = NoRow /\ blobs = {}
    /\ bookCall = [c \in Clients |-> NoBookCall]
    /\ bookCalls = 0 /\ mishaps = 0
    /\ strays = {} /\ served = {}

DocumentVerbs(c) ==
    \/ AsksCreate(c) \/ Asks(c, "delete", "list", NoRow, Global)
    \/ \E r \in References : AsksAddReference(c, r) \/ AsksRemoveReference(c, r)

PageVerbs(c) ==
    \E p \in PageIds : AsksAddPage(c, p) \/ AsksUpdatePage(c, p) \/ AsksDeletePage(c, p)

SourceVerbs(c) ==
    \E s \in SourceIds : AsksAddLink(c, s) \/ AsksAddFile(c, s) \/ AsksRemoveSource(c, s)

FileVerbs(c) == AsksDeleteAsset(c) \/ \E scope \in Scopes : AsksUpload(c, scope)

\* The store's part of the requests, one call on its handle each.
AssetStore(c) == LooksUpAsset(c) \/ InsertsAsset(c) \/ DropsAsset(c)

ContentStore(c) ==
    \/ CreatesDocument(c) \/ ListsPages(c) \/ DropsDocument(c)
    \/ \E p \in PageIds : DropsPage(c, p)
    \/ InsertsPage(c) \/ SelectsPage(c) \/ UpdatesPage(c) \/ DeletesPage(c)
    \/ InsertsSource(c) \/ DropsSource(c)
    \/ FindsLink(c) \/ Attaches(c) \/ Detaches(c)

BlobStore(c) == PutsBytes(c) \/ DropsBytes(c)

BookNext ==
    \/ \E c \in Clients :
          \/ DocumentVerbs(c) \/ PageVerbs(c) \/ SourceVerbs(c) \/ FileVerbs(c)
          \/ ContentStore(c) \/ AssetStore(c) \/ BlobStore(c)
          \/ Fails(c)
    \/ BookDies

BookSpec == BookInit /\ [][BookNext]_bookVars

-----------------------------------------------------------------------------

BookTypeOK ==
    /\ desk \in Desks
    /\ bookHeld \in BOOLEAN
    /\ pageRow \in [PageIds -> {"unused", "held", "gone"}]
    /\ sourceRow \in [SourceIds -> {"unused", "held", "gone"}]
    /\ linked \subseteq References \cup SourceIds
    /\ assetRow \in Scopes \cup {NoRow}
    /\ blobs \subseteq Scopes
    /\ \A c \in Clients :
          /\ bookCall[c].id \in Ids \cup {NoRow}
          /\ bookCall[c].seen \subseteq PageIds
          /\ bookCall[c].scope \in Scopes

\* A document made anew under an id that was used before is empty: whatever
\* failed or overlapped in the deletion of the old one and in the edits of
\* its pages, none of its pages shows up in the new one, but those that were
\* added while the deletion ran. (delete_document's order; update_page)
MadeAnewIsEmpty ==
    \A p \in PageIds :
        bookHeld /\ pageRow[p] = "held" => pageOf[p] = bookMade \/ p \in strays

\* An upload that was answered is served: its row and its bytes are both
\* there until somebody asks for its deletion, and an upload repeats what an
\* earlier one that failed half way had left out. (create_asset)
UploadedIsServed == \A s \in served : assetRow = s /\ s \in blobs
=============================================================================
