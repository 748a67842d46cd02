------------------------------- MODULE Shelf -------------------------------
(***************************************************************************)
(* The small records of the store, one of each kind: a task template and a *)
(* skill attached to it, a skill, a brand, an agent of the catalog, the    *)
(* management agent's override for a workflow, a credential, the           *)
(* preferences, a follow-up note. A verb is one statement of the database, *)
(* or a look and then a statement; the daemon seeds the bundled records at *)
(* every start, before it serves anybody.                                  *)
(***************************************************************************)
EXTENDS Naturals

CONSTANTS
    Curators,       \* requests over HTTP in flight at once
    ToolCurators,   \* calls of the agents' tools in flight at once
    Shelves,        \* the sets of kinds used in a behaviour
    NoEntry,
    Bundled,        \* what a seed writes
    Unsettled,
    MaxCurations, MaxFaults     \* bounds

ASSUME ShelfConstants ==
    /\ NoEntry \notin Nat \cup {Bundled, Unsettled}
    /\ Unsettled \notin Nat \cup {Bundled}
    /\ MaxCurations \in Nat

VARIABLES
    shelf,          \* the kinds used; never changes
    entry,          \* per kind, the version the row holds, or NoEntry
    curation,       \* per request, how far it is
    toSeed,         \* the kinds a starting daemon has yet to seed
    curations, faults,
    settled         \* per kind, what the answered requests leave it at, when
                    \* they say: kept for the property only

shelfVars == <<shelf, entry, curation, toSeed, curations, faults, settled>>

Kinds == {"template", "skill", "branding", "agent", "override", "secret", "preferences",
          "note", "link"}
Seeded == {"agent", "skill"}

\* A link is of a template that is there; an override names an agent of the
\* catalog, and is dropped without a look.
Above(kind) == IF kind = "link" THEN "template" ELSE "agent"
Requires(kind, verb) == kind = "link" \/ (kind = "override" /\ verb = "put")

Makes(verb) == verb \in {"create", "put", "file", "attach"}
FirstLook(verb) == IF verb \in {"put", "delete", "resolve", "detach"} THEN "write" ELSE "select"

Requesters == Curators \cup ToolCurators
NoCuration == [kind |-> "none", verb |-> "none", at |-> "none", n |-> 0, found |-> FALSE]

Of(c) == curation[c].kind
Doing(c, kind, verbs) == Of(c) = kind /\ curation[c].verb \in verbs
At(c, step, verbs) == curation[c].at = step /\ curation[c].verb \in verbs
Steps(c, step) == curation' = [curation EXCEPT ![c].at = step]
Ends(c) == curation' = [curation EXCEPT ![c] = NoCuration]

\* Others at work on the same record, and those of them that may make it.
Others(c) == {d \in Requesters \ {c} : Of(d) = Of(c)}
Makers(c) == {d \in Others(c) : Makes(curation[d].verb)}

(***************************************************************************)
(* Requests.                                                               *)
(***************************************************************************)
AsksFor(c, kind, verb) ==
    /\ kind \in shelf /\ toSeed = {} /\ curation[c] = NoCuration
    /\ curations < MaxCurations /\ curations' = curations + 1
    /\ curation' = [curation EXCEPT ![c] =
                       [kind |-> kind, verb |-> verb, n |-> curations + 1, found |-> FALSE,
                        at |-> IF Requires(kind, verb) THEN "require" ELSE FirstLook(verb)]]
    /\ settled' = IF settled[kind] = NoEntry /\ ~Makes(verb) THEN settled
                  ELSE [settled EXCEPT ![kind] = Unsettled]
    /\ UNCHANGED <<shelf, entry, toSeed, faults>>

AsksCreateTemplate(c) == AsksFor(c, "template", "create")
AsksUpdateTemplate(c) == AsksFor(c, "template", "update")
AsksDeleteTemplate(c) == AsksFor(c, "template", "delete")
AsksAttach(c) == AsksFor(c, "link", "attach")
AsksDetach(c) == AsksFor(c, "link", "detach")
AsksCreateSkill(c) == AsksFor(c, "skill", "create")
AsksUpdateSkill(c) == AsksFor(c, "skill", "update")
AsksDeleteSkill(c) == AsksFor(c, "skill", "delete")
AsksCreateBranding(c) == AsksFor(c, "branding", "create")
AsksUpdateBranding(c) == AsksFor(c, "branding", "update")
AsksDeleteBranding(c) == AsksFor(c, "branding", "delete")
AsksCreateAgent(c) == AsksFor(c, "agent", "create")
AsksUpdateAgent(c) == AsksFor(c, "agent", "edit")
AsksDeleteAgent(c) == AsksFor(c, "agent", "delete")
AsksPutOverride(c) == AsksFor(c, "override", "put")
AsksDeleteOverride(c) == AsksFor(c, "override", "delete")
AsksPutSecret(c) == AsksFor(c, "secret", "put")
AsksDeleteSecret(c) == AsksFor(c, "secret", "delete")
AsksPutPreferences(c) == AsksFor(c, "preferences", "put")
AsksFileFollowUp(c) == AsksFor(c, "note", "file")
AsksResolveFollowUp(c) == AsksFor(c, "note", "resolve")

OverHttp(c) ==
    \/ AsksCreateTemplate(c) \/ AsksUpdateTemplate(c) \/ AsksDeleteTemplate(c)
    \/ AsksAttach(c) \/ AsksDetach(c)
    \/ AsksCreateSkill(c) \/ AsksUpdateSkill(c) \/ AsksDeleteSkill(c)
    \/ AsksCreateBranding(c) \/ AsksUpdateBranding(c) \/ AsksDeleteBranding(c)
    \/ AsksCreateAgent(c) \/ AsksUpdateAgent(c) \/ AsksDeleteAgent(c)
    \/ AsksPutOverride(c) \/ AsksDeleteOverride(c)
    \/ AsksPutSecret(c) \/ AsksDeleteSecret(c) \/ AsksPutPreferences(c)
    \/ AsksFileFollowUp(c) \/ AsksResolveFollowUp(c)

\* The tools, which have no deletion but a template's.
ToolOnTemplate(c) ==
    \E verb \in {"create", "update", "delete"} : AsksFor(c, "template", verb)
ToolOnSkill(c) == \E verb \in {"create", "update"} : AsksFor(c, "skill", verb)
ToolOnBranding(c) == \E verb \in {"create", "update"} : AsksFor(c, "branding", verb)
ToolFilesFollowUp(c) == AsksFor(c, "note", "file")

OverTools(c) ==
    ToolOnTemplate(c) \/ ToolOnSkill(c) \/ ToolOnBranding(c) \/ ToolFilesFollowUp(c)

(***************************************************************************)
(* What a request does in the store.                                       *)
(***************************************************************************)
\* require_template, validate_and_build
RequiresAbove(c) ==
    /\ curation[c].at = "require"
    /\ IF entry[Above(Of(c))] = NoEntry THEN Ends(c) ELSE Steps(c, FirstLook(curation[c].verb))
    /\ UNCHANGED <<shelf, entry, toSeed, curations, faults, settled>>

GoesOn(verb, row) ==
    \/ verb \in {"create", "attach"} /\ row = NoEntry
    \/ verb \in {"update", "edit"} /\ row # NoEntry
    \/ verb = "file"

SelectsEntry(c) ==
    /\ curation[c].at = "select"
    /\ LET row == entry[Of(c)]
       IN IF GoesOn(curation[c].verb, row)
          THEN curation' = [curation EXCEPT ![c].at = "write", ![c].found = row # NoEntry]
          ELSE Ends(c)
    /\ UNCHANGED <<shelf, entry, toSeed, curations, faults, settled>>

\* What a write leaves in the row, and what is then known of it.
Writes(c, version, known) ==
    /\ entry' = [entry EXCEPT ![Of(c)] = version]
    /\ settled' = [settled EXCEPT ![Of(c)] = known]
    /\ Ends(c)
    /\ UNCHANGED <<shelf, toSeed, curations, faults>>

KnownAfter(c) == IF Others(c) = {} THEN curation[c].n ELSE Unsettled

\* CREATE is refused when the row, or one with its unique columns, is there.
InsertsEntry(c) ==
    /\ At(c, "write", {"create", "attach", "file"}) /\ ~curation[c].found
    /\ IF entry[Of(c)] = NoEntry THEN Writes(c, curation[c].n, KnownAfter(c))
       ELSE Ends(c) /\ UNCHANGED <<shelf, entry, toSeed, curations, faults, settled>>

\* A mutant: the update makes the row it does not find, as an agent's edit
\* does.
UpsertedVersion(row, n) == n

UpdatedVersion(row, n) == IF row = NoEntry THEN NoEntry ELSE n

UpdatesEntry(c) ==
    /\ \/ At(c, "write", {"update", "resolve"})
       \/ At(c, "write", {"file"}) /\ curation[c].found
    /\ LET row == entry[Of(c)]
       IN Writes(c, UpdatedVersion(row, curation[c].n),
                 IF row = NoEntry THEN settled[Of(c)] ELSE KnownAfter(c))

PutsEntry(c) ==
    /\ At(c, "write", {"put"})
    /\ Writes(c, curation[c].n, KnownAfter(c))

UpsertsAgent(c) ==
    /\ At(c, "write", {"edit"})
    /\ Writes(c, curation[c].n,
              IF entry["agent"] = NoEntry THEN settled["agent"] ELSE KnownAfter(c))

RemovesEntry(c) ==
    /\ At(c, "write", {"delete", "detach"})
    /\ Writes(c, NoEntry, IF Makers(c) = {} THEN NoEntry ELSE Unsettled)

CurationFails(c) ==
    /\ curation[c] # NoCuration /\ faults < MaxFaults /\ faults' = faults + 1
    /\ Ends(c)
    /\ UNCHANGED <<shelf, entry, toSeed, curations, settled>>

(***************************************************************************)
(* The daemon dies and starts again: it seeds what is not there, record by *)
(* record, and then serves.                                                *)
(***************************************************************************)
ShelfRestarts ==
    /\ faults < MaxFaults /\ faults' = faults + 1
    /\ curation' = [c \in Requesters |-> NoCuration]
    /\ toSeed' = Seeded
    /\ UNCHANGED <<shelf, entry, curations, settled>>

SeedsDefault(kind) ==
    /\ kind \in toSeed /\ toSeed' = toSeed \ {kind}
    /\ IF entry[kind] = NoEntry
       THEN /\ entry' = [entry EXCEPT ![kind] = Bundled]
            /\ settled' = [settled EXCEPT ![kind] = Bundled]
       ELSE UNCHANGED <<entry, settled>>
    /\ UNCHANGED <<shelf, curation, curations, faults>>

\* A seed that fails is logged and the daemon serves without it.
SkipsSeed(kind) ==
    /\ kind \in toSeed /\ toSeed' = toSeed \ {kind}
    /\ faults < MaxFaults /\ faults' = faults + 1
    /\ UNCHANGED <<shelf, entry, curation, curations, settled>>

ShelfInit ==
    /\ shelf \in Shelves
    /\ entry = [kind \in Kinds |-> NoEntry]
    /\ settled = [kind \in Kinds |-> NoEntry]
    /\ curation = [c \in Requesters |-> NoCuration]
    /\ toSeed = Seeded
    /\ curations = 0 /\ faults = 0

\* The verbs of the store, by record.
Creating(c, kind) ==
    Doing(c, kind, {"create", "attach", "file"}) /\ (SelectsEntry(c) \/ InsertsEntry(c))
Updating(c, kind) == Doing(c, kind, {"update"}) /\ (SelectsEntry(c) \/ UpdatesEntry(c))
Deleting(c, kind) == Doing(c, kind, {"delete", "detach"}) /\ RemovesEntry(c)
Putting(c, kind) == Doing(c, kind, {"put"}) /\ PutsEntry(c)

CreatesTemplate(c) == Creating(c, "template")
UpdatesTemplate(c) == Updating(c, "template")
DeletesTemplate(c) == Deleting(c, "template")
AttachesEntry(c) == Creating(c, "link")
DetachesEntry(c) == Deleting(c, "link")
CreatesSkill(c) == Creating(c, "skill")
UpdatesSkill(c) == Updating(c, "skill")
DeletesSkill(c) == Deleting(c, "skill")
CreatesBranding(c) == Creating(c, "branding")
UpdatesBranding(c) == Updating(c, "branding")
DeletesBranding(c) == Deleting(c, "branding")
CreatesAgent(c) == Creating(c, "agent")
UpdatesAgent(c) == Doing(c, "agent", {"edit"}) /\ (SelectsEntry(c) \/ UpsertsAgent(c))
DeletesAgent(c) == Deleting(c, "agent")
PutsOverride(c) == Putting(c, "override")
DeletesOverride(c) == Deleting(c, "override")
PutsSecret(c) == Putting(c, "secret")
DeletesSecret(c) == Deleting(c, "secret")
PutsPreferences(c) == Putting(c, "preferences")
FilesFollowUp(c) == Creating(c, "note") \/ (Doing(c, "note", {"file"}) /\ UpdatesEntry(c))
ResolvesFollowUp(c) == Doing(c, "note", {"resolve"}) /\ UpdatesEntry(c)

AgentStore(c) == CreatesAgent(c) \/ UpdatesAgent(c) \/ DeletesAgent(c)
ConfigStore(c) == PutsOverride(c) \/ DeletesOverride(c) \/ PutsPreferences(c)
SecretStore(c) == PutsSecret(c) \/ DeletesSecret(c)
FollowUpStore(c) == FilesFollowUp(c) \/ ResolvesFollowUp(c)

CatalogueStore(c) ==
    \/ CreatesTemplate(c) \/ UpdatesTemplate(c) \/ DeletesTemplate(c)
    \/ AttachesEntry(c) \/ DetachesEntry(c)
    \/ CreatesSkill(c) \/ UpdatesSkill(c) \/ DeletesSkill(c)
    \/ CreatesBranding(c) \/ UpdatesBranding(c) \/ DeletesBranding(c)
    \/ AgentStore(c) \/ ConfigStore(c) \/ SecretStore(c) \/ FollowUpStore(c)

ShelfNext ==
    \/ \E c \in Curators : OverHttp(c)
    \/ \E c \in ToolCurators : OverTools(c)
    \/ \E c \in Requesters : RequiresAbove(c) \/ CatalogueStore(c) \/ CurationFails(c)
    \/ ShelfRestarts
    \/ \E kind \in Seeded : SeedsDefault(kind) \/ SkipsSeed(kind)

ShelfSpec == ShelfInit /\ [][ShelfNext]_shelfVars

-----------------------------------------------------------------------------

Versions == 1..MaxCurations \cup {Bundled}

ShelfTypeOK ==
    /\ shelf \in Shelves
    /\ entry \in [Kinds -> Versions \cup {NoEntry}]
    /\ settled \in [Kinds -> Versions \cup {NoEntry, Unsettled}]
    /\ toSeed \subseteq Seeded
    /\ \A c \in Requesters : curation[c].n \in 0..MaxCurations

\* What was answered holds. A record that was written with nobody else at
\* work on it says what was written until it is asked for again, whatever
\* starts and seeds come in between; a record that was deleted is gone until
\* its creation is asked for or a start seeds it, though edits and
\* attachments that found it are still to write. Not so for an agent of the
\* catalog, whose edit writes by upsert. (update_skill and its like,
\* seed_default_agents, file_follow_up, attach)
AnsweredWriteHolds ==
    \A kind \in Kinds :
        settled[kind] # Unsettled /\ (kind = "agent" => settled[kind] # NoEntry)
            => entry[kind] = settled[kind]
=============================================================================
