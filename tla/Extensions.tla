----------------------------- MODULE Extensions -----------------------------
(***************************************************************************)
(* The extensions of a daemon: the rows the store keeps of them, the       *)
(* registry in memory that dispatch reads, the component bytes, and the    *)
(* requests of operators that write the three one after another. The row   *)
(* is durable; the registry starts empty with every daemon, and a daemon   *)
(* fills it only by installing.                                            *)
(*                                                                         *)
(* A request is a record in extReq: what it does, how far it got and the   *)
(* copy of the row it read. Every await of a handler ends a step.          *)
(***************************************************************************)
EXTENDS Naturals, FiniteSets

CONSTANTS
    GateIds,        \* ids of extensions that export gate-check
    ReactIds,       \* ids of extensions that export event-reaction
    Bytes,          \* component contents, by their digest
    BytesOf,        \* the content installed under an id
    ExtClients,     \* operators' requests in flight at once
    NoExt           \* no row, no record, no request

ExtIds == GateIds \cup ReactIds

ASSUME BytesAssumption == BytesOf \in [ExtIds -> Bytes]

VARIABLES
    extRow,         \* the durable rows
    extReg,         \* the registry of this daemon
    extBlobs,       \* the contents in the blob store
    extReq          \* the request each client has in flight

registryVars == <<extRow, extReg, extBlobs, extReq>>

(***************************************************************************)
(* A row and a record hold the same two decisions of the operator. What a  *)
(* component may request is a constant of its content, so a grant is one   *)
(* bit: whether its requested capability is granted.                       *)
(***************************************************************************)
Flags == [on : BOOLEAN, granted : BOOLEAN]
DefaultDeny == [on |-> FALSE, granted |-> FALSE]
Maybe(S) == S \cup {NoExt}

ExtRequests ==
    [op : {"install"}, id : ExtIds, at : {"create", "put", "undo"}]
    \cup [op : {"delete"}, id : ExtIds, at : {"row", "bytes", "record"}]
    \cup [op : {"enable", "grant"}, id : ExtIds, at : {"write", "mirror"},
          to : BOOLEAN, copy : Flags]

ASSUME NoExtAssumption == NoExt \notin Flags /\ NoExt \notin ExtRequests

(***************************************************************************)
(* The registry's own operations, each under its write lock.               *)
(***************************************************************************)
Registered(id) == extReg[id] # NoExt

RegistrySet(id, field, to) ==
    extReg' = IF Registered(id) THEN [extReg EXCEPT ![id][field] = to] ELSE extReg

RegistryRemove(id) == extReg' = [extReg EXCEPT ![id] = NoExt]

\* The ids of the enabled records, the set a dispatch starts from.
FindByExport(ids) == {id \in ids : Registered(id) /\ extReg[id].on}

(***************************************************************************)
(* Requests.                                                               *)
(***************************************************************************)
Ask(c, r) == extReq' = [extReq EXCEPT ![c] = r]
Idle(c) == extReq[c] = NoExt
Reply(c) == Ask(c, NoExt)
Doing(c, op, at) == ~Idle(c) /\ extReq[c].op = op /\ extReq[c].at = at

\* Register first; a registered id is refused. Disabled, nothing granted.
BeginInstall(c, id) ==
    /\ Idle(c)
    /\ ~Registered(id)
    /\ extReg' = [extReg EXCEPT ![id] = DefaultDeny]
    /\ Ask(c, [op |-> "install", id |-> id, at |-> "create"])
    /\ UNCHANGED <<extRow, extBlobs>>

InstallCreatesRow(c) ==
    /\ Doing(c, "install", "create")
    /\ LET id == extReq[c].id IN
         \/ /\ extRow[id] = NoExt
            /\ extRow' = [extRow EXCEPT ![id] = DefaultDeny]
            /\ Ask(c, [extReq[c] EXCEPT !.at = "put"])
         \/ /\ extRow[id] # NoExt      \* the id is taken
            /\ Ask(c, [extReq[c] EXCEPT !.at = "undo"])
            /\ UNCHANGED extRow
    /\ UNCHANGED <<extReg, extBlobs>>

InstallRollsBack(c) ==
    /\ Doing(c, "install", "undo")
    /\ RegistryRemove(extReq[c].id)
    /\ Reply(c)
    /\ UNCHANGED <<extRow, extBlobs>>

\* The write of the bytes may fail; row and record stay.
InstallPutsBytes(c) ==
    /\ Doing(c, "install", "put")
    /\ extBlobs' \in {extBlobs, extBlobs \cup {BytesOf[extReq[c].id]}}
    /\ Reply(c)
    /\ UNCHANGED <<extRow, extReg>>

BeginDelete(c, id) ==
    /\ Idle(c)
    /\ extRow[id] # NoExt
    /\ Ask(c, [op |-> "delete", id |-> id, at |-> "row"])
    /\ UNCHANGED <<extRow, extReg, extBlobs>>

\* Deleting what another request deleted before is no error.
DeleteRow(c) ==
    /\ Doing(c, "delete", "row")
    /\ extRow' = [extRow EXCEPT ![extReq[c].id] = NoExt]
    /\ Ask(c, [extReq[c] EXCEPT !.at = "bytes"])
    /\ UNCHANGED <<extReg, extBlobs>>

\* By content, whoever else has installed the same content.
DeleteBytes(c) ==
    /\ Doing(c, "delete", "bytes")
    /\ extBlobs' = extBlobs \ {BytesOf[extReq[c].id]}
    /\ Ask(c, [extReq[c] EXCEPT !.at = "record"])
    /\ UNCHANGED <<extRow, extReg>>

\* A mutant: a delete does not take the record out of memory.
DeleteKeepsRecord(c) ==
    /\ Doing(c, "delete", "record")
    /\ Reply(c)
    /\ UNCHANGED <<extRow, extReg, extBlobs>>

DeleteRecord(c) ==
    /\ Doing(c, "delete", "record")
    /\ RegistryRemove(extReq[c].id)
    /\ Reply(c)
    /\ UNCHANGED <<extRow, extBlobs>>

(***************************************************************************)
(* Enabling and granting load the whole row, write the whole row back with *)
(* one field changed, and mirror the change into the registry.             *)
(***************************************************************************)
BeginChange(c, op, id, to) ==
    /\ Idle(c)
    /\ extRow[id] # NoExt
    /\ Ask(c, [op |-> op, id |-> id, at |-> "write", to |-> to, copy |-> extRow[id]])
    /\ UNCHANGED <<extRow, extReg, extBlobs>>

FieldOf(op) == IF op = "enable" THEN "on" ELSE "granted"

ChangeWrites(c) ==
    /\ Doing(c, "enable", "write") \/ Doing(c, "grant", "write")
    /\ LET r == extReq[c] IN
         \/ /\ extRow[r.id] # NoExt
            /\ extRow' = [extRow EXCEPT ![r.id] =
                              [r.copy EXCEPT ![FieldOf(r.op)] = r.to]]
            /\ Ask(c, [r EXCEPT !.at = "mirror"])
         \/ /\ extRow[r.id] = NoExt
            /\ Reply(c)
            /\ UNCHANGED extRow
    /\ UNCHANGED <<extReg, extBlobs>>

ChangeMirrors(c) ==
    /\ Doing(c, "enable", "mirror") \/ Doing(c, "grant", "mirror")
    /\ RegistrySet(extReq[c].id, FieldOf(extReq[c].op), extReq[c].to)
    /\ Reply(c)
    /\ UNCHANGED <<extRow, extBlobs>>

(***************************************************************************)
(* Two front doors: the HTTP routes and the tools of the MCP server, which *)
(* has no delete. A grant must stay within what the component requests;    *)
(* revoking always does.                                                   *)
(***************************************************************************)
RouteInstall(c, id) == BeginInstall(c, id)
RouteDelete(c, id) == BeginDelete(c, id)
RouteSetEnabled(c, id, on) == BeginChange(c, "enable", id, on)
RouteSetGrants(c, id, granted) == BeginChange(c, "grant", id, granted)

ToolInstall(c, id) == BeginInstall(c, id)
ToolSetEnabled(c, id, on) == BeginChange(c, "enable", id, on)
ToolSetGrants(c, id, granted) == BeginChange(c, "grant", id, granted)

RegistryRoutes(c, ids) ==
    \E id \in ids :
        \/ RouteInstall(c, id)
        \/ RouteDelete(c, id)
        \/ \E b \in BOOLEAN : RouteSetEnabled(c, id, b) \/ RouteSetGrants(c, id, b)

RegistryTools(c, ids) ==
    \E id \in ids :
        \/ ToolInstall(c, id)
        \/ \E b \in BOOLEAN : ToolSetEnabled(c, id, b) \/ ToolSetGrants(c, id, b)

RegistryHandlers(c) ==
    \/ InstallCreatesRow(c) \/ InstallRollsBack(c) \/ InstallPutsBytes(c)
    \/ DeleteRow(c) \/ DeleteBytes(c) \/ DeleteRecord(c)
    \/ ChangeWrites(c) \/ ChangeMirrors(c)

\* A new daemon: requests are gone, the registry is built empty.
RegistryBoots ==
    /\ extReg' = [id \in ExtIds |-> NoExt]
    /\ extReq' = [c \in ExtClients |-> NoExt]
    /\ UNCHANGED <<extRow, extBlobs>>

\* Reactors are installed and enabled already; gates are yet to come.
RegistryInit ==
    /\ extRow = [id \in ExtIds |-> IF id \in ReactIds
                                   THEN [DefaultDeny EXCEPT !.on = TRUE] ELSE NoExt]
    /\ extReg = extRow
    /\ extBlobs = {BytesOf[id] : id \in ReactIds}
    /\ extReq = [c \in ExtClients |-> NoExt]

RegistryNext ==
    \/ \E c \in ExtClients :
          \/ RegistryRoutes(c, GateIds) \/ RegistryTools(c, GateIds)
          \/ RegistryHandlers(c)
    \/ RegistryBoots

RegistrySpec == RegistryInit /\ [][RegistryNext]_registryVars

-----------------------------------------------------------------------------

RegistryTypeOK ==
    /\ extRow \in [ExtIds -> Maybe(Flags)]
    /\ extReg \in [ExtIds -> Maybe(Flags)]
    /\ extBlobs \subseteq Bytes
    /\ extReq \in [ExtClients -> Maybe(ExtRequests)]

\* A request that has still to take the record of an id away, or to give it
\* a row.
WillSettle(c, id) ==
    /\ ~Idle(c)
    /\ extReq[c].id = id
    /\ \/ extReq[c].op = "install" /\ extReq[c].at \in {"create", "undo"}
       \/ extReq[c].op = "delete" /\ extReq[c].at \in {"bytes", "record"}

\* No ghost is dispatched: a record of the registry that has no row belongs
\* to an install or a delete under way, which settles it. However installs
\* and deletes of one id by two operators and a restart interleave, a
\* failed install never leaves an extension in memory that the store does
\* not know.
NoGhostRecord ==
    \A id \in ExtIds :
        Registered(id) /\ extRow[id] = NoExt => \E c \in ExtClients : WillSettle(c, id)
=============================================================================
