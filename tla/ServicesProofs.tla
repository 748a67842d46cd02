--------------------------- MODULE ServicesProofs ---------------------------
(***************************************************************************)
(* What the services beside the scheduler keep, for every set of           *)
(* workflows, extensions and loops and for every bound: the summary agents *)
(* of the pull requests, the records of the registry, the gate checks with *)
(* their breakers, the tail of the event stream, the linked issues and the *)
(* task graph; and the types of them all.                                  *)
(***************************************************************************)
EXTENDS MCServices, FiniteSetTheorems, WellFoundedInduction, TLAPS

(***************************************************************************)
(* Pull requests: an attempt spawns on top of what its kill has left.      *)
(***************************************************************************)
PassShape ==
    prPass \in [at : Phases, todo : SUBSET Workflows, run : Workflows \cup {NoRow}, ok : BOOLEAN]

SwarmInv ==
    /\ summarizers \in [Workflows -> Nat] /\ killsFailed \in Nat
    /\ PassShape
    /\ prPass.at \notin {"idle", "next"} => prPass.run \in Workflows
    /\ NoSwarm
    /\ At("spawn") => summarizers[prPass.run] <= killsFailed

\* A step of an attempt, its kills before and after the spawn included, keeps
\* the count of live agents within the kills that failed. (open_pr)
LEMMA AttemptKeepsCount == SwarmInv /\ PrStep => SwarmInv'
<1> SUFFICES ASSUME SwarmInv, PrStep PROVE SwarmInv'
  OBVIOUS
<1> USE DEF SwarmInv, NoSwarm, PassShape, At, Goes, NextOne, NoPass, Phases
<1>1. CASE PassBegins
  BY <1>1 DEF PassBegins
<1>2. CASE PassEnds
  BY <1>2 DEF PassEnds
<1>3. ASSUME NEW r \in Workflows, PassTakes(r) PROVE SwarmInv'
  BY <1>3 DEF PassTakes
<1>4. CASE \/ \E fails \in SUBSET {"directory", "gh", "git"} : LooksForPr(fails)
           \/ \E hidden \in BOOLEAN : LooksAgain(hidden)
  BY <1>4 DEF LooksForPr, LooksAgain
<1>5. CASE ReapsSummarizer
  BY <1>5 DEF ReapsSummarizer, Kills, ReapsTag
<1>6. CASE SpawnsSummarizer
  <2>1. /\ killsFailed' = killsFailed /\ prPass.at = "spawn" /\ prPass.run \in Workflows
        /\ summarizers[prPass.run] <= killsFailed
    BY <1>6 DEF SpawnsSummarizer
  <2>2. CASE /\ summarizers' = [summarizers EXCEPT ![prPass.run] = @ + 1]
             /\ prPass' = [prPass EXCEPT !.at = "await"]
    BY <2>1, <2>2
  <2>3. CASE prPass' = NextOne /\ summarizers' = summarizers
    BY <2>1, <2>3
  <2> QED
    BY <1>6, <2>2, <2>3 DEF SpawnsSummarizer
<1>7. CASE KillsSummarizer
  <2>1. prPass.at = "kill" /\ prPass.run \in Workflows
    BY <1>7 DEF KillsSummarizer
  <2>2. prPass' = [prPass EXCEPT !.at = "create"] \/ prPass' = NextOne
    BY <1>7 DEF KillsSummarizer
  <2>5. /\ PassShape' /\ prPass'.at # "spawn"
        /\ prPass'.at \notin {"idle", "next"} => prPass'.run \in Workflows
    <3>1. CASE prPass' = [prPass EXCEPT !.at = "create"]
      BY <2>1, <3>1
    <3>2. CASE prPass' = NextOne
      BY <2>1, <3>2
    <3> QED
      BY <2>2, <3>1, <3>2
  <2>3. CASE summarizers' = [summarizers EXCEPT ![prPass.run] = 0] /\ killsFailed' = killsFailed
    BY <2>1, <2>5, <2>3
  <2>4. CASE summarizers' = summarizers /\ killsFailed' = killsFailed + 1
    BY <2>1, <2>5, <2>4
  <2> QED
    BY <1>7, <2>3, <2>4 DEF KillsSummarizer, Kills
<1>8. ASSUME NEW done \in BOOLEAN, AwaitsSummary(done) PROVE SwarmInv'
  BY <1>8 DEF AwaitsSummary
<1>9. CASE CreatesPr
  BY <1>9 DEF CreatesPr
<1>10. CASE RecordsPr
  BY <1>10 DEF RecordsPr
<1>11. CASE WritesPrUrl
  BY <1>11 DEF WritesPrUrl, prVars
<1> QED
  BY <1>1, <1>2, <1>3, <1>4, <1>5, <1>6, <1>7, <1>8, <1>9, <1>10, <1>11 DEF PrStep

\* What operators, people on GitHub and the death of the daemon do leaves the
\* agents alone.
LEMMA WorldKeepsCount == SwarmInv /\ PrWorld => SwarmInv'
<1> SUFFICES ASSUME SwarmInv, PrWorld PROVE SwarmInv'
  OBVIOUS
<1> USE DEF SwarmInv, NoSwarm, PassShape, At, NoPass, Phases
<1>1. ASSUME NEW r \in Workflows,
             WorkflowCompletes(r) \/ WorkflowReset(r) \/ RunComesAndGoes(r)
                 \/ PersonOpensPr(r) \/ PersonMergesPr(r)
      PROVE  SwarmInv'
  BY <1>1 DEF WorkflowCompletes, WorkflowReset, RunComesAndGoes, PersonOpensPr, PersonMergesPr
<1>2. CASE OperatorsMeanwhile
  BY <1>2 DEF OperatorsMeanwhile
<1>3. CASE PrDies
  BY <1>3 DEF PrDies
<1> QED
  BY <1>1, <1>2, <1>3 DEF PrWorld

\* The count holds from the start and through every step.
LEMMA SwarmInductive ==
  /\ PrInit => SwarmInv
  /\ SwarmInv /\ [PrNext]_<<rowVars, prVars>> => SwarmInv'
<1>1. PrInit => SwarmInv
  BY DEF PrInit, SwarmInv, NoSwarm, PassShape, NoPass, At, Phases
<1>2. SwarmInv /\ [PrNext]_<<rowVars, prVars>> => SwarmInv'
  <2> SUFFICES ASSUME SwarmInv, [PrNext]_<<rowVars, prVars>> PROVE SwarmInv'
    OBVIOUS
  <2>1. CASE PrNext
    BY <2>1, AttemptKeepsCount, WorldKeepsCount DEF PrNext
  <2>2. CASE UNCHANGED <<rowVars, prVars>>
    BY <2>2 DEF SwarmInv, NoSwarm, PassShape, At, prVars
  <2> QED
    BY <2>1, <2>2
<1> QED
  BY <1>1, <1>2

\* Attempts never pile up summary agents, however many workflows there are and
\* whatever befalls them. (open_pr reaps before it spawns)
THEOREM AttemptsDoNotSwarm == PrSpec => []NoSwarm
<1>1. SwarmInv => NoSwarm
  BY DEF SwarmInv
<1> QED
  BY <1>1, SwarmInductive, PTL DEF PrSpec

-----------------------------------------------------------------------------

(***************************************************************************)
(* The registry: a record without a row has a request that settles it.     *)
(***************************************************************************)
RegistryInv == RegistryTypeOK /\ NoGhostRecord

\* A front door, of the routes or of the tools, opens a request and at most
\* registers an id that its install then settles. (register, load, find)
LEMMA RoutesKeepRegistry ==
  ASSUME RegistryInv, NEW c \in ExtClients, NEW ids \in SUBSET ExtIds,
         RegistryRoutes(c, ids) \/ RegistryTools(c, ids)
  PROVE  RegistryInv'
<1> USE NoExtAssumption DEF RegistryInv, RegistryTypeOK, NoGhostRecord, WillSettle, Registered,
        Idle, Ask, Maybe
<1>1. ASSUME NEW id \in ExtIds, BeginInstall(c, id) PROVE RegistryInv'
  <2> DEFINE r == [op |-> "install", id |-> id, at |-> "create"]
  <2>1. r \in ExtRequests
    BY <1>1 DEF ExtRequests
  <2>2. RegistryTypeOK'
    BY <1>1, <2>1 DEF BeginInstall, DefaultDeny, Flags
  <2>3. NoGhostRecord'
    BY <1>1, <2>1 DEF BeginInstall, DefaultDeny
  <2> QED
    BY <2>2, <2>3
<1>2. ASSUME NEW id \in ExtIds, BeginDelete(c, id) PROVE RegistryInv'
  <2> DEFINE r == [op |-> "delete", id |-> id, at |-> "row"]
  <2>1. r \in ExtRequests
    BY <1>2 DEF ExtRequests
  <2>2. RegistryTypeOK'
    BY <1>2, <2>1 DEF BeginDelete
  <2>3. NoGhostRecord'
    BY <1>2, <2>1 DEF BeginDelete
  <2> QED
    BY <2>2, <2>3
<1>3. ASSUME NEW id \in ExtIds, NEW b \in BOOLEAN, NEW op \in {"enable", "grant"},
             BeginChange(c, op, id, b)
      PROVE  RegistryInv'
  <2> DEFINE r == [op |-> op, id |-> id, at |-> "write", to |-> b, copy |-> extRow[id]]
  <2>1. r \in ExtRequests
    BY <1>3 DEF ExtRequests, BeginChange
  <2>2. RegistryTypeOK'
    BY <1>3, <2>1 DEF BeginChange
  <2>3. NoGhostRecord'
    BY <1>3, <2>1 DEF BeginChange
  <2> QED
    BY <2>2, <2>3
<1>4. PICK id \in ids :
          \/ BeginInstall(c, id) \/ BeginDelete(c, id)
          \/ \E b \in BOOLEAN : BeginChange(c, "enable", id, b) \/ BeginChange(c, "grant", id, b)
  BY DEF RegistryRoutes, RegistryTools, RouteInstall, RouteDelete, RouteSetEnabled,
         RouteSetGrants, ToolInstall, ToolSetEnabled, ToolSetGrants
<1> QED
  BY <1>1, <1>2, <1>3, <1>4

\* The later steps of a request: a row goes before its record does, a failed
\* install takes its record back, and a change writes no row that is gone.
\* (install, delete, set_enabled, set_grants)
LEMMA HandlersKeepRegistry ==
  ASSUME RegistryInv, NEW c \in ExtClients, RegistryHandlers(c)
  PROVE  RegistryInv'
<1> USE NoExtAssumption DEF RegistryInv, RegistryTypeOK, NoGhostRecord, WillSettle, Registered,
        Idle, Ask, Maybe, Reply, Doing
<1>1. CASE InstallCreatesRow(c)
  <2>1. /\ extReq[c] \in ExtRequests /\ extReq[c].op = "install" /\ extReq[c].id \in ExtIds
        /\ \A p \in {"put", "undo"} : /\ [extReq[c] EXCEPT !.at = p] \in ExtRequests
                                      /\ [extReq[c] EXCEPT !.at = p].id = extReq[c].id
    BY <1>1 DEF InstallCreatesRow, ExtRequests
  <2>2. CASE /\ extRow' = [extRow EXCEPT ![extReq[c].id] = DefaultDeny]
             /\ Ask(c, [extReq[c] EXCEPT !.at = "put"])
    <3>1. UNCHANGED <<extReg, extBlobs>> /\ DefaultDeny \in Flags
      BY <1>1 DEF InstallCreatesRow, DefaultDeny, Flags
    <3>2. RegistryTypeOK'
      BY <2>1, <2>2, <3>1
    <3>3. NoGhostRecord'
      BY <2>1, <2>2, <3>1
    <3> QED
      BY <3>2, <3>3
  <2>3. CASE Ask(c, [extReq[c] EXCEPT !.at = "undo"]) /\ UNCHANGED extRow
    <3>1. UNCHANGED <<extReg, extBlobs>>
      BY <1>1 DEF InstallCreatesRow
    <3>2. RegistryTypeOK'
      BY <2>1, <2>3, <3>1
    <3>3. NoGhostRecord'
      BY <1>1, <2>1, <2>3, <3>1 DEF InstallCreatesRow
    <3> QED
      BY <3>2, <3>3
  <2> QED
    BY <1>1, <2>2, <2>3 DEF InstallCreatesRow
<1>2. CASE InstallRollsBack(c)
  <2>1. RegistryTypeOK'
    BY <1>2 DEF InstallRollsBack, RegistryRemove
  <2>2. NoGhostRecord'
    BY <1>2 DEF InstallRollsBack, RegistryRemove
  <2> QED
    BY <2>1, <2>2
<1>3. CASE InstallPutsBytes(c)
  <2>1. extReq[c].id \in ExtIds
    BY <1>3 DEF InstallPutsBytes, ExtRequests
  <2> QED
    BY <1>3, <2>1, BytesAssumption DEF InstallPutsBytes
<1>4. CASE DeleteRow(c)
  <2>1. /\ extReq[c] \in ExtRequests /\ extReq[c].op = "delete" /\ extReq[c].id \in ExtIds
        /\ [extReq[c] EXCEPT !.at = "bytes"] \in ExtRequests
    BY <1>4 DEF DeleteRow, ExtRequests
  <2>2. RegistryTypeOK'
    BY <1>4, <2>1 DEF DeleteRow
  <2>3. NoGhostRecord'
    BY <1>4, <2>1 DEF DeleteRow
  <2> QED
    BY <2>2, <2>3
<1>5. CASE DeleteBytes(c)
  <2>1. /\ extReq[c] \in ExtRequests /\ extReq[c].op = "delete" /\ extReq[c].id \in ExtIds
        /\ [extReq[c] EXCEPT !.at = "record"] \in ExtRequests
    BY <1>5 DEF DeleteBytes, ExtRequests
  <2>2. RegistryTypeOK'
    BY <1>5, <2>1 DEF DeleteBytes
  <2>3. NoGhostRecord'
    BY <1>5, <2>1 DEF DeleteBytes
  <2> QED
    BY <2>2, <2>3
<1>6. CASE DeleteRecord(c)
  <2>1. RegistryTypeOK'
    BY <1>6 DEF DeleteRecord, RegistryRemove
  <2>2. NoGhostRecord'
    BY <1>6 DEF DeleteRecord, RegistryRemove
  <2> QED
    BY <2>1, <2>2
<1>7. CASE ChangeWrites(c)
  <2>1. /\ extReq[c] \in ExtRequests /\ extReq[c].op \in {"enable", "grant"}
        /\ extReq[c].id \in ExtIds /\ extReq[c].copy \in Flags /\ extReq[c].to \in BOOLEAN
        /\ [extReq[c] EXCEPT !.at = "mirror"] \in ExtRequests
    BY <1>7 DEF ChangeWrites, ExtRequests
  <2>2. [extReq[c].copy EXCEPT ![FieldOf(extReq[c].op)] = extReq[c].to] \in Flags
    BY <2>1 DEF FieldOf, Flags
  <2>3. RegistryTypeOK'
    BY <1>7, <2>1, <2>2 DEF ChangeWrites
  <2>4. NoGhostRecord'
    BY <1>7, <2>1, <2>2 DEF ChangeWrites
  <2> QED
    BY <2>3, <2>4
<1>8. CASE ChangeMirrors(c)
  <2>1. /\ extReq[c].op \in {"enable", "grant"}
        /\ extReq[c].id \in ExtIds /\ extReq[c].to \in BOOLEAN
    BY <1>8 DEF ChangeMirrors, ExtRequests
  <2>2. \A flags \in Flags :
            [flags EXCEPT ![FieldOf(extReq[c].op)] = extReq[c].to] \in Flags
    BY <2>1 DEF FieldOf, Flags
  <2>3. RegistryTypeOK'
    BY <1>8, <2>1, <2>2 DEF ChangeMirrors, RegistrySet
  <2>4. NoGhostRecord'
    BY <1>8, <2>1 DEF ChangeMirrors, RegistrySet
  <2> QED
    BY <2>3, <2>4
<1> QED
  BY <1>1, <1>2, <1>3, <1>4, <1>5, <1>6, <1>7, <1>8 DEF RegistryHandlers

\* A daemon boots with an empty registry and no request. (the registry is in
\* memory only)
LEMMA BootsKeepRegistry == RegistryInv /\ RegistryBoots => RegistryInv'
BY DEF RegistryInv, RegistryTypeOK, NoGhostRecord, RegistryBoots, Registered, Maybe

\* The first registry is what the rows say.
LEMMA RegistryBegins == RegistryInit => RegistryInv
<1> SUFFICES ASSUME RegistryInit PROVE RegistryInv
  OBVIOUS
<1>1. \A id \in ExtIds : (IF id \in ReactIds THEN [DefaultDeny EXCEPT !.on = TRUE] ELSE NoExt)
                             \in Maybe(Flags)
  BY DEF DefaultDeny, Flags, Maybe
<1>2. RegistryTypeOK
  BY <1>1, BytesAssumption DEF RegistryInit, RegistryTypeOK, Maybe, ExtIds
<1>3. NoGhostRecord
  BY DEF RegistryInit, NoGhostRecord, Registered
<1> QED
  BY <1>2, <1>3 DEF RegistryInv

\* No ghost is dispatched, however many operators there are: a record without
\* a row belongs to an install or a delete that is going to settle it.
THEOREM NoGhosts == RegistrySpec => []NoGhostRecord
<1>1. RegistryInv /\ [RegistryNext]_registryVars => RegistryInv'
  <2> SUFFICES ASSUME RegistryInv, [RegistryNext]_registryVars PROVE RegistryInv'
    OBVIOUS
  <2>1. GateIds \in SUBSET ExtIds
    BY DEF ExtIds
  <2>2. CASE RegistryNext
    BY <2>1, <2>2, RoutesKeepRegistry, HandlersKeepRegistry, BootsKeepRegistry DEF RegistryNext
  <2>3. CASE UNCHANGED registryVars
    BY <2>3 DEF registryVars, RegistryInv, RegistryTypeOK, NoGhostRecord, WillSettle, Registered,
                Idle
  <2> QED
    BY <2>2, <2>3
<1>2. RegistryInv => NoGhostRecord
  BY DEF RegistryInv
<1> QED
  BY <1>1, <1>2, RegistryBegins, PTL DEF RegistrySpec

-----------------------------------------------------------------------------

(***************************************************************************)
(* The gate checks of the drive loops. A check has a verdict of every gate *)
(* it took up and is through with, or has failed; a gate that tripped its  *)
(* breaker is left to the checks that hold it, and the streak of its       *)
(* faults can grow by those only.                                          *)
(***************************************************************************)
GatesInType ==
    /\ breaker \in [ExtIds -> [streak : Nat, tripped : BOOLEAN]]
    /\ alerts \in [ExtIds -> Nat]
    /\ gateRun \in [Checkers -> GateRuns]

VerdictsKept ==
    \A l \in Checkers :
        gateRun[l].at \in {"run", "passed"} =>
            gateRun[l].failed \/ gateRun[l].took \subseteq gateRun[l].left \cup gateRun[l].heard

\* The checks that hold a gate and have not asked it.
Asking(id) == {l \in Checkers : gateRun[l].at = "run" /\ id \in gateRun[l].left}

Shedding(id) ==
    /\ alerts[id] = IF breaker[id].tripped THEN 1 ELSE 0
    /\ breaker[id].tripped =>
           breaker[id].streak + Cardinality(Asking(id)) < Threshold + Cardinality(Checkers)
    /\ ~breaker[id].tripped => breaker[id].streak < Threshold

GateInv ==
    /\ GatesInType
    /\ VerdictsKept
    /\ FaultNeverPasses
    /\ \A id \in GateIds : Shedding(id)

\* No more checks hold a gate than there are loops.
LEMMA AskingCounted ==
  ASSUME NEW id
  PROVE  /\ IsFiniteSet(Asking(id)) /\ Cardinality(Asking(id)) \in Nat
         /\ Cardinality(Checkers) \in Nat /\ Cardinality(Asking(id)) <= Cardinality(Checkers)
BY CheckersAssumption, FS_Subset, FS_CardinalityType DEF Asking

\* A check that is through with a gate is one fewer that holds it.
LEMMA AskingShrinks ==
  ASSUME NEW id, NEW l \in Asking(id), Asking(id)' = Asking(id) \ {l}
  PROVE  Cardinality(Asking(id)') = Cardinality(Asking(id)) - 1
BY AskingCounted, FS_RemoveElement

\* The streak and the alerts of a breaker that takes up a fault.
\* (Breaker::record_fault)
LEMMA FaultCounted ==
  ASSUME GatesInType, NEW id \in ExtIds, RecordFault(id)
  PROVE  /\ breaker' \in [ExtIds -> [streak : Nat, tripped : BOOLEAN]]
         /\ alerts' \in [ExtIds -> Nat]
         /\ \A i \in ExtIds \ {id} : breaker'[i] = breaker[i] /\ alerts'[i] = alerts[i]
         /\ breaker'[id].streak <= breaker[id].streak + 1
         /\ breaker[id].tripped => breaker'[id].tripped /\ alerts'[id] = alerts[id]
         /\ ~breaker[id].tripped =>
                /\ breaker'[id].tripped <=> breaker'[id].streak >= Threshold
                /\ alerts'[id] = alerts[id] + IF breaker'[id].tripped THEN 1 ELSE 0
<1> DEFINE streak == Saturated(breaker[id].streak)
           trips == TripsNow(breaker[id], streak)
<1>1. streak \in Nat /\ streak <= breaker[id].streak + 1
  BY AskingCounted, ThresholdAssumption DEF GatesInType, Saturated, StreakCap
<1>2. trips \in BOOLEAN /\ (trips <=> ~breaker[id].tripped /\ streak >= Threshold)
  BY DEF TripsNow, GatesInType
<1>3. /\ breaker' = [breaker EXCEPT ![id] = [streak |-> streak,
                                             tripped |-> breaker[id].tripped \/ trips]]
      /\ alerts' = [alerts EXCEPT ![id] = @ + IF trips THEN 1 ELSE 0]
  BY DEF RecordFault
<1> HIDE DEF streak, trips
<1> QED
  BY <1>1, <1>2, <1>3 DEF GatesInType

\* A check takes up the gates whose breakers are closed.
LEMMA BeginsKeepsGates == ASSUME GateInv, NEW l \in Checkers, GateBegins(l) PROVE GateInv'
<1> DEFINE took == DispatchSet(GateIds)
<1>1. took \in SUBSET GateIds /\ \A id \in took : ~breaker[id].tripped
  BY DEF DispatchSet, FindByExport
<1>2. gateRun' = [gateRun EXCEPT ![l] = [NoCheck EXCEPT !.at = "run", !.left = took, !.took = took]]
      /\ UNCHANGED <<breaker, alerts>>
  BY DEF GateBegins
<1> HIDE DEF took
<1>3. NoCheck \in GateRuns /\ NoCheck.failed = FALSE
  BY DEF NoCheck, GateRuns, GateStates
<1>4. /\ gateRun' \in [Checkers -> GateRuns]
      /\ gateRun'[l].at = "run" /\ gateRun'[l].took = took /\ gateRun'[l].left = took
      /\ \A k \in Checkers \ {l} : gateRun'[k] = gateRun[k]
  BY <1>1, <1>2, <1>3 DEF GateInv, GatesInType, GateRuns, GateStates
<1>7. GatesInType' /\ VerdictsKept' /\ FaultNeverPasses'
  BY <1>2, <1>4 DEF GateInv, GatesInType, VerdictsKept, FaultNeverPasses
<1>5. ASSUME NEW id \in GateIds, breaker[id].tripped PROVE Asking(id)' \subseteq Asking(id)
  BY <1>1, <1>4, <1>5 DEF Asking
<1>6. ASSUME NEW id \in GateIds PROVE Shedding(id)'
  <2>1. ASSUME breaker[id].tripped
        PROVE  /\ Cardinality(Asking(id)') <= Cardinality(Asking(id))
               /\ Cardinality(Asking(id)') \in Nat
    <3>1. Asking(id)' \in SUBSET Asking(id)
      BY <1>5, <2>1
    <3>2. IsFiniteSet(Asking(id))
      BY AskingCounted
    <3> QED
      BY <3>1, <3>2, FS_Subset, FS_CardinalityType
  <2> QED
    <3>1. Shedding(id) /\ breaker' = breaker /\ alerts' = alerts /\ breaker[id].streak \in Nat
      BY <1>2 DEF GateInv, GatesInType, ExtIds
    <3>2. Cardinality(Asking(id)) \in Nat /\ Cardinality(Checkers) \in Nat
      BY AskingCounted
    <3> QED
      BY <2>1, <3>1, <3>2, ThresholdAssumption DEF Shedding
<1> QED
  BY <1>2, <1>6, <1>7 DEF GateInv

\* What a check that is through with a gate leaves of the bookkeeping: it was
\* one of those that held the gate, and no other gate lost a holder.
LEMMA Asked ==
  ASSUME NEW l \in Checkers, NEW id \in GateIds,
         gateRun[l].at = "run", id \in gateRun[l].left,
         gateRun'[l].at = "run", gateRun'[l].left = gateRun[l].left \ {id},
         \A k \in Checkers \ {l} : gateRun'[k] = gateRun[k]
  PROVE  /\ Cardinality(Asking(id)') = Cardinality(Asking(id)) - 1
         /\ \A i \in GateIds \ {id} : Asking(i)' = Asking(i)
<1>1. l \in Asking(id) /\ Asking(id)' = Asking(id) \ {l}
  BY DEF Asking
<1>2. \A i \in GateIds \ {id} : Asking(i)' = Asking(i)
  BY DEF Asking
<1> QED
  BY <1>1, <1>2, AskingShrinks

\* A clean run resets the streak and is heard. (run_one, record_success)
LEMMA AnswersKeepGates ==
  ASSUME GateInv, NEW l \in Checkers, NEW id \in GateIds, NEW fails \in BOOLEAN,
         GateAnswers(l, id, fails)
  PROVE  GateInv'
<1> DEFINE failed == gateRun[l].failed \/ fails
           heard == gateRun[l].heard \cup {id}
<1>1. /\ gateRun[l].at = "run" /\ id \in gateRun[l].left /\ gateRun[l] \in GateRuns
      /\ failed \in BOOLEAN /\ heard \in SUBSET GateIds
  BY DEF GateAnswers, GateInv, GatesInType, GateRuns
<1>2. /\ gateRun' \in [Checkers -> GateRuns]
      /\ gateRun'[l].at = "run" /\ gateRun'[l].left = gateRun[l].left \ {id}
      /\ gateRun'[l].failed = failed /\ gateRun'[l].heard = heard
      /\ gateRun'[l].took = gateRun[l].took
      /\ \A k \in Checkers \ {l} : gateRun'[k] = gateRun[k]
  BY <1>1 DEF GateAnswers, GateInv, GatesInType, GateRuns
<1>3. /\ breaker' = [breaker EXCEPT ![id].streak = 0] /\ alerts' = alerts /\ id \in ExtIds
  BY DEF GateAnswers, RecordSuccess, ExtIds
<1> HIDE DEF failed, heard
<1>4. /\ Cardinality(Asking(id)') = Cardinality(Asking(id)) - 1
      /\ \A i \in GateIds \ {id} : Asking(i)' = Asking(i)
  BY <1>1, <1>2, Asked
<1>5. GatesInType'
  BY <1>2, <1>3 DEF GateInv, GatesInType
<1>6. VerdictsKept' /\ FaultNeverPasses'
  <2>1. gateRun'[l].failed
            \/ gateRun'[l].took \subseteq gateRun'[l].left \cup gateRun'[l].heard
    BY <1>1, <1>2 DEF GateInv, VerdictsKept, failed, heard
  <2> QED
    BY <1>2, <2>1 DEF GateInv, VerdictsKept, FaultNeverPasses
<1>7. ASSUME NEW i \in GateIds PROVE Shedding(i)'
  <2>1. Shedding(i) /\ breaker[i].streak \in Nat
    BY DEF GateInv, GatesInType, ExtIds
  <2>2. /\ breaker'[i].tripped = breaker[i].tripped
        /\ breaker'[i].streak = IF i = id THEN 0 ELSE breaker[i].streak
    BY <1>3 DEF GateInv, GatesInType, ExtIds
  <2>3. /\ Cardinality(Asking(i)') <= Cardinality(Asking(i))
        /\ Cardinality(Asking(i)) \in Nat /\ Cardinality(Checkers) \in Nat
        /\ Cardinality(Asking(i)) <= Cardinality(Checkers)
        /\ Cardinality(Asking(i)') \in Int
    BY <1>4, AskingCounted
  <2> QED
    BY <1>3, <2>1, <2>2, <2>3, ThresholdAssumption DEF Shedding
<1> QED
  BY <1>5, <1>6, <1>7 DEF GateInv

\* A fault fails the check, and either trips the breaker or takes one holder
\* of a gate that has tripped. (run_one fails closed; Breaker::record_fault)
LEMMA FaultsKeepGates ==
  ASSUME GateInv, NEW l \in Checkers, NEW id \in GateIds, GateFaults(l, id) PROVE GateInv'
<1>1. /\ gateRun[l].at = "run" /\ id \in gateRun[l].left /\ gateRun[l] \in GateRuns
      /\ gateRun[l].heard \in SUBSET GateIds /\ id \in ExtIds
  BY DEF GateFaults, GateInv, GatesInType, GateRuns, ExtIds
<1>2. /\ gateRun' \in [Checkers -> GateRuns]
      /\ gateRun'[l].at = "run" /\ gateRun'[l].left = gateRun[l].left \ {id}
      /\ gateRun'[l].failed
      /\ \A k \in Checkers \ {l} : gateRun'[k] = gateRun[k]
  BY <1>1 DEF GateFaults, VerdictOfFault, GateInv, GatesInType, GateRuns
<1>3. GatesInType /\ RecordFault(id)
  BY DEF GateFaults, GateInv
<1>4. /\ Cardinality(Asking(id)') = Cardinality(Asking(id)) - 1
      /\ \A i \in GateIds \ {id} : Asking(i)' = Asking(i)
  BY <1>1, <1>2, Asked
<1>5. GatesInType'
  BY <1>1, <1>2, <1>3, FaultCounted DEF GatesInType
<1>6. VerdictsKept' /\ FaultNeverPasses'
  BY <1>2 DEF GateInv, VerdictsKept, FaultNeverPasses
<1>7. ASSUME NEW i \in GateIds \ {id} PROVE Shedding(i)'
  <2>1. Shedding(i) /\ breaker'[i] = breaker[i] /\ alerts'[i] = alerts[i]
    BY <1>1, <1>3, FaultCounted DEF GateInv, ExtIds
  <2> QED
    BY <1>4, <2>1 DEF Shedding
<1>8. Shedding(id)'
  <2>1. /\ Shedding(id) /\ breaker[id].streak \in Nat /\ alerts[id] \in Nat
        /\ breaker[id].tripped \in BOOLEAN
        /\ breaker'[id].streak \in Nat /\ breaker'[id].tripped \in BOOLEAN
    BY <1>1, <1>5 DEF GateInv, GatesInType
  <2>2. /\ Cardinality(Asking(id)) \in Nat /\ Cardinality(Checkers) \in Nat
        /\ Cardinality(Asking(id)) <= Cardinality(Checkers)
    BY AskingCounted
  <2>3. CASE breaker[id].tripped
    <3>1. /\ breaker'[id].tripped /\ alerts'[id] = alerts[id]
          /\ breaker'[id].streak <= breaker[id].streak + 1
      BY <1>1, <1>3, <2>3, FaultCounted
    <3> QED
      BY <1>4, <2>1, <2>2, <2>3, <3>1, ThresholdAssumption DEF Shedding
  <2>4. CASE ~breaker[id].tripped
    <3>1. /\ breaker'[id].tripped <=> breaker'[id].streak >= Threshold
          /\ alerts'[id] = alerts[id] + IF breaker'[id].tripped THEN 1 ELSE 0
          /\ breaker'[id].streak <= breaker[id].streak + 1
      BY <1>1, <1>3, <2>4, FaultCounted
    <3> QED
      BY <1>4, <2>1, <2>2, <2>4, <3>1, ThresholdAssumption DEF Shedding
  <2> QED
    BY <2>1, <2>3, <2>4
<1> QED
  BY <1>5, <1>6, <1>7, <1>8 DEF GateInv

\* The decision, and the loop's leave. (run_gate_checks returns)
LEMMA DecidesKeepsGates ==
  ASSUME GateInv, NEW l \in Checkers, GateDecides(l) \/ GateLeaves(l) PROVE GateInv'
<1>1. /\ UNCHANGED <<breaker, alerts>>
      /\ \A k \in Checkers \ {l} : gateRun'[k] = gateRun[k]
      /\ gateRun' \in [Checkers -> GateRuns] /\ gateRun'[l].at # "run"
      /\ gateRun'[l].at = "passed" =>
             /\ gateRun[l].at = "run" /\ ~gateRun[l].failed /\ gateRun[l].left = {}
             /\ gateRun'[l].took = gateRun[l].took /\ gateRun'[l].left = {}
             /\ gateRun'[l].heard = gateRun[l].heard
  <2>1. CASE GateDecides(l)
    BY <2>1 DEF GateDecides, GateInv, GatesInType, GateRuns, GateStates
  <2>2. CASE GateLeaves(l)
    <3>1. NoCheck \in GateRuns /\ NoCheck.at = "idle"
      BY DEF NoCheck, GateRuns, GateStates
    <3>2. gateRun' = [gateRun EXCEPT ![l] = NoCheck] /\ UNCHANGED <<breaker, alerts>>
      BY <2>2 DEF GateLeaves
    <3> QED
      BY <3>1, <3>2 DEF GateInv, GatesInType
  <2> QED
    BY <2>1, <2>2
<1>2. GatesInType'
  BY <1>1 DEF GateInv, GatesInType
<1>3. VerdictsKept' /\ FaultNeverPasses'
  <2>1. gateRun'[l].at = "passed" => gateRun'[l].took \subseteq gateRun'[l].heard
    BY <1>1 DEF GateInv, VerdictsKept
  <2> QED
    BY <1>1, <2>1 DEF GateInv, VerdictsKept, FaultNeverPasses
<1>4. ASSUME NEW id \in GateIds PROVE Shedding(id)'
  <2>1. Asking(id)' \in SUBSET Asking(id) /\ IsFiniteSet(Asking(id))
    BY <1>1, AskingCounted DEF Asking
  <2>2. /\ Cardinality(Asking(id)') <= Cardinality(Asking(id))
        /\ Cardinality(Asking(id)') \in Nat
    BY <2>1, FS_Subset, FS_CardinalityType
  <2>3. Shedding(id) /\ breaker[id].streak \in Nat
    BY DEF GateInv, GatesInType, ExtIds
  <2> QED
    BY <1>1, <2>2, <2>3, AskingCounted, ThresholdAssumption DEF Shedding
<1> QED
  BY <1>2, <1>3, <1>4 DEF GateInv

\* No check runs and every breaker is closed. (a new daemon)
LEMMA FreshGates ==
  ASSUME breaker = [id \in ExtIds |-> Closed], alerts = [id \in ExtIds |-> 0],
         gateRun = [l \in Checkers |-> NoCheck]
  PROVE  GateInv
<1>1. NoCheck \in GateRuns /\ NoCheck.at = "idle"
  BY DEF NoCheck, GateRuns, GateStates
<1>2. GatesInType
  BY <1>1 DEF GatesInType, Closed
<1>3. VerdictsKept /\ FaultNeverPasses
  BY <1>1 DEF VerdictsKept, FaultNeverPasses
<1>4. \A id \in GateIds : Shedding(id)
  BY ThresholdAssumption DEF Shedding, Closed, ExtIds
<1> QED
  BY <1>2, <1>3, <1>4 DEF GateInv

\* Every step of the loops' checks, of the operators and of a boot.
LEMMA GatesStep == GateInv /\ [GateNext]_dispatchVars => GateInv'
<1> SUFFICES ASSUME GateInv, [GateNext]_dispatchVars PROVE GateInv'
  OBVIOUS
<1>1. CASE GateChecks
  BY <1>1, BeginsKeepsGates, AnswersKeepGates, FaultsKeepGates, DecidesKeepsGates DEF GateChecks
<1>2. CASE UNCHANGED gateVars
  <2>1. UNCHANGED <<breaker, alerts, gateRun>>
    BY <1>2 DEF gateVars
  <2>2. \A id : Asking(id)' = Asking(id)
    BY <2>1 DEF Asking
  <2> QED
    BY <2>1, <2>2 DEF GateInv, GatesInType, VerdictsKept, FaultNeverPasses, Shedding
<1>3. CASE DispatchBoots
  <2>1. /\ breaker' = [id \in ExtIds |-> Closed] /\ alerts' = [id \in ExtIds |-> 0]
        /\ gateRun' = [l \in Checkers |-> NoCheck]
    BY <1>3 DEF DispatchBoots
  <2>2. NoCheck \in GateRuns /\ NoCheck.at = "idle"
    BY DEF NoCheck, GateRuns, GateStates
  <2>3. GatesInType'
    BY <2>1, <2>2 DEF GatesInType, Closed
  <2>4. VerdictsKept' /\ FaultNeverPasses'
    BY <2>1, <2>2 DEF VerdictsKept, FaultNeverPasses
  <2>5. \A id \in GateIds : Shedding(id)'
    BY <2>1, ThresholdAssumption DEF Shedding, Closed, ExtIds
  <2> QED
    BY <2>3, <2>4, <2>5 DEF GateInv
<1> QED
  BY <1>1, <1>2, <1>3 DEF GateNext, Administration, dispatchVars

\* However many loops and gates there are: a check that passed heard every gate
\* it took up. (run_gate_checks fails closed)
THEOREM GatesFailClosed == GateSpec => []FaultNeverPasses
<1>1. DispatchInit => GateInv
  BY FreshGates DEF DispatchInit
<1>2. GateInv => FaultNeverPasses
  BY DEF GateInv
<1> QED
  BY <1>1, <1>2, GatesStep, PTL DEF GateSpec

\* However many loops fault on a gate at once: its streak stops short of the
\* threshold and one more per loop, and its trip is reported once. (the
\* breaker with concurrent drive loops)
THEOREM FaultingGatesAreShed == GateSpec => []FaultingGateIsShed
<1>1. DispatchInit => GateInv
  BY FreshGates DEF DispatchInit
<1>2. GateInv => FaultingGateIsShed
  <2> SUFFICES ASSUME GateInv, NEW id \in GateIds
               PROVE  /\ breaker[id].streak < Threshold + Cardinality(Checkers)
                      /\ alerts[id] = IF breaker[id].tripped THEN 1 ELSE 0
    BY DEF FaultingGateIsShed
  <2>1. /\ Shedding(id) /\ breaker[id].streak \in Nat /\ breaker[id].tripped \in BOOLEAN
        /\ Cardinality(Asking(id)) \in Nat /\ Cardinality(Checkers) \in Nat
    BY AskingCounted DEF GateInv, GatesInType, ExtIds
  <2> QED
    BY <2>1, ThresholdAssumption DEF Shedding
<1> QED
  BY <1>1, <1>2, GatesStep, PTL DEF GateSpec

-----------------------------------------------------------------------------

(***************************************************************************)
(* The tail. Whoever is to write a cursor, the rows, the copies that are   *)
(* held and the drain alike, has each event up to it told: in the log, or  *)
(* dropped for a cause that the tail knows of.                             *)
(***************************************************************************)
Told(e) == logRows[e] > 0 \/ e \in excused

Safe(r, k) == k \in 0..Len(stream) /\ \A e \in Emitted : stream[e] = r /\ e <= k => Told(e)

LogInType ==
    /\ stream \in Seq(Workflows) /\ Len(stream) <= MaxCursor
    /\ logRows \in [EventIds -> Nat]

RowsSafe ==
    /\ RowTypeOK
    /\ \A r \in Workflows : HasRow(r) => Safe(r, runRow[r].cursor)
    /\ \A w \in Writers : Holds(w) => Safe(held[w].id, held[w].row.cursor)

DrainShape ==
    /\ drain = [at |-> drain.at, cursors |-> drain.cursors, batch |-> drain.batch,
                todo |-> drain.todo, touched |-> drain.touched, left |-> drain.left]
    /\ drain.at \in {"idle", "drain", "list", "append", "advance", "forward"}

\* What the drain has read and has still to append.
Pending == IF drain.at = "list" THEN drain.batch ELSE drain.todo

CursorsSafe ==
    drain.at # "idle" =>
        /\ Listed \subseteq Workflows /\ Listed # {}
        /\ \A r \in Listed : Safe(r, drain.cursors[r])

BatchSafe ==
    drain.at \notin {"idle", "drain"} =>
        /\ drain.batch \subseteq Emitted
        /\ Max(drain.batch) \in drain.batch
        /\ \A e \in drain.batch : e <= Max(drain.batch)
        /\ \A e \in Emitted :
              e <= Max(drain.batch) /\ stream[e] \in Listed => Told(e) \/ e \in Pending

AppendsSafe ==
    /\ drain.at = "append" =>
           \A e \in drain.todo : e \in drain.batch /\ stream[e] \in Listed
    /\ drain.at \in {"drain", "list"} => DOMAIN drain.touched = {}
    /\ drain.at \in {"append", "advance"} =>
           \A r \in DOMAIN drain.touched :
               r \in Listed /\ drain.touched[r] \in drain.batch
    /\ drain.at \in {"advance", "forward"} => drain.todo = {}
    /\ drain.at = "advance" => drain.left \subseteq DOMAIN drain.touched
    /\ drain.at = "forward" => drain.left \subseteq Listed

TailInv == LogInType /\ RowsSafe /\ DrainShape /\ CursorsSafe /\ BatchSafe /\ AppendsSafe

\* The least of some numbers is one of them and no greater than any.
LEMMA LeastThereIs ==
  ASSUME NEW S \in SUBSET Nat, S # {}
  PROVE  Min(S) \in S /\ \A k \in S : Min(S) <= k
<1> DEFINE R == {ss \in Nat \X Nat : ss[1] < ss[2]}
<1>1. IsWellFoundedOn(R, Nat)
  BY NatLessThanWellFounded, Zenon DEF OpToRel
<1> HIDE DEF R
<1>2. PICK x \in S : \A y \in S : ~(<<y, x>> \in R)
  BY <1>1, WFMin
<1>3. ASSUME NEW y \in S PROVE x <= y
  <2>1. <<y, x>> \in Nat \X Nat /\ <<y, x>>[1] = y /\ <<y, x>>[2] = x
    OBVIOUS
  <2>2. ~(y < x)
    BY <1>2, <2>1, Zenon DEF R
  <2> QED
    BY <2>2
<1> QED
  BY <1>3 DEF Min

\* The greatest, where there is one.
LEMMA GreatestIs ==
  ASSUME NEW S \in SUBSET Nat, NEW x \in S, \A y \in S : y <= x
  PROVE  Max(S) = x
<1>1. \A z \in S : (\A y \in S : z >= y) => z = x
  OBVIOUS
<1>2. \A y \in S : x >= y
  OBVIOUS
<1> QED
  BY <1>1, <1>2 DEF Max

\* The stream and the log only grow.
LogGrows ==
    /\ LogInType /\ LogInType'
    /\ Len(stream) <= Len(stream')
    /\ \A e \in Emitted : stream'[e] = stream[e] /\ (Told(e) => Told(e)')

\* What is safe stays so while the log grows. (append_log_once, the stream of
\* hcom)
LEMMA SafeStays ==
  ASSUME LogGrows, NEW r, NEW k, Safe(r, k) PROVE Safe(r, k)'
<1>1. Len(stream) \in Nat /\ Len(stream') \in Nat
  BY DEF LogGrows, LogInType
<1> QED
  BY <1>1 DEF LogGrows, Safe, Emitted

\* The run rows stay safe while nobody touches them and the log grows.
\* (append_log_once, which writes no run row)
LEMMA RowsStay == ASSUME RowsSafe, LogGrows, UNCHANGED rowVars PROVE RowsSafe'
BY SafeStays DEF RowsSafe, RowTypeOK, rowVars, HasRow, Holds

\* So does what a drain has in hand. (the locals of drain_once)
LEMMA DrainStays ==
  ASSUME DrainShape, CursorsSafe, BatchSafe, AppendsSafe, LogGrows, drain' = drain
  PROVE  DrainShape' /\ CursorsSafe' /\ BatchSafe' /\ AppendsSafe'
<1>1. DrainShape' /\ Listed' = Listed /\ Pending' = Pending
  BY DEF DrainShape, Listed, Pending
<1>2. CursorsSafe'
  BY <1>1, SafeStays DEF CursorsSafe
<1>3. BatchSafe'
  <2>1. Len(stream) \in Nat /\ Len(stream') \in Nat
    BY DEF LogGrows, LogInType
  <2> QED
    BY <1>1, <2>1 DEF BatchSafe, LogGrows, Emitted
<1>4. AppendsSafe'
  BY <1>1 DEF AppendsSafe, BatchSafe, LogGrows, Emitted
<1> QED
  BY <1>1, <1>2, <1>3, <1>4

\* The fields of an idle drain.
LEMMA IdleDrain ==
  /\ NoDrain = [at |-> NoDrain.at, cursors |-> NoDrain.cursors, batch |-> NoDrain.batch,
                todo |-> NoDrain.todo, touched |-> NoDrain.touched, left |-> NoDrain.left]
  /\ NoDrain.at = "idle" /\ NoDrain.todo = {} /\ DOMAIN NoDrain.touched = {}
BY DEF NoDrain

\* The log stays as it is.
LEMMA LogStays ==
  ASSUME LogInType, UNCHANGED <<stream, logRows>>, excused \subseteq excused'
  PROVE  LogGrows
BY DEF LogGrows, LogInType, Told, Emitted

\* A verb that reads a row and changes all but its cursor, or sets it to what
\* is safe. (the loads of the store's verbs)
LEMMA LoadsSafely ==
  ASSUME RowsSafe, LogGrows, NEW w \in Writers, NEW r \in Workflows, NEW changed \in Rows,
         Safe(r, changed.cursor), LoadsRow(w, r, changed)
  PROVE  RowsSafe'
<1>1. /\ UNCHANGED runRow /\ held' = [held EXCEPT ![w] = [id |-> r, row |-> changed]]
      /\ [id |-> r, row |-> changed] \in [id : Workflows, row : Rows]
  BY DEF LoadsRow
<1>2. RowTypeOK'
  BY <1>1 DEF RowsSafe, RowTypeOK
<1>3. \A s \in Workflows : HasRow(s)' => Safe(s, runRow[s].cursor)'
  BY <1>1, SafeStays DEF RowsSafe, HasRow
<1>4. ASSUME NEW v \in Writers, Holds(v)' PROVE Safe(held[v].id, held[v].row.cursor)'
  <2>1. CASE v = w
    <3>1. held'[v].id = r /\ held'[v].row.cursor = changed.cursor
      BY <1>1, <2>1 DEF RowsSafe, RowTypeOK
    <3> QED
      BY <3>1, SafeStays
  <2>2. CASE v # w
    <3>1. held'[v] = held[v] /\ Holds(v)
      BY <1>1, <1>4, <2>2 DEF RowsSafe, RowTypeOK, Holds
    <3> QED
      BY <3>1, SafeStays DEF RowsSafe
  <2> QED
    BY <2>1, <2>2
<1> QED
  BY <1>2, <1>3, <1>4 DEF RowsSafe

\* The write of what is held. (the second half of a verb)
LEMMA WritesSafely ==
  ASSUME RowsSafe, LogGrows, NEW w \in Writers, WritesRow(w) PROVE RowsSafe'
<1>1. /\ Holds(w) /\ held[w] \in [id : Workflows, row : Rows]
      /\ held' = [held EXCEPT ![w] = NoRow]
      /\ runRow' = IF HasRow(held[w].id)
                   THEN [runRow EXCEPT ![held[w].id] = held[w].row] ELSE runRow
  BY DEF RowsSafe, RowTypeOK, WritesRow, Holds
<1>2. RowTypeOK'
  BY <1>1 DEF RowsSafe, RowTypeOK
<1>3. ASSUME NEW s \in Workflows, HasRow(s)' PROVE Safe(s, runRow[s].cursor)'
  <2>1. CASE runRow'[s] = runRow[s]
    BY <1>3, <2>1, SafeStays DEF RowsSafe, HasRow
  <2>2. CASE s = held[w].id /\ runRow'[s] = held[w].row
    BY <1>1, <2>2, SafeStays DEF RowsSafe
  <2> QED
    BY <1>1, <2>1, <2>2 DEF RowsSafe, RowTypeOK
<1>4. ASSUME NEW v \in Writers, Holds(v)' PROVE Safe(held[v].id, held[v].row.cursor)'
  <2>1. held'[v] = held[v] /\ Holds(v)
    BY <1>1, <1>4 DEF RowsSafe, RowTypeOK, Holds
  <2> QED
    BY <2>1, SafeStays DEF RowsSafe
<1> QED
  BY <1>2, <1>3, <1>4 DEF RowsSafe

\* The tail's own verb, to a cursor that is safe. (advance_cursor)
LEMMA AdvancesSafely ==
  ASSUME TailInv, NEW r \in Workflows, NEW to, Safe(r, to), Advances(r, to),
         UNCHANGED <<stream, logRows, excused>>
  PROVE  RowsSafe'
<1>1. LogGrows
  BY LogStays DEF TailInv
<1>2. CASE HasRow(r) /\ LoadsRow(Supervisor, r, AdvanceCursor(runRow[r], to))
  <2>1. runRow[r] \in Rows /\ Safe(r, runRow[r].cursor)
    BY <1>2 DEF TailInv, RowsSafe, RowTypeOK, HasRow
  <2>2. to \in 0..MaxCursor
    BY MaxCursorAssumption DEF TailInv, LogInType, Safe
  <2>3. /\ AdvanceCursor(runRow[r], to) \in Rows
        /\ AdvanceCursor(runRow[r], to).cursor \in {to, runRow[r].cursor}
    BY <2>1, <2>2 DEF AdvanceCursor, Rows
  <2>4. Safe(r, AdvanceCursor(runRow[r], to).cursor)
    BY <2>1, <2>3
  <2> QED
    BY <1>1, <1>2, <2>3, <2>4, LoadsSafely DEF TailInv, Writers
<1>3. CASE UNCHANGED rowVars
  BY <1>1, <1>3, RowsStay DEF TailInv
<1> QED
  BY <1>2, <1>3 DEF Advances

\* The drain begins with the cursors of the active rows. (tail_hcom lists)
LEMMA BeginsSafely == ASSUME TailInv, TailBegins PROVE TailInv'
<1>1. /\ drain' = [NoDrain EXCEPT !.at = "drain",
                       !.cursors = [r \in Snapshot |-> runRow[r].cursor]]
      /\ UNCHANGED <<rowVars, stream, logRows, excused>> /\ Snapshot # {}
  BY DEF TailBegins
<1>2. LogGrows /\ LogInType'
  BY <1>1, LogStays DEF TailInv, LogGrows
<1>3. RowsSafe'
  BY <1>1, <1>2, RowsStay DEF TailInv
<1>4. /\ DrainShape' /\ drain'.at = "drain"
      /\ drain'.cursors = [r \in Snapshot |-> runRow[r].cursor]
  BY <1>1, IdleDrain DEF DrainShape
<1>5. CursorsSafe'
  <2>1. Listed' = Snapshot /\ \A r \in Snapshot : drain'.cursors[r] = runRow[r].cursor
    BY <1>4 DEF Listed
  <2>2. \A r \in Snapshot : r \in Workflows /\ Safe(r, runRow[r].cursor)
    BY DEF TailInv, RowsSafe, Snapshot, Active
  <2>3. \A r \in Snapshot : Safe(r, drain.cursors[r])'
    BY <1>2, <2>1, <2>2, SafeStays
  <2> QED
    BY <1>1, <2>1, <2>2, <2>3 DEF CursorsSafe
<1>6. BatchSafe' /\ AppendsSafe'
  <2>1. DOMAIN drain'.touched = {}
    BY <1>1, IdleDrain
  <2> QED
    BY <1>4, <2>1 DEF BatchSafe, AppendsSafe
<1> QED
  BY <1>2, <1>3, <1>4, <1>5, <1>6 DEF TailInv

\* The newest of what is newer than the least cursor, with the rest reported.
\* (drain_events)
LEMMA DrainsSafely == ASSUME TailInv, TailDrains PROVE TailInv'
<1>1. /\ drain.at = "drain" /\ UNCHANGED <<rowVars, stream, logRows>>
      /\ excused' = excused \cup (Newer \ Newest(Newer))
  BY DEF TailDrains, DrainAt
<1>2. LogGrows /\ LogInType' /\ Len(stream) \in Nat
  BY <1>1, LogStays DEF TailInv, LogGrows, LogInType
<1>3. RowsSafe'
  BY <1>1, <1>2, RowsStay DEF TailInv
<1>4. CASE Newer = {} /\ drain' = NoDrain
  <2>1. DrainShape' /\ drain'.at = "idle"
    BY <1>4, IdleDrain DEF DrainShape
  <2> QED
    BY <1>2, <1>3, <2>1 DEF TailInv, CursorsSafe, BatchSafe, AppendsSafe
<1>5. CASE Newer # {} /\ drain' = [drain EXCEPT !.at = "list", !.batch = Newest(Newer)]
  <2>1. /\ DrainShape' /\ drain'.at = "list" /\ drain'.batch = Newest(Newer)
        /\ drain'.cursors = drain.cursors
    BY <1>5 DEF TailInv, DrainShape
  <2>2. /\ Listed' = Listed /\ Listed \subseteq Workflows /\ Listed # {}
        /\ \A r \in Listed : Safe(r, drain.cursors[r])
    BY <1>1, <2>1 DEF TailInv, CursorsSafe, Listed
  <2>3. CursorsSafe'
    <3>1. \A r \in Listed : Safe(r, drain.cursors[r])'
      BY <1>2, <2>1, <2>2, SafeStays
    <3> QED
      BY <2>1, <2>2, <3>1 DEF CursorsSafe
  <2>4. Lowest \in Nat /\ \A r \in Listed : Lowest <= drain.cursors[r]
    <3> DEFINE S == {drain.cursors[r] : r \in Listed}
    <3>1. S \in SUBSET Nat /\ S # {} /\ \A r \in Listed : drain.cursors[r] \in S
      BY <1>2, <2>2 DEF Safe
    <3>2. Lowest = Min(S)
      BY DEF Lowest
    <3> HIDE DEF S
    <3> QED
      BY <3>1, <3>2, LeastThereIs
  <2>5. Len(stream) \in Newest(Newer) /\ \A e \in Newest(Newer) : e \in Nat /\ e <= Len(stream)
    BY <1>2, <1>5, <2>4, DrainCapAssumption DEF Newer, Newest, Emitted
  <2>6. Max(Newest(Newer)) = Len(stream)
    BY <2>5, GreatestIs
  <2>7. ASSUME NEW e \in Emitted, stream[e] \in Listed PROVE Told(e)' \/ e \in Newest(Newer)
    <3>1. CASE e <= Lowest
      <4>1. Safe(stream[e], drain.cursors[stream[e]]) /\ Lowest <= drain.cursors[stream[e]]
        BY <2>2, <2>4, <2>7
      <4>2. Told(e)
        BY <1>2, <2>4, <3>1, <4>1 DEF Safe, Emitted
      <4> QED
        BY <1>2, <4>2 DEF LogGrows
    <3>2. CASE e \in Newer
      BY <1>1, <3>2 DEF Told
    <3> QED
      BY <1>2, <2>4, <3>1, <3>2 DEF Newer, Emitted
  <2>8. BatchSafe'
    <3>1. Pending' = Newest(Newer) /\ Emitted' = Emitted
      BY <1>1, <2>1 DEF Pending, Emitted
    <3>2. drain'.batch \subseteq Emitted
      BY <2>1 DEF Newest, Newer
    <3> QED
      BY <1>1, <2>1, <2>2, <2>5, <2>6, <2>7, <3>1, <3>2 DEF BatchSafe
  <2>9. AppendsSafe'
    <3>1. drain'.touched = drain.touched /\ DOMAIN drain.touched = {}
      BY <1>1, <1>5 DEF TailInv, DrainShape, AppendsSafe
    <3> QED
      BY <2>1, <3>1 DEF AppendsSafe
  <2> QED
    BY <1>2, <1>3, <2>1, <2>3, <2>8, <2>9 DEF TailInv
<1> QED
  BY <1>4, <1>5 DEF TailDrains

\* An event of an agent that is not listed is reported; one of an active
\* workflow is to be appended. (resolve)
LEMMA ResolvesSafely == ASSUME TailInv, TailResolves PROVE TailInv'
<1> DEFINE known == drain.batch \ unlisted
           todo == {e \in known : stream[e] \in Listed /\ HasRow(stream[e])}
<1>1. /\ drain.at = "list" /\ UNCHANGED <<rowVars, stream, logRows>>
      /\ drain' = [drain EXCEPT !.at = "append", !.todo = todo]
      /\ excused' = excused \cup (drain.batch \cap unlisted)
                      \cup {e \in known : ~HasRow(stream[e])}
  BY DEF TailResolves, DrainAt
<1>2. todo \subseteq drain.batch /\ \A e \in todo : stream[e] \in Listed
  OBVIOUS
<1>3. \A e \in drain.batch : stream[e] \in Listed => e \in todo \/ e \in excused'
  BY <1>1
<1> HIDE DEF todo
<1>4. LogGrows /\ LogInType'
  BY <1>1, LogStays DEF TailInv, LogGrows
<1>5. RowsSafe'
  BY <1>1, <1>4, RowsStay DEF TailInv
<1>6. /\ DrainShape' /\ drain'.at = "append" /\ drain'.todo = todo /\ drain'.batch = drain.batch
      /\ drain'.cursors = drain.cursors /\ drain'.touched = drain.touched
  BY <1>1 DEF TailInv, DrainShape
<1>7. Listed' = Listed /\ Pending' = todo /\ Pending = drain.batch /\ Emitted' = Emitted
  BY <1>1, <1>6 DEF Listed, Pending, Emitted
<1>8. CursorsSafe'
  BY <1>1, <1>4, <1>6, <1>7, SafeStays DEF TailInv, CursorsSafe
<1>9. BatchSafe'
  <2>1. ASSUME NEW e \in Emitted, e <= Max(drain.batch), stream[e] \in Listed
        PROVE  Told(e)' \/ e \in todo
    <3>1. Told(e) \/ e \in drain.batch
      BY <1>1, <1>7, <2>1 DEF TailInv, BatchSafe
    <3> QED
      BY <1>3, <1>4, <2>1, <3>1 DEF LogGrows, Told
  <2> QED
    BY <1>1, <1>6, <1>7, <2>1 DEF TailInv, BatchSafe
<1>10. AppendsSafe'
  BY <1>1, <1>2, <1>6, <1>7 DEF TailInv, AppendsSafe
<1> QED
  BY <1>4, <1>5, <1>6, <1>8, <1>9, <1>10 DEF TailInv

\* What was told goes from the list of what is to be appended.
LEMMA TodoShrinks ==
  ASSUME TailInv, NEW e \in Emitted, LogGrows, LogInType', Told(e)', UNCHANGED <<rowVars, stream>>,
         drain.at = "append", drain'.at = "append", drain'.todo = drain.todo \ {e},
         drain'.cursors = drain.cursors, drain'.batch = drain.batch, DrainShape', AppendsSafe'
  PROVE  TailInv'
<1>1. Listed' = Listed /\ Pending = drain.todo /\ Pending' = drain.todo \ {e} /\ Emitted' = Emitted
  BY DEF Listed, Pending, Emitted
<1>2. RowsSafe'
  BY RowsStay DEF TailInv
<1>3. CursorsSafe'
  BY <1>1, SafeStays DEF TailInv, CursorsSafe
<1>4. BatchSafe'
  <2>1. ASSUME NEW d \in Emitted, d <= Max(drain.batch), stream[d] \in Listed
        PROVE  Told(d)' \/ d \in drain.todo \ {e}
    <3>1. Told(d) \/ d \in drain.todo
      BY <1>1, <2>1 DEF TailInv, BatchSafe
    <3> QED
      BY <2>1, <3>1 DEF LogGrows
  <2> QED
    BY <1>1, <2>1 DEF TailInv, BatchSafe
<1> QED
  BY <1>2, <1>3, <1>4 DEF TailInv

\* The event at hand is told, appended or failed, and its workflow is touched
\* if it was appended. (append_one, and the warning of a failed one)
LEMMA AppendsSafely ==
  ASSUME TailInv, (\E mirrors \in BOOLEAN : TailAppends(mirrors)) \/ TailAppendFails
  PROVE  TailInv'
<1>1. drain.at = "append" /\ drain.todo # {} /\ UNCHANGED <<rowVars, stream>>
  BY DEF TailAppends, TailAppendFails, DrainAt
<1>2. Len(stream) \in Nat /\ Len(stream) <= MaxCursor
  BY DEF TailInv, LogInType
<1>3. PICK e \in Emitted :
          e = Min(drain.todo) /\ e \in drain.todo /\ e \in drain.batch /\ stream[e] \in Listed
  <2>1. drain.batch \subseteq Emitted /\ drain.todo \subseteq drain.batch
    BY <1>1 DEF TailInv, AppendsSafe, BatchSafe
  <2>2. drain.todo \in SUBSET Nat
    BY <1>2, <2>1 DEF Emitted
  <2>3. Min(drain.todo) \in drain.todo
    BY <1>1, <2>2, LeastThereIs
  <2> QED
    BY <1>1, <2>1, <2>3 DEF TailInv, AppendsSafe
<1>4. CASE TailAppendFails
  <2>1. /\ drain' = [drain EXCEPT !.todo = @ \ {e}] /\ logRows' = logRows
        /\ excused' = excused \cup {e}
    BY <1>3, <1>4 DEF TailAppendFails
  <2>2. LogGrows /\ LogInType' /\ Told(e)'
    BY <1>1, <2>1, LogStays DEF TailInv, LogGrows, Told
  <2>3. /\ DrainShape' /\ drain'.at = "append" /\ drain'.todo = drain.todo \ {e}
        /\ drain'.cursors = drain.cursors /\ drain'.batch = drain.batch
        /\ drain'.touched = drain.touched
    BY <1>1, <2>1 DEF TailInv, DrainShape
  <2>4. AppendsSafe'
    BY <1>1, <2>3 DEF TailInv, AppendsSafe, Listed
  <2> QED
    BY <1>1, <1>3, <2>2, <2>3, <2>4, TodoShrinks
<1>5. ASSUME NEW mirrors \in BOOLEAN, TailAppends(mirrors) PROVE TailInv'
  <2>1. /\ drain' = [drain EXCEPT !.todo = @ \ {e}, !.touched = Touches(stream[e], e)]
        /\ logRows' = [logRows EXCEPT ![e] = IF @ = 0 THEN 1 ELSE @]
        /\ excused' = excused
    BY <1>3, <1>5 DEF TailAppends, AppendsOnce
  <2>2. LogGrows /\ LogInType' /\ Told(e)'
    <3>1. e \in EventIds /\ Emitted \subseteq EventIds
      BY <1>2, <1>3, MaxCursorAssumption DEF Emitted, EventIds
    <3>2. /\ logRows' \in [EventIds -> Nat] /\ logRows'[e] > 0
          /\ \A d \in EventIds : logRows[d] > 0 => logRows'[d] > 0
      BY <2>1, <3>1 DEF TailInv, LogInType
    <3>3. LogInType'
      BY <1>1, <3>2 DEF TailInv, LogInType
    <3> QED
      BY <1>1, <1>2, <2>1, <3>1, <3>2, <3>3 DEF TailInv, LogGrows, Told
  <2>3. /\ DrainShape' /\ drain'.at = "append" /\ drain'.todo = drain.todo \ {e}
        /\ drain'.cursors = drain.cursors /\ drain'.batch = drain.batch
        /\ drain'.touched = Touches(stream[e], e)
    BY <1>1, <2>1 DEF TailInv, DrainShape
  <2>4. AppendsSafe'
    <3>1. \A r \in DOMAIN drain'.touched :
              \/ r \in DOMAIN drain.touched /\ drain'.touched[r] = drain.touched[r]
              \/ r = stream[e] /\ drain'.touched[r] = e
      BY <2>3 DEF Touches
    <3>2. \A r \in DOMAIN drain'.touched : r \in Listed /\ drain'.touched[r] \in drain.batch
      BY <1>1, <1>3, <3>1 DEF TailInv, AppendsSafe
    <3> QED
      BY <1>1, <2>3, <3>2 DEF TailInv, AppendsSafe, Listed
  <2> QED
    BY <1>1, <1>3, <2>2, <2>3, <2>4, TodoShrinks
<1> QED
  BY <1>4, <1>5

\* A drain that has appended everything has told all it read of a workflow it
\* listed, so any event of the batch is a safe cursor for that workflow.
LEMMA BatchIsTold ==
  ASSUME TailInv, drain.at \in {"advance", "forward"}, NEW r \in Listed,
         NEW k \in drain.batch
  PROVE  r \in Workflows /\ Safe(r, k)
<1>1. /\ drain.todo = {} /\ Pending = {} /\ r \in Workflows
      /\ k \in Emitted /\ k <= Max(drain.batch) /\ Max(drain.batch) \in Emitted
      /\ Len(stream) \in Nat
  BY DEF TailInv, AppendsSafe, BatchSafe, CursorsSafe, Pending, LogInType
<1>2. ASSUME NEW e \in Emitted, stream[e] = r, e <= k PROVE Told(e)
  <2>1. e <= Max(drain.batch)
    BY <1>1, <1>2 DEF Emitted
  <2> QED
    BY <1>1, <1>2, <2>1 DEF TailInv, BatchSafe
<1> QED
  BY <1>1, <1>2 DEF Safe, Emitted

\* A step that only moves the drain on, or takes a workflow from what is left.
LEMMA DrainMoves ==
  ASSUME TailInv, RowsSafe', UNCHANGED <<stream, logRows, excused>>,
         drain.at \in {"append", "advance", "forward"}, drain.todo = {},
         drain'.at \in {"advance", "forward"}, drain'.todo = drain.todo,
         drain'.cursors = drain.cursors, drain'.batch = drain.batch,
         drain'.touched = drain.touched, drain'.at = "advance" => drain.at # "forward",
         DrainShape', drain'.at = "advance" => drain'.left \subseteq DOMAIN drain.touched,
         drain'.at = "forward" => drain'.left \subseteq Listed
  PROVE  TailInv'
<1>1. Listed' = Listed /\ Pending = drain.todo /\ Pending' = drain.todo /\ Emitted' = Emitted
  BY DEF Listed, Pending, Emitted
<1>2. LogGrows /\ LogInType'
  BY LogStays DEF TailInv, LogGrows
<1>3. CursorsSafe'
  BY <1>1, <1>2, SafeStays DEF TailInv, CursorsSafe
<1>4. BatchSafe'
  BY <1>1 DEF TailInv, BatchSafe, Told
<1>5. AppendsSafe'
  BY <1>1 DEF TailInv, AppendsSafe
<1> QED
  BY <1>2, <1>3, <1>4, <1>5 DEF TailInv

\* The cursors are advanced, of the workflows that were touched and then of the
\* finished ones. (tail_hcom after the append)
LEMMA CursorsMoveSafely ==
  ASSUME TailInv,
         \/ TailWritten \/ TailAdvanced
         \/ \E r \in Workflows : TailAdvances(r) \/ TailForwards(r)
  PROVE  TailInv'
<1>1. CASE TailWritten
  <2>1. /\ drain.at = "append" /\ drain.todo = {} /\ UNCHANGED <<rowVars, stream, logRows, excused>>
        /\ drain' = [drain EXCEPT !.at = "advance", !.left = DOMAIN drain.touched]
    BY <1>1 DEF TailWritten, DrainAt
  <2>2. RowsSafe'
    BY <2>1, LogStays, RowsStay DEF TailInv
  <2>3. /\ DrainShape' /\ drain'.at = "advance" /\ drain'.todo = drain.todo
        /\ drain'.cursors = drain.cursors /\ drain'.batch = drain.batch
        /\ drain'.touched = drain.touched /\ drain'.left = DOMAIN drain.touched
    BY <2>1 DEF TailInv, DrainShape
  <2> QED
    BY <2>1, <2>2, <2>3, DrainMoves
<1>2. CASE TailAdvanced
  <2> DEFINE left == {r \in Listed \ DOMAIN drain.touched : drain.cursors[r] < Max(drain.batch)}
  <2>1. /\ drain.at = "advance" /\ UNCHANGED <<rowVars, stream, logRows, excused>>
        /\ drain' = [drain EXCEPT !.at = "forward", !.left = left]
    BY <1>2 DEF TailAdvanced, DrainAt
  <2>2. left \subseteq Listed
    OBVIOUS
  <2> HIDE DEF left
  <2>3. RowsSafe'
    BY <2>1, LogStays, RowsStay DEF TailInv
  <2>4. /\ DrainShape' /\ drain'.at = "forward" /\ drain'.todo = drain.todo
        /\ drain'.cursors = drain.cursors /\ drain'.batch = drain.batch
        /\ drain'.touched = drain.touched /\ drain'.left = left /\ drain.todo = {}
    BY <2>1 DEF TailInv, DrainShape, AppendsSafe
  <2> QED
    BY <2>1, <2>2, <2>3, <2>4, DrainMoves
<1>3. ASSUME NEW r \in Workflows, TailAdvances(r) \/ TailForwards(r) PROVE TailInv'
  <2>1. /\ drain.at \in {"advance", "forward"} /\ r \in drain.left
        /\ UNCHANGED <<stream, logRows, excused>>
        /\ drain' = [drain EXCEPT !.left = @ \ {r}]
    BY <1>3 DEF TailAdvances, TailForwards, Advances, DrainAt
  <2>2. drain.todo = {} /\ r \in Listed
    BY <2>1 DEF TailInv, AppendsSafe
  <2>3. RowsSafe'
    <3>1. CASE TailAdvances(r)
      <4>1. drain.at = "advance" /\ Advances(r, drain.touched[r])
        BY <3>1 DEF TailAdvances, DrainAt
      <4>2. PICK k \in drain.batch : k = drain.touched[r]
        BY <2>1, <4>1 DEF TailInv, AppendsSafe
      <4> QED
        BY <2>1, <2>2, <4>1, <4>2, BatchIsTold, AdvancesSafely
    <3>2. CASE TailForwards(r)
      <4>1. PICK k \in drain.batch : k = Max(drain.batch)
        BY <2>1 DEF TailInv, BatchSafe
      <4>2. Safe(r, k)
        BY <2>1, <2>2, BatchIsTold
      <4>3. CASE Advances(r, k)
        BY <2>1, <4>2, <4>3, AdvancesSafely
      <4>4. CASE UNCHANGED rowVars
        BY <2>1, <4>4, LogStays, RowsStay DEF TailInv
      <4> QED
        BY <3>2, <4>1, <4>3, <4>4 DEF TailForwards
    <3> QED
      BY <1>3, <3>1, <3>2
  <2>4. /\ DrainShape' /\ drain'.at = drain.at /\ drain'.todo = drain.todo
        /\ drain'.cursors = drain.cursors /\ drain'.batch = drain.batch
        /\ drain'.touched = drain.touched /\ drain'.left = drain.left \ {r}
    BY <2>1 DEF TailInv, DrainShape
  <2>5. /\ drain'.at = "advance" => drain'.left \subseteq DOMAIN drain.touched
        /\ drain'.at = "forward" => drain'.left \subseteq Listed
    BY <2>4 DEF TailInv, AppendsSafe
  <2> QED
    BY <2>1, <2>2, <2>3, <2>4, <2>5, DrainMoves
<1> QED
  BY <1>1, <1>2, <1>3

\* The end of the pass, and the death of the daemon, which takes what writers
\* hold with it.
LEMMA EndsSafely == ASSUME TailInv, TailEnds \/ TailDies PROVE TailInv'
<1>1. /\ drain' = NoDrain /\ UNCHANGED <<runRow, stream, logRows, excused>>
      /\ UNCHANGED held \/ held' = [w \in Writers |-> NoRow]
  BY DEF TailEnds, TailDies, RowsLost, rowVars
<1>2. LogGrows /\ LogInType'
  BY <1>1, LogStays DEF TailInv, LogGrows
<1>3. RowsSafe'
  <2>1. CASE UNCHANGED held
    BY <1>1, <1>2, <2>1, RowsStay DEF TailInv, rowVars
  <2>2. CASE held' = [w \in Writers |-> NoRow]
    BY <1>1, <1>2, <2>2, SafeStays DEF TailInv, RowsSafe, RowTypeOK, HasRow, Holds
  <2> QED
    BY <1>1, <2>1, <2>2
<1>4. DrainShape' /\ drain'.at = "idle"
  BY <1>1, IdleDrain DEF DrainShape
<1> QED
  BY <1>2, <1>3, <1>4 DEF TailInv, CursorsSafe, BatchSafe, AppendsSafe

\* The verbs that keep the cursor of the row they read. (stop_run, resume_run)
LEMMA LifecyclesLoadSafely ==
  ASSUME RowsSafe, LogGrows, NEW c \in RowClients, LifecycleLoads(c) PROVE RowsSafe'
<1>1. PICK r \in Workflows :
          HasRow(r) /\ (LoadsRow(c, r, StopRun(runRow[r])) \/ LoadsRow(c, r, ResumeRun(runRow[r])))
  BY DEF LifecycleLoads
<1>2. runRow[r] \in Rows /\ Safe(r, runRow[r].cursor)
  BY <1>1 DEF RowsSafe, RowTypeOK, HasRow
<1>3. /\ StopRun(runRow[r]) \in Rows /\ StopRun(runRow[r]).cursor = runRow[r].cursor
      /\ ResumeRun(runRow[r]) \in Rows /\ ResumeRun(runRow[r]).cursor = runRow[r].cursor
  BY <1>2 DEF StopRun, ResumeRun, Rows
<1> QED
  BY <1>1, <1>2, <1>3, LoadsSafely DEF Writers

\* The agents, the tasks and the operators.
LEMMA WorldIsSafe ==
  ASSUME TailInv,
         \/ OperatorsWriteRows \/ SupervisorWrites
         \/ \E r \in Workflows : AgentEmits(r) \/ AgentsLeave(r) \/ TasksSettle(r)
  PROVE  TailInv'
<1>1. CASE OperatorsWriteRows \/ SupervisorWrites
  <2>1. UNCHANGED <<stream, logRows, excused, drain>>
    BY <1>1 DEF OperatorsWriteRows, SupervisorWrites, tailVars
  <2>2. LogGrows /\ LogInType'
    BY <2>1, LogStays DEF TailInv, LogGrows
  <2>3. RowsSafe'
    BY <1>1, <2>2, LifecyclesLoadSafely, WritesSafely
       DEF TailInv, OperatorsWriteRows, SupervisorWrites, OperatorWrites, Writers
  <2> QED
    BY <2>1, <2>2, <2>3, DrainStays DEF TailInv
<1>2. ASSUME NEW r \in Workflows, AgentEmits(r) \/ AgentsLeave(r) \/ TasksSettle(r)
      PROVE  TailInv'
  <2>1. UNCHANGED <<rowVars, logRows, excused, drain>>
    BY <1>2 DEF AgentEmits, AgentsLeave, TasksSettle
  <2>2. LogGrows /\ LogInType'
    <3>1. CASE AgentEmits(r)
      <4>1. stream' = Append(stream, r) /\ Len(stream) < MaxCursor
        BY <3>1 DEF AgentEmits
      <4>2. /\ stream' \in Seq(Workflows) /\ Len(stream') = Len(stream) + 1
            /\ \A e \in 1..Len(stream) : stream'[e] = stream[e]
        BY <4>1 DEF TailInv, LogInType
      <4> QED
        BY <2>1, <4>1, <4>2, MaxCursorAssumption DEF TailInv, LogInType, LogGrows, Told, Emitted
    <3>2. CASE UNCHANGED stream
      BY <2>1, <3>2, LogStays DEF TailInv, LogGrows
    <3> QED
      BY <1>2, <3>1, <3>2 DEF AgentsLeave, TasksSettle
  <2> QED
    BY <2>1, <2>2, RowsStay, DrainStays DEF TailInv
<1> QED
  BY <1>1, <1>2

\* Nothing is read and nothing emitted when the tail begins.
LEMMA TailBeginsSafe == TailInit => TailInv
<1> SUFFICES ASSUME TailInit PROVE TailInv
  OBVIOUS
<1>1. /\ stream = <<>> /\ Len(stream) = 0 /\ stream \in Seq(Workflows) /\ Emitted = {}
      /\ logRows = [e \in EventIds |-> 0] /\ drain = NoDrain /\ RowInit
  BY DEF TailInit, Emitted
<1>2. LogInType
  BY <1>1, MaxCursorAssumption DEF LogInType
<1>3. \A auto \in BOOLEAN : /\ Created(auto) \in Rows /\ StopRun(Created(auto)) \in Rows
                            /\ Created(auto).cursor = 0 /\ StopRun(Created(auto)).cursor = 0
  <2>1. \A auto \in BOOLEAN : Created(auto) \in Rows /\ Created(auto).cursor = 0
    BY MaxCursorAssumption DEF Created, Rows
  <2>2. \A row \in Rows : StopRun(row) \in Rows /\ StopRun(row).cursor = row.cursor
    BY DEF StopRun, Rows
  <2> QED
    BY <2>1, <2>2
<1>4. RowsSafe
  <2>1. /\ \A r \in Workflows : runRow[r] \in Rows /\ runRow[r].cursor = 0
        /\ \A w \in Writers : held[w] = NoRow
        /\ RowTypeOK
    BY <1>1, <1>3 DEF RowInit, RowTypeOK
  <2>2. \A r \in Workflows : Safe(r, 0)
    BY <1>1 DEF Safe
  <2> QED
    BY <2>1, <2>2 DEF RowsSafe, Holds
<1>5. DrainShape /\ drain.at = "idle"
  BY <1>1, IdleDrain DEF DrainShape
<1> QED
  BY <1>2, <1>4, <1>5 DEF TailInv, CursorsSafe, BatchSafe, AppendsSafe

\* The tail's invariant is inductive.
LEMMA TailInductive == TailInv /\ [TailNext]_<<rowVars, tailVars>> => TailInv'
<1> SUFFICES ASSUME TailInv, [TailNext]_<<rowVars, tailVars>> PROVE TailInv'
  OBVIOUS
<1>1. CASE TailNext
  BY <1>1, BeginsSafely, DrainsSafely, ResolvesSafely, AppendsSafely, CursorsMoveSafely,
     EndsSafely, WorldIsSafe DEF TailNext, TailStep
<1>2. CASE UNCHANGED <<rowVars, tailVars>>
  <2>1. UNCHANGED <<rowVars, stream, logRows, excused, drain>>
    BY <1>2 DEF tailVars
  <2>2. LogGrows /\ LogInType'
    BY <2>1, LogStays DEF TailInv, LogGrows
  <2> QED
    BY <2>1, <2>2, RowsStay, DrainStays DEF TailInv
<1> QED
  BY <1>1, <1>2

\* No event is skipped in silence, whatever the workflows, the cap of a drain
\* and what befalls the tail. (tail_hcom advances a cursor after its rows)
THEOREM NothingIsSkipped == TailSpec => []NoSilentSkip
<1>1. TailInv => NoSilentSkip
  BY DEF TailInv, RowsSafe, LogInType, Safe, Told, NoSilentSkip, Emitted
<1> QED
  BY <1>1, TailInductive, TailBeginsSafe, PTL DEF TailSpec

\* Neither a line nor a bubble twice. (append_log_once, append_agent_message)
THEOREM NoLineTwice == TailSpec => []NoDuplicateLine
<1> DEFINE Inv == /\ logRows \in [EventIds -> Nat] /\ chatRows \in [EventIds -> Nat]
                  /\ NoDuplicateLine
<1>1. TailInit => Inv
  BY DEF TailInit, NoDuplicateLine
<1>2. Inv /\ [TailNext]_<<rowVars, tailVars>> => Inv'
  <2> SUFFICES ASSUME Inv, [TailNext]_<<rowVars, tailVars>> PROVE Inv'
    OBVIOUS
  <2>1. ASSUME NEW mirrors \in BOOLEAN, TailAppends(mirrors) PROVE Inv'
    <3>1. ASSUME NEW rows \in [EventIds -> Nat], NEW e, \A d \in EventIds : rows[d] <= 1
          PROVE  /\ AppendsOnce(rows, e) \in [EventIds -> Nat]
                 /\ \A d \in EventIds : AppendsOnce(rows, e)[d] <= 1
      <4>1. \A d \in EventIds :
                AppendsOnce(rows, e)[d] = IF d = e /\ rows[e] = 0 THEN 1 ELSE rows[d]
        BY DEF AppendsOnce
      <4>2. AppendsOnce(rows, e) \in [EventIds -> Nat]
        BY DEF AppendsOnce
      <4> QED
        BY <3>1, <4>1, <4>2
    <3>2. PICK e : /\ logRows' = AppendsOnce(logRows, e)
                   /\ chatRows' \in {chatRows, AppendsOnce(chatRows, e)}
      BY <2>1 DEF TailAppends, MirrorsChat
    <3>3. /\ logRows' \in [EventIds -> Nat] /\ chatRows' \in [EventIds -> Nat]
          /\ \A d \in EventIds : logRows'[d] <= 1
          /\ \A d \in EventIds : chatRows'[d] <= 1
      BY <3>1, <3>2 DEF NoDuplicateLine
    <3> QED
      BY <3>3 DEF NoDuplicateLine
  <2>2. CASE UNCHANGED <<logRows, chatRows>>
    BY <2>2 DEF NoDuplicateLine
  <2>3. CASE TailNext
    BY <2>1, <2>2, <2>3
       DEF TailNext, TailStep, TailBegins, TailDrains, TailResolves, TailWritten, TailAdvanced,
           TailEnds, SupervisorWrites, TailAdvances, TailForwards, TailAppendFails, TailDies,
           OperatorsWriteRows, AgentEmits, AgentsLeave, TasksSettle, tailVars
  <2> QED
    BY <2>2, <2>3 DEF tailVars
<1>3. Inv => NoDuplicateLine
  OBVIOUS
<1> QED
  BY <1>1, <1>2, <1>3, PTL DEF TailSpec

(***************************************************************************)
(* Issue sync: a close does not come back as a reopening. While nobody has *)
(* reopened or linked an issue, every copy of the linkage that anyone      *)
(* holds tells the truth of one and the same issue.                        *)
(***************************************************************************)

Writes == [row : TaskRows, upsert : BOOLEAN]

IssueFrame ==
    /\ taskRow \in TaskRows \cup {NoTask}
    /\ liveIssue \in [Issues -> IssueStates]
    /\ writing \in [Actors -> Writes \cup {NoTask}]
    /\ closer \in [at : {"idle", "run", "gate", "close", "record"}, link : Linkages]
    /\ poll \in [at : {"idle", "view", "act", "record", "save"}, row : TaskRows \cup {NoTask},
                 live : IssueStates \cup {"unknown"}]
    /\ asked \in [Linkers -> [at : {"idle", "gh", "save"}, link : Linkages]]
    /\ opened \in BOOLEAN
    /\ poll.at \in {"view", "act"} => poll.row \in TaskRows /\ poll.row.link.url \in Issues
    /\ poll.at = "save" => poll.row \in TaskRows

\* A copy of the linkage is of issue i or of none, and records a close of i
\* only if i is closed.
Tells(link, i, live) ==
    link.url \in {i, NoIssue} /\ (link.url = i /\ link.synced = "closed" => live[i] = "closed")

\* Every copy that anybody holds of the row or its linkage does, and so does
\* what the poll saw.
Tellers(i) ==
    /\ HasTask => Tells(taskRow.link, i, liveIssue)
    /\ \A a \in Actors : Writing(a) => Tells(writing[a].row.link, i, liveIssue)
    /\ Tells(closer.link, i, liveIssue)
    /\ closer.at = "record" => closer.link.url = i /\ liveIssue[i] = "closed"
    /\ \A c \in Linkers : Tells(asked[c].link, i, liveIssue)
    /\ poll.at \in {"view", "act", "save"} => Tells(poll.row.link, i, liveIssue)
    /\ poll.at = "act" /\ poll.row.link.synced = "closed" => poll.live = "closed"
    /\ poll.live = "closed" => liveIssue[i] = "closed"

BounceInv == IssueFrame /\ (~opened => \E i \in Issues : Tellers(i))

\* The fields of a row and of a linkage, and what a write leaves of them.
LEMMA RowFields ==
  ASSUME NEW row \in TaskRows
  PROVE  /\ row.link \in Linkages /\ row.status \in Status
         /\ \A s \in Status : [row EXCEPT !.status = s] \in TaskRows
                              /\ [row EXCEPT !.status = s].link = row.link
         /\ \A l \in Linkages : [row EXCEPT !.link = l] \in TaskRows
                                /\ [row EXCEPT !.link = l].link = l
         /\ \A s \in IssueStates \cup {"unknown"} :
               /\ [row EXCEPT !.link.synced = s] \in TaskRows
               /\ [row EXCEPT !.link.synced = s].link = [row.link EXCEPT !.synced = s]
BY DEF TaskRows, Linkages

LEMMA LinkFields ==
  ASSUME NEW l \in Linkages
  PROVE  /\ l.url \in Issues \cup {NoIssue}
         /\ \A s \in IssueStates \cup {"unknown"} :
               /\ [l EXCEPT !.synced = s] \in Linkages
               /\ [l EXCEPT !.synced = s].url = l.url /\ [l EXCEPT !.synced = s].synced = s
         /\ \A i \in Issues, s \in IssueStates : [l EXCEPT !.url = i, !.synced = s] \in Linkages
         /\ \A on \in BOOLEAN :
               /\ [l EXCEPT !.closes = on] \in Linkages
               /\ [l EXCEPT !.closes = on].url = l.url /\ [l EXCEPT !.closes = on].synced = l.synced
BY DEF Linkages

LEMMA NothingLinked ==
  /\ Unlinked \in Linkages /\ Unlinked.url = NoIssue
BY DEF Unlinked, Linkages, IssueStates

\* What a store call leaves in the row and in the actor's hands.
StoreReads(a, link) ==
    /\ UNCHANGED taskRow
    /\ \E w \in Writes : writing' = [writing EXCEPT ![a] = w] /\ w.row.link = link

LEMMA CallsRead ==
  ASSUME IssueFrame, NEW a \in Actors
  PROVE  /\ \A kind \in Kind : TransitionReads(a, kind) => HasTask /\ StoreReads(a, taskRow.link)
         /\ ResetReads(a) => HasTask /\ StoreReads(a, taskRow.link)
         /\ \A l \in Linkages : LinkReads(a, l) => HasTask /\ StoreReads(a, l)
<1>1. ASSUME NEW row \in TaskRows, NEW u \in BOOLEAN, Reads(a, row, u)
      PROVE  StoreReads(a, row.link)
  <2>1. [row |-> row, upsert |-> u] \in Writes
    BY DEF Writes
  <2> QED BY <1>1, <2>1 DEF Reads, StoreReads
<1>2. HasTask => taskRow \in TaskRows
  BY DEF IssueFrame, HasTask
<1>3. \A kind \in Kind : Target[kind] \in Status
  BY DEF Kind, Target, Status
<1>4. "pending" \in Status
  BY DEF Status
<1>5. ASSUME NEW kind \in Kind, TransitionReads(a, kind)
      PROVE  HasTask /\ StoreReads(a, taskRow.link)
  <2>1. HasTask /\ Reads(a, [taskRow EXCEPT !.status = Target[kind]], FALSE)
    BY <1>5 DEF TransitionReads
  <2>2. [taskRow EXCEPT !.status = Target[kind]] \in TaskRows
        /\ [taskRow EXCEPT !.status = Target[kind]].link = taskRow.link
    BY <1>2, <1>3, <2>1, RowFields
  <2> QED BY <1>1, <2>1, <2>2
<1>6. ASSUME ResetReads(a) PROVE HasTask /\ StoreReads(a, taskRow.link)
  <2>1. HasTask /\ Reads(a, [taskRow EXCEPT !.status = "pending"], FALSE)
    BY <1>6 DEF ResetReads
  <2>2. [taskRow EXCEPT !.status = "pending"] \in TaskRows
        /\ [taskRow EXCEPT !.status = "pending"].link = taskRow.link
    BY <1>2, <1>4, <2>1, RowFields
  <2> QED BY <1>1, <2>1, <2>2
<1>7. ASSUME NEW l \in Linkages, LinkReads(a, l) PROVE HasTask /\ StoreReads(a, l)
  <2>1. HasTask /\ Reads(a, [taskRow EXCEPT !.link = l], TRUE)
    BY <1>7 DEF LinkReads
  <2>2. [taskRow EXCEPT !.link = l] \in TaskRows /\ [taskRow EXCEPT !.link = l].link = l
    BY <1>2, <2>1, RowFields
  <2> QED BY <1>1, <2>1, <2>2
<1> QED BY <1>5, <1>6, <1>7

\* The row and the copies in the actors' hands go on telling if what is read
\* does, or nothing is.
RowsTell(i) ==
    /\ HasTask => Tells(taskRow.link, i, liveIssue)
    /\ \A a \in Actors : Writing(a) => Tells(writing[a].row.link, i, liveIssue)

RowsInType == taskRow \in TaskRows \cup {NoTask} /\ writing \in [Actors -> Writes \cup {NoTask}]

LEMMA ReadsTell ==
  ASSUME IssueFrame, NEW a \in Actors, NEW l, StoreReads(a, l)
  PROVE  /\ RowsInType'
         /\ UNCHANGED liveIssue =>
               \A i : RowsTell(i) /\ Tells(l, i, liveIssue) => RowsTell(i)'
<1>1. PICK w \in Writes : writing' = [writing EXCEPT ![a] = w] /\ w.row.link = l
  BY DEF StoreReads
<1>2. taskRow' = taskRow
  BY DEF StoreReads
<1>3. RowsInType'
  BY <1>1, <1>2 DEF RowsInType, IssueFrame
<1>4. ASSUME NEW i, RowsTell(i), Tells(l, i, liveIssue), UNCHANGED liveIssue
      PROVE  RowsTell(i)'
  <2>1. \A b \in Actors : writing'[b] = IF b = a THEN w ELSE writing[b]
    BY <1>1 DEF IssueFrame
  <2>2. \A b \in Actors : Writing(b)' => Tells(writing'[b].row.link, i, liveIssue)
    BY <1>1, <1>4, <2>1 DEF RowsTell, Writing
  <2> QED BY <1>2, <1>4, <2>2 DEF RowsTell, HasTask
<1> QED BY <1>3, <1>4

\* What a step must keep, whoever takes it.
KeepsTelling == IssueFrame' /\ (~opened' => \A i \in Issues : Tellers(i) => Tellers(i)')

\* A write of the row, or the end of a call that found no row.
LEMMA WriteKeeps ==
  ASSUME IssueFrame, NEW a \in Actors, ActorWrites(a)
  PROVE  KeepsTelling
<1>1. Writing(a) /\ writing[a] \in Writes /\ writing[a].row \in TaskRows
  BY DEF ActorWrites, StoreWrites, IssueFrame, Writing, Writes
<1>2. /\ taskRow' = taskRow \/ taskRow' = writing[a].row
      /\ writing' = [writing EXCEPT ![a] = NoTask]
  BY DEF ActorWrites, StoreWrites
<1>3. UNCHANGED <<liveIssue, closer, poll, asked, opened>>
  BY DEF ActorWrites
<1>4. RowsInType'
  BY <1>1, <1>2 DEF RowsInType, IssueFrame
<1>5. IssueFrame'
  BY <1>3, <1>4 DEF IssueFrame, RowsInType
<1>6. ASSUME NEW i \in Issues, Tellers(i) PROVE Tellers(i)'
  <2>1. Tells(writing[a].row.link, i, liveIssue)
    BY <1>1, <1>6 DEF Tellers
  <2>2. \A b \in Actors : Writing(b)' => writing'[b] = writing[b] /\ Writing(b)
    BY <1>2 DEF IssueFrame, Writing
  <2>3. HasTask' => Tells(taskRow'.link, i, liveIssue)
    BY <1>2, <1>6, <2>1 DEF Tellers, HasTask
  <2> QED BY <1>3, <1>6, <2>2, <2>3 DEF Tellers
<1> QED BY <1>5, <1>6 DEF KeepsTelling

\* A loop records a close only of an issue it has closed.
LEMMA LoopKeeps ==
  ASSUME IssueFrame, LoopStep
  PROVE  KeepsTelling
<1> DEFINE C == [at : {"idle", "run", "gate", "close", "record"}, link : Linkages]
<1>1. NoLoop \in C /\ NoLoop.at = "idle" /\ NoLoop.link.url = NoIssue
  BY NothingLinked DEF NoLoop
<1>2. closer \in C /\ closer.link \in Linkages /\ Loop \in Actors
  BY DEF IssueFrame, Actors
<1>3. \A p \in {"gate", "close", "record"} :
         LoopGoes(p) => closer' \in C /\ closer'.at = p /\ closer'.link = closer.link
  BY <1>2 DEF LoopGoes
\* The row stands still, or is read with its linkage or with the one recorded.
<1>4. ASSUME UNCHANGED <<liveIssue, poll, asked, opened>>, closer' \in C,
             NEW l, UNCHANGED <<taskRow, writing>> \/ StoreReads(Loop, l),
             \A i \in Issues : Tellers(i) =>
                 /\ Tells(l, i, liveIssue) /\ Tells(closer'.link, i, liveIssue)
                 /\ closer'.at # "record"
      PROVE  KeepsTelling
  <2>1. RowsInType'
    BY <1>2, <1>4, ReadsTell DEF RowsInType, IssueFrame
  <2>2. IssueFrame'
    BY <1>4, <2>1 DEF IssueFrame, RowsInType
  <2>3. ASSUME NEW i \in Issues, Tellers(i) PROVE Tellers(i)'
    <3>1. RowsTell(i)
      BY <2>3 DEF Tellers, RowsTell
    <3>2. RowsTell(i)'
      BY <1>2, <1>4, <2>3, <3>1, ReadsTell DEF RowsTell, HasTask, Writing
    <3> QED BY <1>4, <2>3, <3>2 DEF Tellers, RowsTell
  <2> QED BY <2>2, <2>3 DEF KeepsTelling
<1>5. \A i \in Issues : Tellers(i) =>
          /\ HasTask => Tells(taskRow.link, i, liveIssue)
          /\ Tells(closer.link, i, liveIssue) /\ Tells(NoLoop.link, i, liveIssue)
  BY <1>1, IssueConstants DEF Tellers, Tells
<1>6. {"Claim", "Gate", "Done", "Block"} \subseteq Kind
  BY DEF Kind
<1>7. CASE LoopClaims
  <2>1. HasTask /\ StoreReads(Loop, taskRow.link)
    BY <1>2, <1>6, <1>7, CallsRead DEF LoopClaims
  <2>2. taskRow.link \in Linkages
    BY <2>1, RowFields DEF IssueFrame, HasTask
  <2>3. closer' \in C /\ closer'.link = taskRow.link /\ closer'.at = "run"
    BY <1>7, <2>2 DEF LoopClaims
  <2>4. UNCHANGED <<liveIssue, poll, asked, opened>>
    BY <1>7 DEF LoopClaims
  <2> QED BY <1>4, <1>5, <2>1, <2>3, <2>4
<1>8. CASE LoopGates
  <2>1. \/ HasTask /\ StoreReads(Loop, taskRow.link) /\ LoopGoes("gate")
        \/ closer' = NoLoop /\ UNCHANGED <<taskRow, writing>>
    BY <1>2, <1>6, <1>8, CallsRead DEF LoopGates
  <2>2. UNCHANGED <<liveIssue, poll, asked, opened>>
    BY <1>8 DEF LoopGates
  <2>3. CASE HasTask /\ StoreReads(Loop, taskRow.link) /\ LoopGoes("gate")
    BY <1>3, <1>4, <1>5, <2>2, <2>3
  <2>4. CASE closer' = NoLoop /\ UNCHANGED <<taskRow, writing>>
    BY <1>1, <1>4, <1>5, <2>2, <2>4
  <2> QED BY <2>1, <2>3, <2>4
<1>9. CASE LoopLands
  <2>1. \/ HasTask /\ StoreReads(Loop, taskRow.link) /\ LoopGoes("close")
        \/ closer' = NoLoop /\ UNCHANGED <<taskRow, writing>>
    BY <1>2, <1>6, <1>9, CallsRead DEF LoopLands
  <2>2. UNCHANGED <<liveIssue, poll, asked, opened>>
    BY <1>9 DEF LoopLands
  <2>3. CASE HasTask /\ StoreReads(Loop, taskRow.link) /\ LoopGoes("close")
    BY <1>3, <1>4, <1>5, <2>2, <2>3
  <2>4. CASE closer' = NoLoop /\ UNCHANGED <<taskRow, writing>>
    BY <1>1, <1>4, <1>5, <2>2, <2>4
  <2> QED BY <2>1, <2>3, <2>4
<1>10. CASE LoopBlocks
  <2>1. HasTask /\ StoreReads(Loop, taskRow.link) /\ closer' = NoLoop
    BY <1>2, <1>6, <1>10, CallsRead DEF LoopBlocks
  <2>2. UNCHANGED <<liveIssue, poll, asked, opened>>
    BY <1>10 DEF LoopBlocks
  <2> QED BY <1>1, <1>4, <1>5, <2>1, <2>2
<1>11. CASE ClosesOnDone
  <2>1. UNCHANGED <<taskRow, writing, poll, asked, opened>>
    BY <1>11 DEF ClosesOnDone
  <2>2. \/ closer' = NoLoop /\ UNCHANGED liveIssue
        \/ /\ closer.link.url # NoIssue /\ LoopGoes("record")
           /\ liveIssue' = [liveIssue EXCEPT ![closer.link.url] = "closed"]
    BY <1>11 DEF ClosesOnDone, AfterFailedClose
  <2>3. CASE closer' = NoLoop /\ UNCHANGED liveIssue
    BY <1>1, <1>4, <1>5, <2>1, <2>3
  <2>4. CASE /\ closer.link.url # NoIssue /\ LoopGoes("record")
             /\ liveIssue' = [liveIssue EXCEPT ![closer.link.url] = "closed"]
    <3>1. closer' \in C /\ closer'.at = "record" /\ closer'.link = closer.link
      BY <1>3, <2>4
    <3>2. liveIssue' \in [Issues -> IssueStates]
      BY <2>4 DEF IssueFrame, IssueStates
    <3>3. IssueFrame'
      BY <2>1, <3>1, <3>2 DEF IssueFrame
    <3>4. ASSUME NEW i \in Issues, Tellers(i) PROVE Tellers(i)'
      <4>1. closer.link.url = i
        BY <2>4, <3>4 DEF Tellers, Tells
      <4>2. liveIssue'[i] = "closed"
        BY <2>4, <4>1 DEF IssueFrame
      <4>3. \A l : Tells(l, i, liveIssue) => Tells(l, i, liveIssue')
        BY <4>2 DEF Tells
      <4> QED BY <2>1, <3>1, <3>4, <4>1, <4>2, <4>3 DEF Tellers, HasTask, Writing
    <3> QED BY <3>3, <3>4 DEF KeepsTelling
  <2> QED BY <2>2, <2>3, <2>4
<1>12. CASE RecordsClose
  <2> DEFINE l == [closer.link EXCEPT !.synced = "closed"]
  <2>1. UNCHANGED <<liveIssue, poll, asked, opened>> /\ closer' = NoLoop
    BY <1>12 DEF RecordsClose
  <2>2. l \in Linkages /\ l.url = closer.link.url
    BY <1>2, LinkFields DEF IssueStates
  <2>3. UNCHANGED <<taskRow, writing>> \/ StoreReads(Loop, l)
    BY <1>2, <1>12, <2>2, CallsRead DEF RecordsClose
  <2>4. \A i \in Issues : Tellers(i) => Tells(l, i, liveIssue)
    BY <1>12, <2>2 DEF RecordsClose, Tellers, Tells
  <2> HIDE DEF l
  <2> QED BY <1>1, <1>4, <1>5, <2>1, <2>3, <2>4
<1>13. CASE ActorWrites(Loop)
  BY <1>2, <1>13, WriteKeeps
<1> QED BY <1>7, <1>8, <1>9, <1>10, <1>11, <1>12, <1>13 DEF LoopStep

\* What the poll holds in each of its phases.
PollRecord == [at : {"idle", "view", "act", "record", "save"}, row : TaskRows \cup {NoTask},
               live : IssueStates \cup {"unknown"}]
PollHolds(p) ==
    /\ p \in PollRecord
    /\ p.at \in {"view", "act"} => p.row \in TaskRows /\ p.row.link.url \in Issues
    /\ p.at = "save" => p.row \in TaskRows
PollTells(p, i, live) ==
    /\ p.at \in {"view", "act", "save"} => Tells(p.row.link, i, live)
    /\ p.at = "act" /\ p.row.link.synced = "closed" => p.live = "closed"
    /\ p.live = "closed" => live[i] = "closed"

\* The poll lists, sees and records what is so.
LEMMA PollKeeps ==
  ASSUME IssueFrame, PollStep \/ Promotes
  PROVE  KeepsTelling
<1>1. Poll \in Actors
  BY DEF Actors
<1>2. PollHolds(poll) /\ poll = [at |-> poll.at, row |-> poll.row, live |-> poll.live]
  BY DEF IssueFrame, PollHolds, PollRecord
<1>3. PollHolds(NoPoll) /\ \A i, live : PollTells(NoPoll, i, live)
  BY DEF NoPoll, PollHolds, PollTells, PollRecord
<1>4. ASSUME UNCHANGED <<liveIssue, closer, asked, opened>>, PollHolds(poll'),
             NEW l, UNCHANGED <<taskRow, writing>> \/ StoreReads(Poll, l),
             \A i \in Issues : Tellers(i) =>
                 Tells(l, i, liveIssue) /\ PollTells(poll', i, liveIssue)
      PROVE  KeepsTelling
  <2>1. RowsInType'
    BY <1>1, <1>4, ReadsTell DEF RowsInType, IssueFrame
  <2>2. IssueFrame'
    BY <1>4, <2>1 DEF IssueFrame, RowsInType, PollHolds, PollRecord
  <2>3. ASSUME NEW i \in Issues, Tellers(i) PROVE Tellers(i)'
    <3>1. RowsTell(i)
      BY <2>3 DEF Tellers, RowsTell
    <3>2. RowsTell(i)'
      BY <1>1, <1>4, <2>3, <3>1, ReadsTell DEF RowsTell, HasTask, Writing
    <3> QED BY <1>4, <2>3, <3>2 DEF Tellers, RowsTell, PollTells
  <2> QED BY <2>2, <2>3 DEF KeepsTelling
<1>5. \A i \in Issues : Tellers(i) =>
          /\ HasTask => Tells(taskRow.link, i, liveIssue)
          /\ PollTells(poll, i, liveIssue) /\ Tells(Unlinked, i, liveIssue)
  BY NothingLinked, IssueConstants DEF Tellers, Tells, PollTells
<1>6. {"Ready", "ExternalDone", "Revive"} \subseteq Kind
  BY DEF Kind
<1>7. CASE Promotes
  <2>1. HasTask /\ StoreReads(Poll, taskRow.link) /\ UNCHANGED <<liveIssue, closer, poll, asked, opened>>
    BY <1>1, <1>6, <1>7, CallsRead DEF Promotes
  <2> QED BY <1>2, <1>4, <1>5, <2>1
<1>8. CASE PollLists
  <2>1. poll' = [NoPoll EXCEPT !.at = "view", !.row = taskRow] /\ HasTask /\ taskRow.link.url # NoIssue
        /\ UNCHANGED <<taskRow, liveIssue, writing, closer, asked, opened>>
    BY <1>8 DEF PollLists
  <2>2. poll' = [at |-> "view", row |-> taskRow, live |-> "unknown"]
    BY <2>1 DEF NoPoll
  <2>3. taskRow \in TaskRows /\ taskRow.link.url \in Issues
    BY <2>1, RowFields, LinkFields DEF IssueFrame, HasTask
  <2>4. PollHolds(poll')
    BY <2>2, <2>3 DEF PollHolds, PollRecord
  <2>5. \A i \in Issues : Tellers(i) => PollTells(poll', i, liveIssue)
    <3>1. poll'.at = "view" /\ poll'.row = taskRow /\ poll'.live = "unknown"
      BY <2>2
    <3> QED BY <1>5, <2>1, <3>1 DEF PollTells
  <2> QED BY <1>4, <1>5, <2>1, <2>4, <2>5
<1>9. CASE PollViews
  <2>1. UNCHANGED <<taskRow, liveIssue, writing, closer, asked, opened>> /\ poll.at = "view"
    BY <1>9 DEF PollViews
  <2>2. CASE poll' = NoPoll
    BY <1>3, <1>4, <1>5, <2>1, <2>2
  <2>3. CASE poll' = [poll EXCEPT !.at = "act", !.live = liveIssue[poll.row.link.url]]
    <3>1. poll' = [at |-> "act", row |-> poll.row, live |-> liveIssue[poll.row.link.url]]
      BY <1>2, <2>3
    <3>2. poll.row \in TaskRows /\ poll.row.link.url \in Issues
      BY <1>2, <2>1 DEF PollHolds
    <3>3. liveIssue[poll.row.link.url] \in IssueStates
      BY <3>2 DEF IssueFrame
    <3>4. PollHolds(poll')
      BY <3>1, <3>2, <3>3 DEF PollHolds, PollRecord
    <3>5. ASSUME NEW i \in Issues, Tellers(i) PROVE PollTells(poll', i, liveIssue)
      <4>1. Tells(poll.row.link, i, liveIssue)
        BY <2>1, <3>5 DEF Tellers
      <4>2. poll.row.link.url = i
        BY <3>2, <4>1, IssueConstants DEF Tells
      <4> QED BY <3>1, <4>1, <4>2 DEF PollTells, Tells
    <3> QED BY <1>4, <1>5, <2>1, <3>4, <3>5
  <2> QED BY <1>9, <2>2, <2>3 DEF PollViews
<1>10. CASE PollActs
  <2>1. UNCHANGED <<liveIssue, closer, asked, opened>>
    BY <1>10 DEF PollActs
  <2>2. poll' = NoPoll \/ poll' = PollRecords
    BY <1>10 DEF PollActs, AfterRefusal, PollRecords
  <2>3. /\ PollRecords \in PollRecord
        /\ PollRecords.at = "record" /\ PollRecords.live = poll.live
    <3>1. poll \in PollRecord
      BY <1>2 DEF PollHolds
    <3> QED BY <3>1 DEF PollRecords, PollRecord
  <2>4. PollHolds(poll')
    BY <1>2, <1>3, <2>2, <2>3 DEF PollHolds, PollRecord
  <2>5. \A i \in Issues : Tellers(i) => PollTells(poll', i, liveIssue)
    BY <1>3, <1>5, <2>2, <2>3 DEF PollTells
  <2>6. UNCHANGED <<taskRow, writing>> \/ (HasTask /\ StoreReads(Poll, taskRow.link))
    BY <1>1, <1>6, <1>10, CallsRead DEF PollActs
  <2>7. CASE UNCHANGED <<taskRow, writing>>
    BY <1>4, <1>5, <2>1, <2>4, <2>5, <2>7
  <2>8. CASE HasTask /\ StoreReads(Poll, taskRow.link)
    BY <1>4, <1>5, <2>1, <2>4, <2>5, <2>8
  <2> QED BY <2>6, <2>7, <2>8
<1>11. CASE RecordsState
  <2>1. UNCHANGED <<taskRow, liveIssue, writing, closer, asked, opened>> /\ poll.at = "record"
    BY <1>11 DEF RecordsState
  <2>2. CASE poll' = NoPoll
    BY <1>3, <1>4, <1>5, <2>1, <2>2
  <2>3. CASE HasTask /\ poll' = [poll EXCEPT !.at = "save", !.row = [taskRow EXCEPT !.link.synced = poll.live]]
    <3> DEFINE row == [taskRow EXCEPT !.link.synced = poll.live]
    <3>1. poll' = [at |-> "save", row |-> row, live |-> poll.live]
      BY <1>2, <2>3
    <3>2. taskRow \in TaskRows /\ taskRow.link \in Linkages /\ poll.live \in IssueStates \cup {"unknown"}
      BY <1>2, <2>3, RowFields DEF IssueFrame, HasTask, PollHolds, PollRecord
    <3>3. row \in TaskRows /\ row.link = [taskRow.link EXCEPT !.synced = poll.live]
      BY <3>2, RowFields
    <3>4. row.link.url = taskRow.link.url /\ row.link.synced = poll.live
      <4>1. [taskRow.link EXCEPT !.synced = poll.live].url = taskRow.link.url
            /\ [taskRow.link EXCEPT !.synced = poll.live].synced = poll.live
        BY <3>2, LinkFields
      <4> QED BY <3>3, <4>1
    <3>5. PollHolds(poll')
      BY <3>1, <3>2, <3>3 DEF PollHolds, PollRecord
    <3>6. \A i \in Issues : Tellers(i) => PollTells(poll', i, liveIssue)
      BY <1>5, <2>3, <3>1, <3>4 DEF PollTells, Tells
    <3> QED BY <1>4, <1>5, <2>1, <3>5, <3>6
  <2> QED BY <1>11, <2>2, <2>3 DEF RecordsState
<1>12. CASE PollSaves
  <2>1. UNCHANGED <<liveIssue, closer, asked, opened>> /\ poll' = NoPoll /\ poll.at = "save"
    BY <1>12 DEF PollSaves
  <2>2. poll.row.link \in Linkages
    BY <1>2, <2>1, RowFields DEF PollHolds
  <2>3. UNCHANGED <<taskRow, writing>> \/ StoreReads(Poll, poll.row.link)
    BY <1>1, <1>12, <2>2, CallsRead DEF PollSaves
  <2> QED BY <1>3, <1>4, <1>5, <2>1, <2>3 DEF PollTells
<1>13. CASE ActorWrites(Poll)
  BY <1>1, <1>13, WriteKeeps
<1> QED BY <1>7, <1>8, <1>9, <1>10, <1>11, <1>12, <1>13 DEF PollStep

\* An operator saves the linkage he read, or none, or has opened one.
LEMMA OperatorKeeps ==
  ASSUME IssueFrame, NEW c \in Linkers, OperatorStep(c)
  PROVE  KeepsTelling
<1> DEFINE A == [at : {"idle", "gh", "save"}, link : Linkages]
<1>1. c \in Actors /\ asked[c] \in A /\ asked[c].link \in Linkages
  BY DEF Actors, IssueFrame
\* What he asks for is of the linkage l, where the row is read with k if it is.
<1>2. ASSUME UNCHANGED <<liveIssue, closer, poll>>, opened' \in BOOLEAN, ~opened' => ~opened,
             NEW p \in A, asked' = asked \/ asked' = [asked EXCEPT ![c] = p],
             NEW k, UNCHANGED <<taskRow, writing>> \/ StoreReads(c, k),
             ~opened' => \A i \in Issues : Tellers(i) =>
                 Tells(k, i, liveIssue) /\ Tells(p.link, i, liveIssue)
      PROVE  KeepsTelling
  <2>1. RowsInType'
    BY <1>1, <1>2, ReadsTell DEF RowsInType, IssueFrame
  <2>2. asked' \in [Linkers -> A]
    BY <1>2 DEF IssueFrame
  <2>3. IssueFrame'
    BY <1>2, <2>1, <2>2 DEF IssueFrame, RowsInType
  <2>4. ASSUME ~opened', NEW i \in Issues, Tellers(i) PROVE Tellers(i)'
    <3>1. RowsTell(i)
      BY <2>4 DEF Tellers, RowsTell
    <3>2. RowsTell(i)'
      BY <1>1, <1>2, <2>4, <3>1, ReadsTell DEF RowsTell, HasTask, Writing
    <3>3. \A d \in Linkers : asked'[d] = asked[d] \/ asked'[d] = p
      BY <1>2 DEF IssueFrame
    <3>4. \A d \in Linkers : Tells(asked'[d].link, i, liveIssue)
      BY <1>2, <2>4, <3>3 DEF Tellers
    <3> QED BY <1>2, <2>4, <3>2, <3>4 DEF Tellers, RowsTell
  <2> QED BY <2>3, <2>4 DEF KeepsTelling
<1>3. \A i \in Issues : Tellers(i) =>
          /\ HasTask => Tells(taskRow.link, i, liveIssue)
          /\ Tells(asked[c].link, i, liveIssue) /\ Tells(Unlinked, i, liveIssue)
  BY NothingLinked, IssueConstants DEF Tellers, Tells
<1>4. opened \in BOOLEAN /\ HasTask => taskRow.link \in Linkages
  BY RowFields DEF IssueFrame, HasTask
<1>5. \A at \in {"idle", "gh", "save"}, l \in Linkages : [at |-> at, link |-> l] \in A
  OBVIOUS
<1> HIDE DEF A
<1>6. CASE BeginsLink(c)
  <2>1. /\ HasTask /\ UNCHANGED <<taskRow, liveIssue, writing, closer, poll, opened>>
        /\ asked' = [asked EXCEPT ![c] = [at |-> "gh", link |-> taskRow.link]]
    BY <1>6 DEF BeginsLink, Asks
  <2>2. [at |-> "gh", link |-> taskRow.link] \in A
    BY <1>4, <1>5, <2>1 DEF IssueFrame
  <2> QED BY <1>2, <1>3, <2>1, <2>2 DEF IssueFrame
<1>7. CASE UnlinksIssue(c)
  <2>1. /\ UNCHANGED <<taskRow, liveIssue, writing, closer, poll, opened>>
        /\ asked' = [asked EXCEPT ![c] = [at |-> "save", link |-> Unlinked]]
    BY <1>7 DEF UnlinksIssue, Asks
  <2>2. [at |-> "save", link |-> Unlinked] \in A
    BY <1>5, NothingLinked
  <2> QED BY <1>2, <1>3, <2>1, <2>2 DEF IssueFrame
<1>8. CASE SavesLink(c)
  <2>1. UNCHANGED <<liveIssue, closer, poll, opened>> /\ asked' = [asked EXCEPT ![c] = NoAsk]
    BY <1>8 DEF SavesLink
  <2>2. NoAsk \in A /\ NoAsk.link = Unlinked
    BY <1>5, NothingLinked DEF NoAsk
  <2>3. UNCHANGED <<taskRow, writing>> \/ StoreReads(c, asked[c].link)
    BY <1>1, <1>8, CallsRead DEF SavesLink
  <2> QED BY <1>2, <1>3, <2>1, <2>2, <2>3 DEF IssueFrame
<1>9. CASE MovesTask(c)
  <2>1. UNCHANGED <<liveIssue, closer, poll, asked, opened>>
    BY <1>9 DEF MovesTask
  <2>2. {"Revive", "Block"} \subseteq Kind
    BY DEF Kind
  <2>3. HasTask /\ StoreReads(c, taskRow.link)
    BY <1>1, <1>9, <2>2, CallsRead DEF MovesTask
  <2>4. asked[c] \in A
    BY <1>1 DEF A
  <2> QED BY <1>2, <1>3, <2>1, <2>3, <2>4 DEF IssueFrame
<1>10. ASSUME NEW on \in BOOLEAN, SetsCloseOnDone(c, on) PROVE KeepsTelling
  <2> DEFINE l == [taskRow.link EXCEPT !.closes = on]
  <2>1. /\ HasTask /\ UNCHANGED <<taskRow, liveIssue, writing, closer, poll, opened>>
        /\ asked' = [asked EXCEPT ![c] = [at |-> "save", link |-> l]]
    BY <1>10 DEF SetsCloseOnDone, Asks
  <2>2. l \in Linkages /\ l.url = taskRow.link.url /\ l.synced = taskRow.link.synced
    <3>1. taskRow.link \in Linkages
      BY <1>4, <2>1 DEF IssueFrame
    <3> QED BY <3>1, LinkFields
  <2>3. [at |-> "save", link |-> l] \in A
    BY <1>5, <2>2
  <2>4. \A i \in Issues : Tellers(i) => Tells(l, i, liveIssue)
    BY <1>3, <2>1, <2>2 DEF Tells
  <2> HIDE DEF l
  <2> QED BY <1>2, <1>3, <2>1, <2>3, <2>4 DEF IssueFrame
<1>11. ASSUME NEW i \in Issues, CreatesIssue(c, i) \/ LinksIssue(c, i) PROVE KeepsTelling
  <2>1. /\ UNCHANGED <<taskRow, liveIssue, writing, closer, poll>> /\ opened' = TRUE
        /\ \E s \in IssueStates : asked' = [asked EXCEPT ![c] =
               [at |-> "save", link |-> [asked[c].link EXCEPT !.url = i, !.synced = s]]]
    BY <1>11 DEF CreatesIssue, LinksIssue, Asks, IssueFrame, IssueStates
  <2>2. PICK s \in IssueStates : asked' = [asked EXCEPT ![c] =
               [at |-> "save", link |-> [asked[c].link EXCEPT !.url = i, !.synced = s]]]
    BY <2>1
  <2>3. [at |-> "save", link |-> [asked[c].link EXCEPT !.url = i, !.synced = s]] \in A
    BY <1>1, <1>5, LinkFields
  <2> QED BY <1>2, <1>3, <2>1, <2>2, <2>3 DEF IssueFrame
<1>12. CASE ActorWrites(c)
  BY <1>1, <1>12, WriteKeeps
<1> QED BY <1>6, <1>7, <1>8, <1>9, <1>10, <1>11, <1>12 DEF OperatorStep

\* Deletions and people: an issue is opened again only by a person.
LEMMA PeopleKeep ==
  ASSUME IssueFrame, DeletesTask \/ \E i \in Issues : PersonCloses(i) \/ PersonReopens(i)
  PROVE  KeepsTelling
<1>1. CASE DeletesTask
  <2>1. taskRow' = NoTask /\ UNCHANGED <<liveIssue, writing, closer, poll, asked, opened>>
    BY <1>1 DEF DeletesTask
  <2>2. IssueFrame'
    BY <2>1 DEF IssueFrame
  <2> QED BY <2>1, <2>2 DEF KeepsTelling, Tellers, HasTask, Writing
<1>2. ASSUME NEW j \in Issues, PersonCloses(j) PROVE KeepsTelling
  <2>1. /\ liveIssue' = [liveIssue EXCEPT ![j] = "closed"]
        /\ UNCHANGED <<taskRow, writing, closer, poll, asked, opened>>
    BY <1>2 DEF PersonCloses
  <2>2. IssueFrame'
    BY <2>1 DEF IssueFrame, IssueStates
  <2>3. \A i \in Issues : liveIssue[i] = "closed" => liveIssue'[i] = "closed"
    BY <2>1 DEF IssueFrame
  <2>4. \A i \in Issues : \A l : Tells(l, i, liveIssue) => Tells(l, i, liveIssue')
    BY <2>3 DEF Tells
  <2> QED BY <2>1, <2>2, <2>3, <2>4 DEF KeepsTelling, Tellers, HasTask, Writing
<1>3. ASSUME NEW j \in Issues, PersonReopens(j) PROVE KeepsTelling
  <2>1. /\ liveIssue' = [liveIssue EXCEPT ![j] = "open"] /\ opened' = TRUE
        /\ UNCHANGED <<taskRow, writing, closer, poll, asked>>
    BY <1>3 DEF PersonReopens
  <2> QED BY <2>1 DEF KeepsTelling, IssueFrame, IssueStates
<1> QED BY <1>1, <1>2, <1>3

LEMMA BounceInductive ==
  /\ IssueInit => BounceInv
  /\ BounceInv /\ [IssueNext]_issueVars => BounceInv'
<1>1. ASSUME IssueInit PROVE BounceInv
  <2>1. PICK i \in Issues :
           taskRow = [status |-> "pending", link |-> [url |-> i, closes |-> TRUE, synced |-> "open"]]
    BY <1>1 DEF IssueInit
  <2>2. taskRow \in TaskRows /\ taskRow.link.url = i /\ taskRow.link.synced = "open"
    BY <2>1 DEF TaskRows, Linkages, IssueStates, Status
  <2>3. NoLoop.at = "idle" /\ NoLoop.link = Unlinked /\ NoAsk.at = "idle" /\ NoAsk.link = Unlinked
    BY DEF NoLoop, NoAsk
  <2>4. IssueFrame
    BY <1>1, <2>2, NothingLinked DEF IssueInit, IssueFrame, NoLoop, NoPoll, NoAsk, IssueStates
  <2>5. Tells(Unlinked, i, liveIssue)
    BY NothingLinked, IssueConstants DEF Tells
  <2>6. Tellers(i)
    BY <1>1, <2>2, <2>3, <2>5 DEF IssueInit, Tellers, Writing, NoPoll, Tells
  <2> QED BY <2>4, <2>6 DEF BounceInv
<1>2. ASSUME BounceInv, [IssueNext]_issueVars PROVE BounceInv'
  <2>1. CASE UNCHANGED issueVars
    BY <1>2, <2>1 DEF issueVars, BounceInv, IssueFrame, Tellers, HasTask, Writing
  <2>2. CASE IssueNext
    <3>1. KeepsTelling
      BY <1>2, <2>2, LoopKeeps, PollKeeps, OperatorKeeps, PeopleKeep DEF IssueNext, BounceInv
    <3>2. ~opened' => ~opened
      BY <2>2 DEF IssueNext, PollStep, LoopStep, OperatorStep, Promotes, PollLists, PollViews,
          PollActs, RecordsState, PollSaves, LoopClaims, LoopGates, LoopLands, LoopBlocks,
          ClosesOnDone, RecordsClose, ActorWrites, BeginsLink, UnlinksIssue, SavesLink, MovesTask,
          SetsCloseOnDone, CreatesIssue, LinksIssue, DeletesTask, PersonCloses, PersonReopens
    <3> QED BY <1>2, <3>1, <3>2 DEF KeepsTelling, BounceInv
  <2> QED BY <1>2, <2>1, <2>2
<1> QED BY <1>1, <1>2

\* A task is revived for an open issue only if a person reopened or linked one,
\* whoever holds which copy of the row. (close_on_done, reverse_sync)
THEOREM ClosesDoNotBounce == IssueSpec => NoBounce
<1>1. BounceInv /\ [IssueNext]_issueVars =>
        [ (poll.at = "act" /\ poll' # poll /\ writing'[Poll] # writing[Poll]
              /\ SawReopen) => opened ]_issueVars
  <2> SUFFICES ASSUME BounceInv, poll.at = "act", SawReopen, ~opened PROVE FALSE
    BY DEF BounceInv, IssueFrame
  <2>1. PICK i \in Issues : Tellers(i)
    BY DEF BounceInv
  <2> QED BY <2>1 DEF Tellers, SawReopen
<1> QED BY <1>1, BounceInductive, PTL DEF IssueSpec, NoBounce

(***************************************************************************)
(* The task graph: every call takes steps of its own, so what a verb has   *)
(* read may be stale when it writes.  The invariant says what each call    *)
(* still answers for.                                                      *)
(***************************************************************************)
Places == {"idle", "insert", "load", "write", "wire", "each", "drop", "move", "mark", "list",
           "again", "query", "ready", "run", "claim", "claiming"}

CallRecords == [verb : Verbs \cup {Tick}, at : Places, id : GTasks \cup {NoGRow},
                todo : SUBSET GTasks, cut : SUBSET Links, wire : SUBSET Links,
                copy : GRows \cup {NoGRow}, mine : SUBSET GTasks, shut : BOOLEAN]

InHand == {"write", "claiming"}
Wirers == {"add", "create", "update", "import"}

GraphFrame ==
    /\ gRow \in [GTasks -> GRows \cup {NoGRow}]
    /\ gEdges \subseteq Links
    /\ gFlow \in GFlows \cup {NoGRow}
    /\ gCall \in [Callers -> CallRecords]
    /\ gToCome \in [asked : SUBSET Verbs, requests : Nat, deaths : Nat]
    /\ gOdd \subseteq Links
    /\ gMessy \subseteq GTasks /\ gStray \subseteq GTasks

\* What a verb leaves unset, and the places it does not come to.
Shaped(call) ==
    /\ call.at \in {"insert", "load", "drop", "move"} \cup InHand => call.id \in GTasks
    /\ call.at \in InHand => call.copy \in GRows
    /\ call.at \in {"insert", "load", "wire"} => call.verb \in Wirers
    /\ call.at = "drop" => call.verb \in {"delete", "deleteFlow"}
    /\ call.verb \in {"add", "create"} =>
         call.at \in {"insert", "wire"} /\ call.cut = {} /\ call.wire \subseteq LinksOf(call.id, GTasks)
    /\ call.verb = "update" =>
         /\ call.at \in {"load", "write", "wire"}
         /\ call.cut \cup call.wire \subseteq LinksOf(call.id, GTasks)
    /\ call.verb = "import" =>
         /\ call.at \in {"each", "write", "wire"} /\ call.cut = {}
         /\ call.at = "each" => call.todo # {} /\ call.id = NoGRow
         /\ call.at = "write" => call.id \notin call.todo
         /\ call.at = "wire" => call.todo = {}
    /\ call.at = "wire" => call.cut \cup call.wire # {}
    /\ call.verb \notin Wirers => call.cut = {} /\ call.wire = {}

\* The tasks a call holds: as WrittenBy, of a call's record.
Held(call) ==
    ({call.id} \ {NoGRow}) \cup {e[1] : e \in call.cut \cup call.wire}
      \cup (IF call.verb \in {"import", "deleteFlow"} THEN call.todo ELSE {})

\* The links a call is yet to mend: its rows stand, its edges do not.
Mends(call) ==
    IF call.at = "wire" THEN call.cut \cup call.wire
    ELSE IF call.verb = "import" THEN {e \in call.wire : e[1] \notin call.todo \cup {call.id}}
    ELSE {}

Differs(t, d) == (d \in gRow[t].deps) # (<<t, d>> \in gEdges)
Leafless(t) == \A d \in GTasks : <<t, d>> \notin gEdges

RowMatches(t) ==
    IF HasGRow(t)
    THEN \/ \E c \in Callers : gCall[c].at = "drop" /\ gCall[c].id = t
         \/ \A d \in GTasks : Differs(t, d) =>
              <<t, d>> \in gOdd \/ \E c \in Callers : <<t, d>> \in Mends(gCall[c])
    ELSE Leafless(t)

\* What a call knows of a task that it alone holds.
KnowsTask(call, t) ==
    /\ \A d \in GTasks : <<t, d>> \in Mends(call) =>
         HasGRow(t) /\ (<<t, d>> \in call.wire <=> d \in gRow[t].deps)
                    /\ (<<t, d>> \in call.cut <=> d \notin gRow[t].deps)
    /\ call.id = t =>
         /\ call.at = "drop" => Leafless(t)
         /\ call.verb = "update" /\ call.at \in {"load", "write"} =>
              /\ HasGRow(t)
              /\ call.cut = LinksOf(t, gRow[t].deps \ call.mine)
              /\ call.wire = LinksOf(t, call.mine \ gRow[t].deps)
              /\ call.at = "write" => call.copy.deps = call.mine
         /\ call.verb = "import" /\ call.at = "write" =>
              \A d \in GTasks : d \in call.copy.deps <=> <<t, d>> \in call.wire
         /\ call.verb \notin Wirers /\ call.at \in InHand =>
              HasGRow(t) /\ call.copy.deps = gRow[t].deps

EdgeSafe(call) == \A t \in Held(call) \ gMessy : KnowsTask(call, t)

Excused == gStray \cup gMessy
NotStarted == HasFlow /\ ~gFlow.ever

ClaimsSafely(call) ==
    \A t \in call.todo \cap FlowTasks : ~(call.shut /\ t \in call.mine) => t \in Excused

RunSafe(c, call) ==
    /\ call.at \in InHand /\ call.copy.flow =>
         /\ call.id \in FlowTasks \cup gMessy
         /\ NotStarted /\ call.copy.status = "running" => call.id \in Excused
    /\ c = Tick /\ NotStarted =>
         /\ call.at = "run" => call.todo \cap FlowTasks \subseteq call.mine \cup Excused
         /\ call.at \in {"claim", "claiming"} => ClaimsSafely(call)

FlowInv ==
    /\ HasFlow => (gFlow.started => gFlow.ever)
    /\ ~HasFlow => FlowTasks \subseteq Excused

GraphInv ==
    /\ GraphFrame
    /\ \A c \in Callers : Shaped(gCall[c]) /\ EdgeSafe(gCall[c]) /\ RunSafe(c, gCall[c])
    /\ Contested \subseteq gMessy
    /\ FlowInv /\ CreateIsNotRun
    /\ \A t \in GTasks \ gMessy : RowMatches(t)

-----------------------------------------------------------------------------
(***************************************************************************)
(* The tail implements the log it promises: its invariant says that the    *)
(* first event of those still to append is due.                            *)
(***************************************************************************)

\* A step that leaves the log alone and writes one row at most moves a mark.
LEMMA RowsMoveMarks ==
  ASSUME TailInv, TailInv', UNCHANGED <<stream, unlisted, logRows, chatRows, excused>>,
         runRow' = runRow \/ \E w \in Writers : WritesRow(w)
  PROVE  Diary!Next \/ UNCHANGED Diary!vars
<1>1. CASE Marks' = Marks
  BY <1>1 DEF Diary!vars
<1>2. CASE Marks' # Marks
  <2>1. runRow' # runRow
    BY <1>2 DEF Marks, HasRow
  <2>2. PICK w \in Writers : WritesRow(w)
    BY <2>1
  <2>a. PICK r, k : r = held[w].id /\ k = Marks'[r]
    OBVIOUS
  <2>3. r \in Workflows /\ runRow \in [Workflows -> Rows \cup {NoRow}]
    BY <2>a, <2>2 DEF WritesRow, Holds, TailInv, RowsSafe, RowTypeOK
  <2>4. \A s \in Workflows \ {r} : runRow'[s] = runRow[s]
    BY <2>a, <2>2, <2>3 DEF WritesRow
  <2>5. Marks' = [Marks EXCEPT ![r] = k]
    BY <2>a, <2>3, <2>4 DEF Marks, HasRow
  <2>6. k = NoRow \/ (HasRow(r)' /\ k = runRow'[r].cursor /\ Safe(r, k)')
    BY <2>a, <2>3 DEF Marks, HasRow, TailInv, RowsSafe
  <2>7. k \in Diary!Said \cup {0, NoRow}
    <3>1. Len(stream) \in Nat
      BY DEF TailInv, LogInType
    <3> QED
      BY <2>6, <3>1 DEF Safe, Diary!Said
  <2>8. k = NoRow \/ \A e \in Diary!Said : stream[e] = r /\ e <= k => Diary!Settled(e)
    BY <2>6 DEF Safe, Told, Emitted, Diary!Said, Diary!Settled
  <2>9. Diary!Mark(r, k)
    BY <2>5, <2>8 DEF Diary!Mark
  <2> QED
    BY <2>3, <2>7, <2>9 DEF Diary!Next
<1> QED
  BY <1>1, <1>2

\* The first of what is still to append is due: all of its workflow that was
\* said before is told, or would be among the rest and come first.
LEMMA FirstIsDue ==
  ASSUME TailInv, drain.at = "append", drain.todo # {}
  PROVE  /\ Min(drain.todo) \in Emitted /\ Min(drain.todo) \in EventIds
         /\ Diary!Due(Min(drain.todo))
<1> DEFINE e == Min(drain.todo)
<1>1. Len(stream) \in Nat /\ Len(stream) <= MaxCursor /\ Emitted \subseteq EventIds
  BY MaxCursorAssumption DEF TailInv, LogInType, Emitted, EventIds
<1>2. drain.todo \subseteq drain.batch /\ drain.batch \subseteq Emitted
  BY DEF TailInv, AppendsSafe, BatchSafe
<1>3. drain.todo \in SUBSET Nat
  BY <1>1, <1>2 DEF Emitted
<1>4. e \in drain.todo /\ \A d \in drain.todo : e <= d
  BY <1>3, LeastThereIs
<1>5. stream[e] \in Listed /\ e <= Max(drain.batch) /\ Max(drain.batch) \in Emitted
  BY <1>2, <1>4 DEF TailInv, AppendsSafe, BatchSafe
<1>6. ASSUME NEW d \in Emitted, d < e, stream[d] = stream[e] PROVE Told(d)
  <2>1. d \in Nat /\ e \in Nat /\ Max(drain.batch) \in Nat
    BY <1>1, <1>2, <1>4, <1>5 DEF Emitted
  <2> HIDE DEF e
  <2>2. d <= Max(drain.batch) /\ d \notin drain.todo
    BY <1>4, <1>5, <1>6, <2>1
  <2> QED
    BY <1>5, <1>6, <2>2 DEF TailInv, BatchSafe, Pending
<1> QED
  BY <1>1, <1>2, <1>4, <1>6 DEF Diary!Due, Diary!Said, Diary!Settled, Told, Emitted

\* An append is the line, or the bubble it went without, or neither.
LEMMA AppendFollows ==
  ASSUME TailInv, chatRows \in [EventIds -> Nat], NEW mirrors \in BOOLEAN, TailAppends(mirrors)
  PROVE  Diary!Next \/ UNCHANGED Diary!vars
<1>a. PICK e : e = Min(drain.todo)
  OBVIOUS
<1>1. e \in Emitted /\ e \in EventIds /\ Diary!Due(e)
  BY <1>a, FirstIsDue DEF TailAppends, DrainAt
<1>2. /\ logRows' = AppendsOnce(logRows, e)
      /\ chatRows' \in {chatRows, AppendsOnce(chatRows, e)}
      /\ UNCHANGED <<rowVars, stream, unlisted, excused>>
  BY <1>a DEF TailAppends, MirrorsChat
<1>3. Marks' = Marks
  BY <1>2 DEF Marks, HasRow, rowVars
<1>4. ASSUME NEW rows \in [EventIds -> Nat]
      PROVE  \/ AppendsOnce(rows, e) = rows /\ rows[e] > 0
             \/ rows[e] = 0 /\ AppendsOnce(rows, e) = [rows EXCEPT ![e] = 1]
  <2>1. \A d \in EventIds : AppendsOnce(rows, e)[d] = IF d = e /\ rows[e] = 0 THEN 1 ELSE rows[d]
    BY DEF AppendsOnce
  <2>2. AppendsOnce(rows, e) = [d \in EventIds |-> AppendsOnce(rows, e)[d]]
    BY DEF AppendsOnce
  <2>3. rows = [d \in EventIds |-> rows[d]] /\ rows[e] \in Nat
    BY <1>1
  <2>4. CASE rows[e] = 0
    BY <2>4 DEF AppendsOnce
  <2>5. CASE rows[e] > 0
    BY <2>1, <2>2, <2>3, <2>5
  <2> QED
    BY <2>3, <2>4, <2>5
<1>5. logRows \in [EventIds -> Nat]
  BY DEF TailInv, LogInType
<1>6. \/ logRows' = logRows /\ logRows[e] > 0
      \/ Diary!Once(logRows, e)
  BY <1>2, <1>4, <1>5 DEF Diary!Once
<1>7. chatRows' = chatRows \/ Diary!Once(chatRows, e)
  BY <1>2, <1>4 DEF Diary!Once
<1>8. UNCHANGED Diary!vars \/ Diary!Write(e) \/ Diary!Mirror(e)
  BY <1>1, <1>2, <1>3, <1>6, <1>7 DEF Diary!vars, Diary!Write, Diary!Mirror
<1>9. e \in Diary!Said
  BY <1>1 DEF Diary!Said, Emitted
<1> QED
  BY <1>8, <1>9 DEF Diary!Next

\* What a drain drops may be lost: it is too far back, of an agent that left,
\* or of a workflow that there is not, or its append failed.
LEMMA DropFollows ==
  ASSUME TailInv, TailDrains \/ TailResolves \/ TailAppendFails
  PROVE  Diary!Next \/ UNCHANGED Diary!vars
<1>1. UNCHANGED <<stream, unlisted, logRows, chatRows>> /\ Marks' = Marks
  BY DEF TailDrains, TailResolves, TailAppendFails, rowVars, Marks, HasRow
<1>2. Len(stream) \in Nat
  BY DEF TailInv, LogInType
<1>3. ASSUME NEW S \in SUBSET Emitted, \A e \in S : Diary!MayBeLost(e), excused' = excused \cup S
      PROVE  Diary!Next
  <2>1. Diary!Lose(S)
    BY <1>1, <1>3 DEF Diary!Lose
  <2> QED
    BY <1>3, <2>1 DEF Diary!Next, Diary!Said, Emitted
<1>4. CASE TailDrains
  <2> DEFINE S == Newer \ Newest(Newer)
  <2>1. S \subseteq Emitted /\ excused' = excused \cup S
    BY <1>4 DEF TailDrains, Newer
  <2>2. \A e \in S : e + DrainCap <= Len(stream)
    BY <1>2, DrainCapAssumption DEF Newer, Newest, Emitted
  <2> QED
    BY <1>3, <2>1, <2>2 DEF Diary!MayBeLost
<1>5. CASE TailResolves
  <2> DEFINE S == (drain.batch \cap unlisted)
                    \cup {e \in drain.batch \ unlisted : ~HasRow(stream[e])}
  <2>1. drain.batch \subseteq Emitted
    BY <1>5 DEF TailResolves, DrainAt, TailInv, BatchSafe
  <2>2. S \subseteq Emitted /\ excused' = excused \cup S
    BY <1>5, <2>1 DEF TailResolves
  <2>3. \A e \in S : e \in unlisted \/ Marks[stream[e]] = NoRow
    <3>1. \A e \in Emitted : stream[e] \in Workflows
      BY DEF TailInv, LogInType, Emitted
    <3> QED
      BY <2>1, <3>1 DEF Marks
  <2> HIDE DEF S
  <2> QED
    BY <1>3, <2>2, <2>3 DEF Diary!MayBeLost
<1>6. CASE TailAppendFails
  <2>1. Min(drain.todo) \in Emitted /\ Diary!Due(Min(drain.todo))
    BY <1>6, FirstIsDue DEF TailAppendFails, DrainAt
  <2>2. Diary!Fail(Min(drain.todo))
    BY <1>1, <1>6, <2>1 DEF TailAppendFails, Diary!Fail
  <2> QED
    BY <2>1, <2>2 DEF Diary!Next, Diary!Said, Emitted
<1> QED
  BY <1>4, <1>5, <1>6

\* The other steps say something, write a row, or leave the log alone.
LEMMA OthersFollow ==
  ASSUME TailInv, TailInv', TailNext,
         ~TailDrains, ~TailResolves, ~TailAppendFails, \A mirrors \in BOOLEAN : ~TailAppends(mirrors)
  PROVE  Diary!Next \/ UNCHANGED Diary!vars
<1>1. ASSUME UNCHANGED <<stream, unlisted, logRows, chatRows, excused>>,
             runRow' = runRow \/ \E w \in Writers : WritesRow(w)
      PROVE  Diary!Next \/ UNCHANGED Diary!vars
  BY <1>1, RowsMoveMarks
<1>2. CASE TailBegins \/ TailWritten \/ TailAdvanced \/ TailEnds
  BY <1>1, <1>2 DEF TailBegins, TailWritten, TailAdvanced, TailEnds, rowVars
<1>3. ASSUME NEW r \in Workflows, TailAdvances(r) \/ TailForwards(r)
      PROVE  Diary!Next \/ UNCHANGED Diary!vars
  BY <1>1, <1>3 DEF TailAdvances, TailForwards, Advances, LoadsRow, rowVars
<1>4. CASE SupervisorWrites \/ OperatorsWriteRows
  BY <1>1, <1>4 DEF SupervisorWrites, OperatorsWriteRows, LifecycleLoads, OperatorWrites, LoadsRow,
                    tailVars, Writers
<1>5. CASE TailDies
  BY <1>1, <1>5 DEF TailDies, RowsLost
<1>6. ASSUME NEW r \in Workflows, TasksSettle(r) PROVE Diary!Next \/ UNCHANGED Diary!vars
  BY <1>1, <1>6 DEF TasksSettle, rowVars
<1>7. ASSUME NEW r \in Workflows, AgentEmits(r) \/ AgentsLeave(r)
      PROVE  Diary!Next \/ UNCHANGED Diary!vars
  <2>1. Marks' = Marks
    BY <1>7 DEF AgentEmits, AgentsLeave, rowVars, Marks, HasRow
  <2>2. CASE AgentEmits(r)
    <3>1. Diary!Say(r)
      BY <2>1, <2>2 DEF AgentEmits, Diary!Say
    <3> QED
      BY <3>1 DEF Diary!Next
  <2>3. CASE AgentsLeave(r)
    <3>1. Diary!Leave(EventsOf(r)) /\ EventsOf(r) \subseteq Diary!Said
      BY <2>1, <2>3 DEF AgentsLeave, EventsOf, Emitted, Diary!Leave, Diary!Said
    <3> QED
      BY <3>1 DEF Diary!Next
  <2> QED
    BY <1>7, <2>2, <2>3
<1> QED
  BY <1>2, <1>3, <1>4, <1>5, <1>6, <1>7 DEF TailNext, TailStep

\* The tail implements the log that its readers are promised, for any
\* workflows, caps and mishaps: drains, deaths and torn rows included.
\* (tail_hcom; append_log_once; advance_cursor)
THEOREM ImplementsRunLog == TailSpec => FollowsRunLog
<1> DEFINE Chat == chatRows \in [EventIds -> Nat]
<1>1. TailInit => Chat /\ Diary!Init
  <2> SUFFICES ASSUME TailInit PROVE Chat /\ Diary!Init
    OBVIOUS
  <2>1. \A r \in Workflows : Marks[r] = 0 \/ Marks[r] = NoRow
    BY DEF TailInit, RowInit, Marks, HasRow, Created, StopRun
  <2>2. Marks \in [Workflows -> {0, NoRow}]
    BY <2>1 DEF Marks
  <2> QED
    BY <2>2 DEF TailInit, Diary!Init, Diary!Ids, EventIds
<1>2. Chat /\ [TailNext]_<<rowVars, tailVars>> => Chat'
  <2> SUFFICES ASSUME Chat, [TailNext]_<<rowVars, tailVars>> PROVE Chat'
    OBVIOUS
  <2>1. ASSUME NEW mirrors \in BOOLEAN, TailAppends(mirrors) PROVE Chat'
    BY <2>1 DEF TailAppends, MirrorsChat, AppendsOnce
  <2>2. CASE \A mirrors \in BOOLEAN : ~TailAppends(mirrors)
    <3>1. chatRows' = chatRows
      BY <2>2 DEF TailNext, TailStep, TailBegins, TailDrains, TailResolves, TailAppendFails,
        TailWritten, TailAdvanced, TailAdvances, TailForwards, TailEnds, SupervisorWrites,
        OperatorsWriteRows, TailDies, AgentEmits, AgentsLeave, TasksSettle, tailVars
    <3> QED
      BY <3>1
  <2> QED
    BY <2>1, <2>2
<1>3. TailInv /\ TailInv' /\ Chat /\ [TailNext]_<<rowVars, tailVars>> => [Diary!Next]_(Diary!vars)
  <2> SUFFICES ASSUME TailInv, TailInv', Chat, [TailNext]_<<rowVars, tailVars>>
               PROVE  Diary!Next \/ UNCHANGED Diary!vars
    OBVIOUS
  <2>1. CASE TailNext
    BY <2>1, AppendFollows, DropFollows, OthersFollow
  <2>2. CASE UNCHANGED <<rowVars, tailVars>>
    BY <2>2 DEF rowVars, tailVars, Marks, HasRow, Diary!vars
  <2> QED
    BY <2>1, <2>2
<1> HIDE DEF Chat
<1> QED
  BY <1>1, <1>2, <1>3, TailInductive, TailBeginsSafe, PTL DEF TailSpec, FollowsRunLog, Diary!Spec

-----------------------------------------------------------------------------
LEMMA ForemostIn == \A S : S # {} => Foremost(S) \in S
BY DEF Foremost

\* What a call holds, said without its sets of links.
LEMMA HeldBy ==
  ASSUME NEW call \in CallRecords, NEW t \in GTasks
  PROVE  /\ t \in Held(call) <=>
              \/ call.id = t
              \/ \E d \in GTasks : <<t, d>> \in call.cut \cup call.wire
              \/ call.verb \in {"import", "deleteFlow"} /\ t \in call.todo
         /\ \A d \in GTasks : <<t, d>> \in Mends(call) => t \in Held(call)
<1>1. call.cut \subseteq GTasks \X GTasks /\ call.wire \subseteq GTasks \X GTasks
  BY DEF CallRecords, Links
<1>2. t # NoGRow
  BY GraphConstants
<1>3. t \in {e[1] : e \in call.cut \cup call.wire} <=> \E d \in GTasks : <<t, d>> \in call.cut \cup call.wire
  <2>1. ASSUME NEW e \in call.cut \cup call.wire, t = e[1]
        PROVE  \E d \in GTasks : <<t, d>> \in call.cut \cup call.wire
    <3>1. PICK a \in GTasks, d \in GTasks : e = <<a, d>>
      BY <1>1
    <3> QED
      BY <2>1, <3>1
  <2>2. ASSUME NEW d \in GTasks, <<t, d>> \in call.cut \cup call.wire
        PROVE  t \in {e[1] : e \in call.cut \cup call.wire}
    BY <2>2
  <2> QED
    BY <2>1, <2>2
<1>4. t \in Held(call) <=>
        \/ call.id = t
        \/ \E d \in GTasks : <<t, d>> \in call.cut \cup call.wire
        \/ call.verb \in {"import", "deleteFlow"} /\ t \in call.todo
  BY <1>2, <1>3 DEF Held
<1>5. ASSUME NEW d \in GTasks, <<t, d>> \in Mends(call) PROVE t \in Held(call)
  BY <1>4, <1>5 DEF Mends
<1> QED
  BY <1>4, <1>5

LEMMA HoldsAlone ==
  ASSUME GraphInv, NEW c \in Callers, NEW d \in Callers, c # d,
         NEW t \in GTasks, t \in Held(gCall[c]) \cap Held(gCall[d])
  PROVE  t \in gMessy
BY DEF GraphInv, Contested, WrittenBy, Held

\* A task that a step leaves as it is, but for edges to a task it deletes.
KeepsTask(t) ==
    /\ HasGRow(t)' <=> HasGRow(t)
    /\ HasGRow(t) => gRow'[t].deps = gRow[t].deps
    /\ \A d \in GTasks :
         /\ <<t, d>> \in gEdges' => <<t, d>> \in gEdges
         /\ <<t, d>> \in gEdges /\ <<t, d>> \notin gEdges' => <<t, d>> \in gOdd'
         /\ <<t, d>> \in gOdd => <<t, d>> \in gOdd'

Frames ==
    /\ gRow' \in [GTasks -> GRows \cup {NoGRow}]
    /\ gEdges' \subseteq Links
    /\ gFlow' \in GFlows \cup {NoGRow}
    /\ gToCome' \in [asked : SUBSET Verbs, requests : Nat, deaths : Nat]
    /\ gOdd' \subseteq Links
    /\ gStray' \subseteq GTasks /\ gStray \subseteq gStray'

\* What a task's other holder knows of it stays true.
LEMMA StillKnown ==
  ASSUME NEW call, NEW t \in GTasks, KeepsTask(t), KnowsTask(call, t)
  PROVE  KnowsTask(call, t)'
BY DEF KeepsTask, KnowsTask, Leafless, HasGRow

\* A row that a step leaves matches on, if no call lets go of it.
LEMMA MatchStays ==
  ASSUME NEW t \in GTasks, KeepsTask(t), RowMatches(t),
         \A a \in Callers :
           /\ gCall[a].at = "drop" /\ gCall[a].id = t => gCall'[a].at = "drop" /\ gCall'[a].id = t
           /\ \A d \in GTasks : <<t, d>> \in Mends(gCall[a]) => <<t, d>> \in Mends(gCall'[a])
  PROVE  RowMatches(t)'
<1>1. CASE ~HasGRow(t)
  BY <1>1 DEF KeepsTask, RowMatches, Leafless
<1>2. ASSUME HasGRow(t), NEW a \in Callers, gCall[a].at = "drop", gCall[a].id = t
      PROVE  RowMatches(t)'
  BY <1>2 DEF RowMatches, KeepsTask
<1>3. ASSUME HasGRow(t),
             \A d \in GTasks : Differs(t, d) =>
               <<t, d>> \in gOdd \/ \E a \in Callers : <<t, d>> \in Mends(gCall[a])
      PROVE  RowMatches(t)'
  <2>1. ASSUME NEW d \in GTasks, Differs(t, d)', <<t, d>> \notin gOdd'
        PROVE  \E a \in Callers : <<t, d>> \in Mends(gCall'[a])
    <3>1. Differs(t, d) /\ <<t, d>> \notin gOdd
      BY <1>3, <2>1 DEF KeepsTask, Differs
    <3> QED
      BY <1>3, <3>1
  <2>2. HasGRow(t)'
    BY <1>3 DEF KeepsTask
  <2> QED
    BY <2>1, <2>2 DEF RowMatches
<1> QED
  BY <1>1, <1>2, <1>3 DEF RowMatches

\* A caller's step keeps the invariant if it does for the tasks it holds and
\* leaves the others as they are.
LEMMA StepKeeps ==
  ASSUME GraphInv, NEW c \in Callers, NEW call \in CallRecords, Becomes(c, call),
         gMessy' = gMessy \cup Contested', Frames,
         Shaped(call),
         \A t \in Held(call) \ gMessy' : KnowsTask(call, t)',
         RunSafe(c, call)', \A d \in Callers \ {c} : RunSafe(d, gCall[d])',
         FlowInv', CreateIsNotRun',
         \A t \in GTasks \ gMessy' : t \notin Held(gCall[c]) \cup Held(call) => KeepsTask(t),
         \A t \in GTasks \ gMessy' : t \in Held(gCall[c]) \cup Held(call) => RowMatches(t)'
  PROVE  GraphInv'
<1>1. /\ gCall' \in [Callers -> CallRecords] /\ gCall'[c] = call
      /\ \A d \in Callers \ {c} : gCall'[d] = gCall[d]
      /\ \A d \in Callers : gCall[d] \in CallRecords
  BY DEF Becomes, GraphInv, GraphFrame
<1>2. Contested' \subseteq GTasks /\ gMessy' \subseteq GTasks /\ gMessy \subseteq gMessy'
  BY DEF Contested, GraphInv, GraphFrame
<1>3. GraphFrame'
  BY <1>1, <1>2 DEF Frames, GraphFrame
<1>4. ASSUME NEW d \in Callers \ {c}, NEW t \in GTasks \ gMessy', t \in Held(gCall[d])
      PROVE  t \notin Held(gCall[c]) \cup Held(call) /\ KeepsTask(t)
  <2>1. t \notin Held(gCall[c])
    BY <1>2, <1>4, HoldsAlone
  <2>2. t \notin Held(call)
    <3>1. SUFFICES ASSUME t \in Held(call) PROVE FALSE
      OBVIOUS
    <3>2. t \in Held(gCall'[c]) \cap Held(gCall'[d])
      BY <1>1, <1>4, <3>1
    <3>3. t \in Contested'
      BY <3>2 DEF Contested, WrittenBy, Held
    <3> QED
      BY <3>3
  <2> QED
    BY <2>1, <2>2
<1>5. ASSUME NEW d \in Callers
      PROVE  Shaped(gCall'[d]) /\ EdgeSafe(gCall[d])' /\ RunSafe(d, gCall[d])'
  <2>1. CASE d = c
    <3>1. gCall'[d] = call
      BY <1>1, <2>1
    <3>2. ASSUME NEW t \in Held(gCall'[d]) \ gMessy' PROVE KnowsTask(gCall[d], t)'
      <4>1. KnowsTask(call, t)'
        BY <3>1, <3>2
      <4> QED
        BY <3>1, <4>1 DEF KnowsTask, HasGRow, Leafless
    <3>3. RunSafe(d, gCall[d])'
      BY <2>1, <3>1 DEF RunSafe
    <3> QED
      BY <3>1, <3>2, <3>3 DEF EdgeSafe
  <2>2. CASE d # c
    <3>1. PICK k \in CallRecords : k = gCall[d] /\ gCall'[d] = k
      BY <1>1, <2>2
    <3>2. Shaped(k) /\ EdgeSafe(k)
      BY <3>1 DEF GraphInv, EdgeSafe
    <3>3. ASSUME NEW t \in Held(k) \ gMessy' PROVE KnowsTask(gCall[d], t)'
      <4>1. t \in GTasks
        BY GraphConstants DEF Held, CallRecords, Links
      <4>2. KnowsTask(k, t)'
        BY <1>2, <1>4, <2>2, <3>1, <3>2, <3>3, <4>1, StillKnown DEF EdgeSafe
      <4> QED
        BY <3>1, <4>2 DEF KnowsTask, HasGRow, Leafless
    <3> QED
      BY <2>2, <3>1, <3>2, <3>3 DEF EdgeSafe
  <2> QED
    BY <2>1, <2>2
<1>6. ASSUME NEW t \in GTasks \ gMessy' PROVE RowMatches(t)'
  <2>1. CASE t \in Held(gCall[c]) \cup Held(call)
    BY <2>1
  <2>2. CASE t \notin Held(gCall[c]) \cup Held(call)
    <3>1. KeepsTask(t) /\ RowMatches(t)
      BY <1>2, <2>2 DEF GraphInv
    <3>2. ASSUME NEW a \in Callers
          PROVE  /\ gCall[a].at = "drop" /\ gCall[a].id = t => gCall'[a].at = "drop" /\ gCall'[a].id = t
                 /\ \A d \in GTasks : <<t, d>> \in Mends(gCall[a]) => <<t, d>> \in Mends(gCall'[a])
      <4>1. CASE a = c
        BY <1>1, <2>2, <4>1, HeldBy
      <4>2. CASE a # c
        BY <1>1, <4>2
      <4> QED
        BY <4>1, <4>2
    <3> QED
      BY <3>1, <3>2, MatchStays
  <2> QED
    BY <2>1, <2>2
<1> QED
  BY <1>2, <1>3, <1>5, <1>6, <1>1 DEF GraphInv

\* A step that writes neither rows nor edges.
LEMMA RowsStayKeeps ==
  ASSUME GraphInv, NEW c \in Callers, NEW call \in CallRecords, Becomes(c, call),
         gMessy' = gMessy \cup Contested', UNCHANGED <<gRow, gEdges, gOdd>>, Frames,
         Shaped(call), \A t \in Held(call) \ gMessy' : KnowsTask(call, t),
         RunSafe(c, call)', \A d \in Callers \ {c} : RunSafe(d, gCall[d])',
         FlowInv', CreateIsNotRun',
         gCall[c].at # "drop", Mends(gCall[c]) \subseteq Mends(call)
  PROVE  GraphInv'
<1>1. /\ gCall' \in [Callers -> CallRecords] /\ gCall'[c] = call
      /\ \A d \in Callers \ {c} : gCall'[d] = gCall[d]
      /\ gMessy \subseteq gMessy'
  BY DEF Becomes, GraphInv, GraphFrame
<1>2. ASSUME NEW t \in Held(call) \ gMessy' PROVE KnowsTask(call, t)'
  <2>1. KnowsTask(call, t)
    BY <1>2
  <2> QED
    BY <2>1 DEF KnowsTask, HasGRow, Leafless
<1>3. ASSUME NEW t \in GTasks PROVE KeepsTask(t)
  BY DEF KeepsTask, HasGRow
<1>4. ASSUME NEW t \in GTasks \ gMessy' PROVE RowMatches(t)'
  <2>1. RowMatches(t) /\ KeepsTask(t)
    BY <1>1, <1>3 DEF GraphInv
  <2>2. ASSUME NEW a \in Callers
        PROVE  /\ gCall[a].at = "drop" /\ gCall[a].id = t => gCall'[a].at = "drop" /\ gCall'[a].id = t
               /\ \A d \in GTasks : <<t, d>> \in Mends(gCall[a]) => <<t, d>> \in Mends(gCall'[a])
    <3>1. CASE a = c
      BY <1>1, <3>1
    <3>2. CASE a # c
      BY <1>1, <3>2
    <3> QED
      BY <3>1, <3>2
  <2> QED
    BY <2>1, <2>2, MatchStays
<1> QED
  BY <1>2, <1>3, <1>4, StepKeeps

\* What no other caller does to a copy or to the tick's list.
LEMMA OthersRun ==
  ASSUME GraphInv, NEW c \in Callers, NEW call, Becomes(c, call), Frames,
         gMessy' = gMessy \cup Contested', NotStarted' => NotStarted,
         \A t \in GTasks \ gMessy' : t \notin Held(gCall[c]) => (t \in FlowTasks <=> t \in FlowTasks'),
         NotStarted' /\ c # Tick => ToClaim \cap FlowTasks' \subseteq FlowTasks \cup Excused'
  PROVE  \A d \in Callers \ {c} : RunSafe(d, gCall[d])'
<1> SUFFICES ASSUME NEW d \in Callers \ {c} PROVE RunSafe(d, gCall[d])'
  OBVIOUS
<1>1. PICK k \in CallRecords : k = gCall[d] /\ gCall'[d] = k
  BY DEF GraphInv, GraphFrame, Becomes
<1>2. RunSafe(d, k) /\ Excused \subseteq Excused'
  BY <1>1 DEF GraphInv, Frames, Excused
<1>3. k.at \in InHand /\ k.copy.flow => k.id \in FlowTasks' \cup gMessy'
  <2>1. SUFFICES ASSUME k.at \in InHand, k.copy.flow, k.id \notin gMessy'
                 PROVE  k.id \in FlowTasks'
    OBVIOUS
  <2>2. k.id \in FlowTasks
    BY <1>2, <2>1 DEF RunSafe
  <2>3. k.id \in GTasks /\ k.id \in Held(k)
    BY <2>2, HeldBy DEF FlowTasks
  <2>4. k.id \notin Held(gCall[c])
    BY <1>1, <2>1, <2>3, HoldsAlone
  <2> QED
    BY <2>1, <2>2, <2>3, <2>4
<1>4. d = Tick /\ NotStarted' /\ k.at \in {"run", "claim", "claiming"} =>
        k.todo \cap FlowTasks' \subseteq FlowTasks \cup Excused'
  BY <1>1 DEF ToClaim
<1>5. RunSafe(d, k)'
  BY <1>2, <1>3, <1>4 DEF RunSafe, ClaimsSafely
<1> QED
  BY <1>1, <1>5 DEF RunSafe, ClaimsSafely

\* A step that only moves a call on.
LEMMA CallKeeps ==
  ASSUME GraphInv, NEW c \in Callers, NEW call \in CallRecords, Becomes(c, call),
         gMessy' = gMessy \cup Contested', UNCHANGED <<gRow, gEdges, gFlow, ghosts>>,
         gToCome' \in [asked : SUBSET Verbs, requests : Nat, deaths : Nat],
         Shaped(call), RunSafe(c, call),
         \A t \in Held(call) \ gMessy' : KnowsTask(call, t),
         gCall[c].at # "drop", Mends(gCall[c]) \subseteq Mends(call)
  PROVE  GraphInv'
<1> USE DEF ghosts
<1>1. Frames
  BY DEF Frames, GraphInv, GraphFrame
<1>2. FlowTasks' = FlowTasks /\ Excused \subseteq Excused' /\ (NotStarted' <=> NotStarted)
      /\ (HasFlow' <=> HasFlow)
  BY DEF FlowTasks, HasGRow, Excused, NotStarted, HasFlow
<1>3. RunSafe(c, call)'
  BY <1>2 DEF RunSafe, ClaimsSafely
<1>4. \A d \in Callers \ {c} : RunSafe(d, gCall[d])'
  BY <1>1, <1>2, OthersRun
<1>5. FlowInv' /\ CreateIsNotRun'
  BY <1>2 DEF FlowInv, CreateIsNotRun, GraphInv, Where, HasGRow, NotStarted, Excused
<1> QED
  BY <1>1, <1>3, <1>4, <1>5, RowsStayKeeps

ToComes == [asked : SUBSET Verbs, requests : Nat, deaths : Nat]
CallStep == gMessy' = gMessy \cup Contested' /\ UNCHANGED <<gRow, gEdges, gFlow, ghosts>>

\* The record of a call and what it mends at the places where nothing is.
LEMMA CallHas ==
  ASSUME GraphInv, NEW c \in Callers
  PROVE  /\ gCall[c] \in CallRecords /\ Shaped(gCall[c]) /\ EdgeSafe(gCall[c])
         /\ RunSafe(c, gCall[c]) /\ gToCome \in ToComes
         /\ gCall[c].at \notin {"each", "write", "wire"} => Mends(gCall[c]) = {}
         /\ gCall[c].at # "wire" /\ gCall[c].verb # "import" => Mends(gCall[c]) = {}
BY DEF GraphInv, GraphFrame, Mends, Shaped, ToComes

LEMMA RequestTaken ==
  ASSUME GraphInv, NEW c, NEW verb, Requests(c, verb)
  PROVE  /\ c \in Authors /\ c \in Callers /\ c # Tick /\ gCall[c].at = "idle" /\ verb \in Verbs
         /\ Mends(gCall[c]) = {} /\ gToCome' \in ToComes /\ gCall[c].at # "drop"
<1>1. c \in Authors /\ c \in Callers /\ c # Tick /\ gCall[c].at = "idle"
  BY GraphConstants DEF Requests, CallAt, Callers, Tick
<1>2. gToCome \in ToComes /\ gToCome.requests > 0
      /\ gToCome' = [gToCome EXCEPT !.requests = @ - 1] /\ verb \in gToCome.asked
  BY <1>1, CallHas DEF Requests
<1> QED
  BY <1>1, <1>2, CallHas DEF ToComes

LEMMA NoCallHas ==
  /\ NoGCall \in CallRecords /\ NoGCall.at = "idle" /\ NoGCall.verb \notin Wirers
  /\ NoGCall.cut = {} /\ NoGCall.wire = {} /\ NoGCall.todo = {}
  /\ NoGCall.id = NoGRow /\ NoGCall.verb \notin {"import", "deleteFlow"}
  /\ Mends(NoGCall) = {} /\ Held(NoGCall) = {}
BY DEF NoGCall, CallRecords, Places, Tick, Wirers, Mends, Held

\* Calls that have no row in hand and nothing to wire.
LEMMA PlainKeeps ==
  ASSUME GraphInv, NEW c \in Callers, NEW call \in CallRecords, Becomes(c, call), CallStep,
         gToCome' \in ToComes, Mends(gCall[c]) = {}, gCall[c].at # "drop",
         call.verb \notin Wirers, call.cut = {}, call.wire = {},
         call.at \notin InHand \cup {"insert", "load", "drop", "wire"},
         call.at = "move" => call.id \in GTasks,
         call.at \in {"run", "claim"} => RunSafe(c, call)
  PROVE  GraphInv'
<1>1. Shaped(call)
  BY DEF Shaped, Wirers, InHand
<1>2. RunSafe(c, call)
  BY DEF RunSafe, InHand
<1>3. \A t : KnowsTask(call, t)
  BY DEF KnowsTask, Mends, Wirers, InHand
<1> QED
  BY <1>1, <1>2, <1>3, CallKeeps DEF CallStep, ToComes

LEMMA CallEnds ==
  ASSUME GraphInv, NEW c \in Callers, Ends(c), CallStep, gToCome' \in ToComes,
         Mends(gCall[c]) = {}, gCall[c].at # "drop"
  PROVE  GraphInv'
BY NoCallHas, PlainKeeps DEF Ends, InHand

\* A row in hand that was read just now, with its dependencies and workflow.
LEMMA HoldKeeps ==
  ASSUME GraphInv, NEW c \in Callers, NEW call \in CallRecords, Becomes(c, call), CallStep,
         gToCome' \in ToComes, Mends(gCall[c]) = {}, gCall[c].at # "drop",
         call.verb \notin Wirers, call.cut = {}, call.wire = {},
         call.at \in InHand, call.id \in GTasks, HasGRow(call.id),
         call.copy \in GRows, call.copy.deps = gRow[call.id].deps,
         call.copy.flow = gRow[call.id].flow,
         NotStarted /\ call.copy.flow /\ call.copy.status = "running" => call.id \in Excused,
         NotStarted /\ call.at = "claiming" => ClaimsSafely(call)
  PROVE  GraphInv'
<1>1. Shaped(call)
  BY DEF Shaped, Wirers, InHand
<1>2. RunSafe(c, call)
  BY DEF RunSafe, InHand, FlowTasks
<1>3. \A t : KnowsTask(call, t)
  BY DEF KnowsTask, Mends, Wirers, InHand
<1> QED
  BY <1>1, <1>2, <1>3, CallKeeps DEF CallStep, ToComes

\* The reads of the verbs that move a task: their row, or on to the next.
LEMMA SkipKeeps ==
  ASSUME GraphInv, NEW c \in Callers, NEW t, Skips(c, t), CallStep, gToCome' \in ToComes,
         gCall[c].at \in {"each", "move"}, gCall[c].verb \notin Wirers
  PROVE  GraphInv'
<1>1. gCall[c] \in CallRecords /\ Shaped(gCall[c]) /\ Mends(gCall[c]) = {}
  BY CallHas DEF Wirers
<1>2. CASE Ends(c)
  BY <1>1, <1>2, CallEnds
<1>3. CASE Becomes(c, [gCall[c] EXCEPT !.todo = @ \ {t}])
  <2> DEFINE call == [gCall[c] EXCEPT !.todo = @ \ {t}]
  <2>1. /\ call \in CallRecords /\ call.at = gCall[c].at /\ call.verb = gCall[c].verb
        /\ call.id = gCall[c].id /\ call.cut = {} /\ call.wire = {}
    BY <1>1 DEF CallRecords, Shaped
  <2>2. call.at = "move" => call.id \in GTasks
    BY <1>1, <2>1 DEF Shaped
  <2>3. Becomes(c, call)
    BY <1>3
  <2> HIDE DEF call
  <2> QED
    BY <1>1, <2>1, <2>2, <2>3, PlainKeeps DEF InHand
<1> QED
  BY <1>2, <1>3 DEF Skips

LEMMA HoldsRowKeeps ==
  ASSUME GraphInv, NEW c \in Callers, NEW t \in GTasks, NEW row \in GRows, HoldsRow(c, t, row),
         CallStep, gToCome' \in ToComes, gCall[c].at \in {"each", "move"},
         gCall[c].verb \notin Wirers, HasGRow(t), row.deps = gRow[t].deps,
         row.flow = gRow[t].flow, row.status # "running"
  PROVE  GraphInv'
<1>1. gCall[c] \in CallRecords /\ Shaped(gCall[c]) /\ Mends(gCall[c]) = {}
  BY CallHas DEF Wirers
<1> DEFINE call == [gCall[c] EXCEPT !.at = "write", !.id = t, !.copy = row, !.todo = @ \ {t}]
<1>2. /\ call \in CallRecords /\ call.at = "write" /\ call.verb = gCall[c].verb
      /\ call.id = t /\ call.copy = row /\ call.cut = {} /\ call.wire = {}
  BY <1>1 DEF CallRecords, Shaped, Places
<1>3. Becomes(c, call)
  BY DEF HoldsRow
<1> HIDE DEF call
<1> QED
  BY <1>1, <1>2, <1>3, HoldKeeps DEF InHand

Moves == {"Ready", "Block", "Revive", "Reclaim"}

LEMMA RowMoved ==
  ASSUME GraphInv, NEW t \in GTasks, HasGRow(t)
  PROVE  /\ gRow[t] \in GRows
         /\ \A s \in GStatus :
              LET row == [gRow[t] EXCEPT !.status = s] IN
                row \in GRows /\ row.deps = gRow[t].deps /\ row.flow = gRow[t].flow /\ row.status = s
<1>1. gRow[t] \in GRows
  BY DEF GraphInv, GraphFrame, HasGRow
<1> QED
  BY <1>1 DEF GRows

LEMMA TransitionKeeps ==
  ASSUME GraphInv, NEW c \in Callers, NEW t \in GTasks, NEW kind \in Moves,
         Transitions(c, t, kind), CallStep, gToCome' \in ToComes,
         gCall[c].at \in {"each", "move"}, gCall[c].verb \notin Wirers
  PROVE  GraphInv'
<1>1. Target[kind] \in GStatus \ {"running"}
  BY DEF Moves, Target, Kind, GStatus, Status
<1>2. CASE HasGRow(t) /\ HoldsRow(c, t, [gRow[t] EXCEPT !.status = Target[kind]])
  BY <1>1, <1>2, RowMoved, HoldsRowKeeps
<1>3. CASE Skips(c, t)
  BY <1>3, SkipKeeps
<1> QED
  BY <1>2, <1>3 DEF Transitions

LEMMA ResetKeeps ==
  ASSUME GraphInv, NEW c \in Callers, NEW t \in GTasks, Resets(c, t), CallStep,
         gToCome' \in ToComes, gCall[c].at \in {"each", "move"}, gCall[c].verb \notin Wirers
  PROVE  GraphInv'
<1>1. "pending" \in GStatus \ {"running"}
  BY DEF GStatus, Status
<1>2. CASE HasGRow(t) /\ HoldsRow(c, t, [gRow[t] EXCEPT !.status = "pending"])
  BY <1>1, <1>2, RowMoved, HoldsRowKeeps
<1>3. CASE Skips(c, t)
  BY <1>3, SkipKeeps
<1> QED
  BY <1>2, <1>3 DEF Resets

\* A call as it was taken up: everything else unset.
LEMMA FreshHas ==
  ASSUME NEW verb \in Verbs, NEW at \in Places
  PROVE  LET call == Fresh(verb, at) IN
           /\ call \in CallRecords /\ call.verb = verb /\ call.at = at /\ call.id = NoGRow
           /\ call.cut = {} /\ call.wire = {} /\ call.todo = {}
<1>1. NoGCall \in CallRecords /\ NoGCall.id = NoGRow /\ NoGCall.cut = {} /\ NoGCall.wire = {}
      /\ NoGCall.todo = {}
  BY NoCallHas
<1> HIDE DEF NoGCall
<1> QED
  BY <1>1 DEF Fresh, CallRecords

LEMMA FreshOf ==
  ASSUME NEW verb \in Verbs, NEW at \in Places
  PROVE  /\ \A t \in GTasks :
              LET call == [Fresh(verb, at) EXCEPT !.id = t] IN
                /\ call \in CallRecords /\ call.verb = verb /\ call.at = at /\ call.id = t
                /\ call.cut = {} /\ call.wire = {} /\ call.todo = {}
         /\ \A on \in BOOLEAN :
              LET call == [Fresh(verb, at) EXCEPT !.shut = on] IN
                /\ call \in CallRecords /\ call.verb = verb /\ call.at = at
                /\ call.cut = {} /\ call.wire = {}
<1> DEFINE k == Fresh(verb, at)
<1>1. /\ k \in CallRecords /\ k.verb = verb /\ k.at = at /\ k.id = NoGRow
      /\ k.cut = {} /\ k.wire = {} /\ k.todo = {}
  BY FreshHas
<1> HIDE DEF k
<1>2. ASSUME NEW t \in GTasks
      PROVE LET call == [k EXCEPT !.id = t] IN
                /\ call \in CallRecords /\ call.verb = verb /\ call.at = at /\ call.id = t
                /\ call.cut = {} /\ call.wire = {} /\ call.todo = {}
  BY <1>1 DEF CallRecords
<1>3. ASSUME NEW on \in BOOLEAN
      PROVE LET call == [k EXCEPT !.shut = on] IN
                /\ call \in CallRecords /\ call.verb = verb /\ call.at = at
                /\ call.cut = {} /\ call.wire = {}
  BY <1>1 DEF CallRecords
<1> QED
  BY <1>2, <1>3 DEF k

\* The verbs that only move a call on.
LEMMA MovesGTaskKeeps ==
  ASSUME GraphInv, NEW c \in Authors, MovesGTask(c),
         gMessy' = gMessy \cup Contested'
  PROVE  GraphInv'
<1>1. PICK t \in GTasks, verb \in {"ready", "cancel", "retry", "revive"} :
        Requests(c, verb) /\ Becomes(c, [Fresh(verb, "move") EXCEPT !.id = t])
  BY DEF MovesGTask
<1>2. CallStep
  BY DEF CallStep, MovesGTask
<1>3. "move" \in Places /\ verb \notin Wirers
  BY DEF Places, Wirers
<1> DEFINE call == [Fresh(verb, "move") EXCEPT !.id = t]
<1>4. verb \in Verbs /\ c \in Callers /\ Mends(gCall[c]) = {} /\ gToCome' \in ToComes /\ gCall[c].at # "drop"
  BY <1>1, RequestTaken
<1>5. /\ call \in CallRecords /\ call.verb = verb /\ call.at = "move" /\ call.id = t
      /\ call.cut = {} /\ call.wire = {}
  BY <1>3, <1>4, FreshOf
<1>6. Becomes(c, call)
  BY <1>1
<1> HIDE DEF call
<1> QED
  BY <1>2, <1>3, <1>4, <1>5, <1>6, PlainKeeps DEF InHand

LEMMA AsksFlowKeeps ==
  ASSUME GraphInv, NEW c \in Authors, AsksFlow(c),
         gMessy' = gMessy \cup Contested'
  PROVE  GraphInv'
<1>1. PICK verb \in {"start", "stop", "resume", "restart", "softRestart", "deleteFlow"}, at \in {"mark", "list"} :
        Requests(c, verb) /\ Becomes(c, Fresh(verb, at))
  BY DEF AsksFlow
<1>2. CallStep
  BY DEF CallStep, AsksFlow
<1>3. at \in Places /\ verb \notin Wirers
  BY DEF Places, Wirers
<1> QED
  BY <1>1, <1>2, <1>3, RequestTaken, FreshHas, PlainKeeps DEF InHand

LEMMA AsksPromoteKeeps ==
  ASSUME GraphInv, NEW c \in Callers, AsksPromote(c),
         gMessy' = gMessy \cup Contested'
  PROVE  GraphInv'
<1>1. CallStep
  BY DEF CallStep, AsksPromote
<1>2. FlowShut \in BOOLEAN
  BY DEF FlowShut, HasFlow
<1>3. CASE c = Tick /\ CallAt(c, "idle") /\ UNCHANGED gToCome
           /\ Becomes(c, [NoGCall EXCEPT !.at = "query", !.shut = FlowShut])
  <2> DEFINE call == [NoGCall EXCEPT !.at = "query", !.shut = FlowShut]
  <2>1. /\ call \in CallRecords /\ call.at = "query" /\ call.verb = Tick
        /\ call.cut = {} /\ call.wire = {}
    BY <1>2 DEF NoGCall, CallRecords, Places
  <2>2. Tick \notin Wirers /\ gCall[c].at = "idle" /\ Becomes(c, call)
    BY <1>3 DEF Tick, Wirers, CallAt
  <2> HIDE DEF call
  <2> QED
    BY <1>1, <1>3, <2>1, <2>2, CallHas, PlainKeeps DEF InHand
<1>4. CASE Requests(c, "promote") /\ Becomes(c, [Fresh("promote", "query") EXCEPT !.shut = FlowShut])
  <2>1. "query" \in Places /\ "promote" \notin Wirers
    BY DEF Places, Wirers
  <2> DEFINE call == [Fresh("promote", "query") EXCEPT !.shut = FlowShut]
  <2>2. "promote" \in Verbs /\ Mends(gCall[c]) = {} /\ gToCome' \in ToComes /\ gCall[c].at # "drop"
    BY <1>4, RequestTaken
  <2>3. /\ call \in CallRecords /\ call.verb = "promote" /\ call.at = "query"
        /\ call.cut = {} /\ call.wire = {}
    BY <1>2, <2>1, <2>2, FreshOf
  <2>4. Becomes(c, call)
    BY <1>4
  <2> HIDE DEF call
  <2> QED
    BY <1>1, <2>1, <2>2, <2>3, <2>4, PlainKeeps DEF InHand
<1> QED
  BY <1>3, <1>4 DEF AsksPromote

LEMMA ReadsToMoveKeeps ==
  ASSUME GraphInv, NEW c \in Callers, ReadsToMove(c),
         gMessy' = gMessy \cup Contested'
  PROVE  GraphInv'
<1> DEFINE t == gCall[c].id
<1>1. CallStep /\ gToCome' \in ToComes
  BY CallHas DEF CallStep, ReadsToMove
<1>2. gCall[c].at = "move" /\ t \in GTasks /\ gCall[c].verb \notin Wirers
  BY CallHas DEF ReadsToMove, CallAt, Shaped, Wirers
<1>3. (\E kind \in Moves : Transitions(c, t, kind)) \/ Resets(c, t)
  BY DEF ReadsToMove, Moves
<1> HIDE DEF t
<1> QED
  BY <1>1, <1>2, <1>3, TransitionKeeps, ResetKeeps

LEMMA HandlesTaskKeeps ==
  ASSUME GraphInv, NEW c \in Callers, HandlesTask(c),
         gMessy' = gMessy \cup Contested'
  PROVE  GraphInv'
<1> DEFINE t == Foremost(gCall[c].todo)
<1>1. CallStep /\ gToCome' \in ToComes
  BY CallHas DEF CallStep, HandlesTask
<1>2. gCall[c].at = "each" /\ t \in GTasks
  BY CallHas, ForemostIn DEF HandlesTask, CallAt, CallRecords
<1>3. gCall[c].verb \notin Wirers /\ ((\E kind \in Moves : Transitions(c, t, kind)) \/ Resets(c, t))
  BY DEF HandlesTask, Moves, Is, Wirers
<1> HIDE DEF t
<1> QED
  BY <1>1, <1>2, <1>3, TransitionKeeps, ResetKeeps

LEMMA ListsKeep ==
  ASSUME GraphInv, NEW c \in Callers, ListsFlow(c) \/ ListsAgain(c) \/ QueriesReady(c),
         gMessy' = gMessy \cup Contested'
  PROVE  GraphInv'
<1>1. CallStep /\ gToCome' \in ToComes
  BY CallHas DEF CallStep, ListsFlow, ListsAgain, QueriesReady
<1>2. gCall[c].at \in {"list", "again", "query"} /\ gCall[c].verb \notin Wirers /\ gCall[c] \in CallRecords
  BY CallHas DEF ListsFlow, ListsAgain, QueriesReady, CallAt, Shaped, Wirers
<1>3. CASE Ends(c)
  BY <1>1, <1>2, <1>3, CallHas, CallEnds
<1>4. ASSUME NEW at \in {"again", "each"}, NEW todo \in SUBSET GTasks,
             Becomes(c, [gCall[c] EXCEPT !.at = at, !.todo = todo])
      PROVE  GraphInv'
  <2> DEFINE call == [gCall[c] EXCEPT !.at = at, !.todo = todo]
  <2>1. /\ call \in CallRecords /\ call.at = at /\ call.verb = gCall[c].verb
        /\ call.cut = {} /\ call.wire = {}
    BY <1>2, CallHas DEF CallRecords, Shaped, Places
  <2>2. Becomes(c, call)
    BY <1>4
  <2> HIDE DEF call
  <2> QED
    BY <1>1, <1>2, <2>1, <2>2, CallHas, PlainKeeps DEF InHand
<1>5. CASE ListsFlow(c)
  <2>1. Listing(gCall[c].verb) \in SUBSET GTasks
    BY DEF Listing, Roots, FlowTasks
  <2> QED
    BY <1>3, <1>4, <1>5, <2>1 DEF ListsFlow
<1>6. CASE ListsAgain(c)
  BY <1>3, <1>4, <1>6 DEF ListsAgain, FlowTasks
<1>7. CASE QueriesReady(c)
  BY <1>4, <1>7 DEF QueriesReady, NewlyReady, Where
<1> QED
  BY <1>5, <1>6, <1>7

LEMMA PromotesTaskKeeps ==
  ASSUME GraphInv, NEW c \in Callers, PromotesTask(c),
         gMessy' = gMessy \cup Contested'
  PROVE  GraphInv'
<1>1. CallStep /\ gToCome' \in ToComes
  BY CallHas DEF CallStep, PromotesTask
<1>2. gCall[c].at = "each" /\ gCall[c].verb \notin Wirers /\ gCall[c] \in CallRecords
  BY CallHas DEF PromotesTask, CallAt, Is, Wirers, Tick
<1>3. CASE gCall[c].todo # {} /\ Transitions(c, Foremost(gCall[c].todo), "Ready")
  <2>1. Foremost(gCall[c].todo) \in GTasks /\ "Ready" \in Moves
    BY <1>2, <1>3, ForemostIn DEF CallRecords, Moves
  <2> QED
    BY <1>1, <1>2, <1>3, <2>1, TransitionKeeps
<1>4. CASE Ends(c)
  BY <1>1, <1>2, <1>4, CallHas, CallEnds DEF Wirers
<1>5. CASE Becomes(c, [gCall[c] EXCEPT !.at = "ready"])
  <2> DEFINE call == [gCall[c] EXCEPT !.at = "ready"]
  <2>1. /\ call \in CallRecords /\ call.at = "ready" /\ call.verb = gCall[c].verb
        /\ call.cut = {} /\ call.wire = {}
    BY <1>2, CallHas DEF CallRecords, Shaped, Places
  <2>2. Becomes(c, call)
    BY <1>5
  <2> HIDE DEF call
  <2> QED
    BY <1>1, <1>2, <2>1, <2>2, CallHas, PlainKeeps DEF InHand, Wirers
<1> QED
  BY <1>3, <1>4, <1>5 DEF PromotesTask

LEMMA TickListsReadyKeeps ==
  ASSUME GraphInv, TickListsReady,
         gMessy' = gMessy \cup Contested'
  PROVE  GraphInv'
<1> DEFINE c == Tick
<1>1. CallStep /\ gToCome' \in ToComes /\ c \in Callers
  BY CallHas DEF CallStep, TickListsReady, Callers
<1>2. gCall[c].at = "ready" /\ gCall[c].verb \notin Wirers /\ gCall[c] \in CallRecords
  BY <1>1, CallHas DEF TickListsReady, CallAt, Shaped, Wirers
<1> DEFINE call == [gCall[c] EXCEPT !.at = "run", !.todo = Where({"ready"}), !.mine = FlowTasks]
<1>3. Ends(c) \/ Becomes(c, call)
  BY DEF TickListsReady, Ends
<1>4. CASE Ends(c)
  BY <1>1, <1>2, <1>4, CallHas, CallEnds
<1>5. CASE Becomes(c, call)
  <2>1. /\ call \in CallRecords /\ call.at = "run" /\ call.verb = gCall[c].verb
        /\ call.cut = {} /\ call.wire = {} /\ call.mine = FlowTasks
    BY <1>1, <1>2, CallHas DEF CallRecords, Shaped, Places, Where, FlowTasks
  <2>2. RunSafe(c, call)
    BY <2>1 DEF RunSafe, InHand
  <2> HIDE DEF call, c
  <2> QED
    BY <1>1, <1>2, <1>5, <2>1, <2>2, CallHas, PlainKeeps DEF InHand
<1> QED
  BY <1>3, <1>4, <1>5

LEMMA TickReadsRunKeeps ==
  ASSUME GraphInv, TickReadsRun,
         gMessy' = gMessy \cup Contested'
  PROVE  GraphInv'
<1> DEFINE c == Tick
<1>1. CallStep /\ gToCome' \in ToComes /\ c \in Callers
  BY CallHas DEF CallStep, TickReadsRun, Callers
<1>2. gCall[c].at = "run" /\ gCall[c].verb \notin Wirers /\ gCall[c] \in CallRecords
  BY <1>1, CallHas DEF TickReadsRun, CallAt, Shaped, Wirers
<1> DEFINE call == [gCall[c] EXCEPT !.at = "claim", !.shut = FlowShut]
<1>3. Becomes(c, call)
  BY DEF TickReadsRun
<1>4. /\ call \in CallRecords /\ call.at = "claim" /\ call.verb = gCall[c].verb
      /\ call.cut = {} /\ call.wire = {} /\ call.mine = gCall[c].mine /\ call.shut = FlowShut
      /\ call.todo = gCall[c].todo
  BY <1>1, <1>2, CallHas DEF CallRecords, Shaped, Places, FlowShut, HasFlow
<1>5. NotStarted => FlowShut
  BY DEF NotStarted, FlowShut, GraphInv, FlowInv, HasFlow
<1>6. RunSafe(c, gCall[c])
  BY <1>1, CallHas
<1> HIDE DEF call
<1>7. RunSafe(c, call)
  BY <1>2, <1>4, <1>5, <1>6 DEF RunSafe, ClaimsSafely, InHand
<1> HIDE DEF c
<1> QED
  BY <1>1, <1>2, <1>3, <1>4, <1>7, CallHas, PlainKeeps DEF InHand

LEMMA TickClaimsKeeps ==
  ASSUME GraphInv, TickClaims,
         gMessy' = gMessy \cup Contested'
  PROVE  GraphInv'
<1> DEFINE c == Tick
           t == Foremost(gCall[c].todo)
<1>1. CallStep /\ gToCome' \in ToComes /\ c \in Callers
  BY CallHas DEF CallStep, TickClaims, Callers
<1>2. /\ gCall[c].at = "claim" /\ gCall[c].verb \notin Wirers /\ gCall[c] \in CallRecords
      /\ gCall[c].cut = {} /\ gCall[c].wire = {} /\ RunSafe(c, gCall[c])
      /\ Mends(gCall[c]) = {}
  BY <1>1, CallHas DEF TickClaims, CallAt, Shaped, Wirers
<1>3. CASE Ends(c)
  BY <1>1, <1>2, <1>3, CallEnds
<1>4. CASE Becomes(c, [gCall[c] EXCEPT !.todo = @ \ {t}])
  <2> DEFINE call == [gCall[c] EXCEPT !.todo = @ \ {t}]
  <2>1. /\ call \in CallRecords /\ call.at = "claim" /\ call.verb = gCall[c].verb
        /\ call.cut = {} /\ call.wire = {} /\ call.todo \subseteq gCall[c].todo
        /\ call.mine = gCall[c].mine /\ call.shut = gCall[c].shut
    BY <1>2 DEF CallRecords
  <2>2. Becomes(c, call)
    BY <1>4
  <2> HIDE DEF call
  <2>3. RunSafe(c, call)
    BY <1>2, <2>1 DEF RunSafe, ClaimsSafely, InHand
  <2> HIDE DEF c
  <2> QED
    BY <1>1, <1>2, <2>1, <2>2, <2>3, PlainKeeps DEF InHand
<1>5. CASE /\ gCall[c].todo # {} /\ Claimable(t) /\ HasGRow(t)
           /\ Becomes(c, [gCall[c] EXCEPT !.at = "claiming", !.id = t, !.todo = @ \ {t},
                                          !.copy = [gRow[t] EXCEPT !.status = "running"]])
  <2> DEFINE row == [gRow[t] EXCEPT !.status = "running"]
             call == [gCall[c] EXCEPT !.at = "claiming", !.id = t, !.todo = @ \ {t}, !.copy = row]
  <2>1. t \in gCall[c].todo /\ t \in GTasks
    BY <1>2, <1>5, ForemostIn DEF CallRecords
  <2>2. row \in GRows /\ row.deps = gRow[t].deps /\ row.flow = gRow[t].flow
    BY <1>5, <2>1, RowMoved DEF GStatus, Status
  <2>3. NotStarted /\ row.flow => t \in Excused
    BY <1>2, <1>5, <2>1, <2>2 DEF RunSafe, ClaimsSafely, Claimable, FlowTasks
  <2>4. Becomes(c, call)
    BY <1>5
  <2> HIDE DEF row
  <2>5. /\ call \in CallRecords /\ call.at = "claiming" /\ call.verb = gCall[c].verb
        /\ call.id = t /\ call.cut = {} /\ call.wire = {} /\ call.copy = row
        /\ call.todo \subseteq gCall[c].todo
        /\ call.mine = gCall[c].mine /\ call.shut = gCall[c].shut
    BY <1>2, <2>1, <2>2 DEF CallRecords, Places
  <2> HIDE DEF call
  <2>6. NotStarted => ClaimsSafely(call)
    BY <1>2, <2>5 DEF RunSafe, ClaimsSafely
  <2> HIDE DEF c
  <2> QED
    BY <1>1, <1>2, <1>5, <2>1, <2>2, <2>3, <2>4, <2>5, <2>6, HoldKeeps DEF InHand
<1> QED
  BY <1>3, <1>4, <1>5 DEF TickClaims

\* Calls that will wire edges begin with a task that nobody else holds, or
\* one that is torn.
LEMMA InsertBegins ==
  ASSUME GraphInv, NEW c \in Authors, NEW verb \in {"add", "create"}, Requests(c, verb),
         NEW t \in GTasks, NEW deps \in SUBSET GTasks,
         Becomes(c, [Fresh(verb, "insert") EXCEPT !.id = t, !.wire = LinksOf(t, deps)]), CallStep
  PROVE  GraphInv'
<1> DEFINE k == Fresh(verb, "insert")
           call == [k EXCEPT !.id = t, !.wire = LinksOf(t, deps)]
<1>1. /\ c \in Callers /\ c # Tick /\ gToCome' \in ToComes /\ gCall[c].at # "drop"
      /\ Mends(gCall[c]) = {} /\ verb \in Verbs
  BY RequestTaken
<1>2. "insert" \in Places
  BY DEF Places
<1>3. k \in CallRecords /\ k.verb = verb /\ k.at = "insert" /\ k.cut = {}
  BY <1>1, <1>2, FreshHas
<1>4. Becomes(c, call)
  OBVIOUS
<1> HIDE DEF k
<1>5. /\ call \in CallRecords /\ call.verb = verb /\ call.at = "insert" /\ call.cut = {}
      /\ call.id = t /\ call.wire = LinksOf(t, deps)
  BY <1>3 DEF CallRecords, LinksOf, Links
<1> HIDE DEF call
<1>6. Shaped(call)
  BY <1>5 DEF Shaped, Wirers, InHand, LinksOf
<1>7. RunSafe(c, call)
  BY <1>1, <1>5 DEF RunSafe, InHand
<1>8. \A u : KnowsTask(call, u)
  BY <1>5 DEF KnowsTask, Mends, InHand
<1> QED
  BY <1>1, <1>4, <1>5, <1>6, <1>7, <1>8, CallKeeps DEF CallStep, ToComes

LEMMA AddsTaskKeeps ==
  ASSUME GraphInv, NEW c \in Authors, AddsTask(c) \/ CreatesTask(c),
         gMessy' = gMessy \cup Contested'
  PROVE  GraphInv'
<1>1. CallStep
  BY DEF CallStep, AddsTask, CreatesTask
<1>2. CASE AddsTask(c)
  <2>1. PICK t \in GTasks, deps \in SUBSET GTasks, source \in SUBSET GTasks :
          Becomes(c, [Fresh("add", "insert") EXCEPT !.id = t, !.wire = LinksOf(t, WithReuse(deps, source))])
    BY <1>2 DEF AddsTask
  <2>2. WithReuse(deps, source) \in SUBSET GTasks /\ Requests(c, "add")
    BY <1>2 DEF WithReuse, AddsTask
  <2> QED
    BY <1>1, <2>1, <2>2, InsertBegins
<1>3. CASE CreatesTask(c)
  <2>1. PICK t \in GTasks, deps \in SUBSET GTasks :
          Becomes(c, [Fresh("create", "insert") EXCEPT !.id = t, !.wire = LinksOf(t, deps)])
    BY <1>3 DEF CreatesTask
  <2>2. Requests(c, "create")
    BY <1>3 DEF CreatesTask
  <2> QED
    BY <1>1, <2>1, <2>2, InsertBegins
<1> QED
  BY <1>2, <1>3

LEMMA UpdatesTaskKeeps ==
  ASSUME GraphInv, NEW c \in Authors, UpdatesTask(c),
         gMessy' = gMessy \cup Contested'
  PROVE  GraphInv'
<1>1. CallStep
  BY DEF CallStep, UpdatesTask
<1> DEFINE k == Fresh("update", "load")
<1>2. PICK t \in GTasks, deps \in SUBSET GTasks :
        /\ HasGRow(t)
        /\ Becomes(c, [k EXCEPT !.id = t, !.mine = deps,
                                !.cut = LinksOf(t, CutOf(gRow[t].deps, deps)),
                                !.wire = LinksOf(t, deps \ gRow[t].deps)])
  BY DEF UpdatesTask
<1> DEFINE call == [k EXCEPT !.id = t, !.mine = deps,
                             !.cut = LinksOf(t, CutOf(gRow[t].deps, deps)),
                             !.wire = LinksOf(t, deps \ gRow[t].deps)]
<1>3. /\ c \in Callers /\ c # Tick /\ gToCome' \in ToComes /\ gCall[c].at # "drop"
      /\ Mends(gCall[c]) = {} /\ "update" \in Verbs
  BY RequestTaken DEF UpdatesTask
<1>4. "load" \in Places
  BY DEF Places
<1>5. k \in CallRecords /\ k.verb = "update" /\ k.at = "load"
  BY <1>3, <1>4, FreshHas
<1>6. Becomes(c, call)
  BY <1>2
<1> HIDE DEF k
<1>7. gRow[t].deps \subseteq GTasks
  BY <1>2 DEF HasGRow, GraphInv, GraphFrame, GRows
<1>8. /\ call \in CallRecords /\ call.verb = "update" /\ call.at = "load" /\ call.id = t
      /\ call.mine = deps
      /\ call.cut = LinksOf(t, gRow[t].deps \ deps) /\ call.wire = LinksOf(t, deps \ gRow[t].deps)
  BY <1>5, <1>7 DEF CallRecords, LinksOf, Links, CutOf
<1> HIDE DEF call
<1>9. Shaped(call)
  BY <1>7, <1>8 DEF Shaped, Wirers, InHand, LinksOf
<1>10. RunSafe(c, call)
  BY <1>3, <1>8 DEF RunSafe, InHand
<1>11. \A u : KnowsTask(call, u)
  BY <1>2, <1>8 DEF KnowsTask, Mends, InHand
<1> QED
  BY <1>1, <1>3, <1>6, <1>8, <1>9, <1>10, <1>11, CallKeeps DEF CallStep, ToComes

LEMMA LoadsTaskKeeps ==
  ASSUME GraphInv, NEW c \in Callers, LoadsTask(c),
         gMessy' = gMessy \cup Contested'
  PROVE  GraphInv'
<1> DEFINE t == gCall[c].id
           call == [gCall[c] EXCEPT !.at = "write", !.copy = [gRow[t] EXCEPT !.deps = gCall[c].mine]]
<1>1. CallStep /\ gToCome' \in ToComes
  BY CallHas DEF CallStep, LoadsTask
<1>2. /\ gCall[c] \in CallRecords /\ Shaped(gCall[c]) /\ EdgeSafe(gCall[c]) /\ gCall[c].at = "load"
      /\ Mends(gCall[c]) = {}
  BY CallHas DEF LoadsTask, CallAt
<1>3. t \in GTasks /\ gCall[c].verb = "update"
  BY <1>2 DEF Shaped, Wirers
<1>4. CASE Ends(c)
  BY <1>1, <1>2, <1>4, CallEnds
<1>5. CASE HasGRow(t) /\ Becomes(c, call)
  <2> DEFINE row == [gRow[t] EXCEPT !.deps = gCall[c].mine]
  <2>1. row \in GRows /\ row.deps = gCall[c].mine /\ row.flow = gRow[t].flow /\ row.status = gRow[t].status
    BY <1>2, <1>3, <1>5, RowMoved DEF GRows, CallRecords
  <2>2. /\ call \in CallRecords /\ call.at = "write" /\ call.verb = "update" /\ call.id = t
        /\ call.copy = row /\ call.cut = gCall[c].cut /\ call.wire = gCall[c].wire
        /\ call.mine = gCall[c].mine
    <3> HIDE DEF row
    <3> QED
      BY <1>2, <1>3, <2>1 DEF CallRecords, Places, row
  <2>3. Becomes(c, call)
    BY <1>5
  <2> HIDE DEF row, call
  <2>4. Shaped(call)
    <3>1. gCall[c].cut \cup gCall[c].wire \subseteq LinksOf(t, GTasks)
      BY <1>2, <1>3 DEF Shaped
    <3> QED
      BY <1>3, <2>1, <2>2, <3>1 DEF Shaped, Wirers, InHand
  <2>5. RunSafe(c, call)
    <3>1. t \in FlowTasks <=> row.flow
      BY <1>3, <1>5, <2>1 DEF FlowTasks
    <3>2. NotStarted /\ row.flow /\ row.status = "running" => t \in Excused
      BY <1>3, <1>5, <2>1, <3>1 DEF NotStarted, GraphInv, CreateIsNotRun, Where, Excused
    <3> QED
      BY <2>2, <3>1, <3>2 DEF RunSafe
  <2>6. Mends(call) = {}
    BY <2>2 DEF Mends
  <2>7. ASSUME NEW u \in Held(call) \ gMessy' PROVE KnowsTask(call, u)
    <3>1. CASE u # t
      BY <2>2, <2>6, <3>1 DEF KnowsTask
    <3>2. CASE u = t
      <4>1. t \in Held(gCall[c]) \ gMessy
        BY <1>1, <1>2, <1>3, <2>7, <3>2, HeldBy DEF CallStep
      <4>2. KnowsTask(gCall[c], t)
        BY <1>2, <4>1 DEF EdgeSafe
      <4>3. HasGRow(t) /\ gCall[c].cut = LinksOf(t, gRow[t].deps \ gCall[c].mine)
            /\ gCall[c].wire = LinksOf(t, gCall[c].mine \ gRow[t].deps)
        BY <1>2, <1>3, <4>2 DEF KnowsTask
      <4> QED
        BY <2>1, <2>2, <2>6, <3>2, <4>3 DEF KnowsTask, Wirers
    <3> QED
      BY <3>1, <3>2
  <2> QED
    BY <1>1, <1>2, <2>2, <2>3, <2>4, <2>5, <2>6, <2>7, CallKeeps DEF CallStep, ToComes
<1> QED
  BY <1>4, <1>5 DEF LoadsTask

LEMMA ImportsSeedsKeeps ==
  ASSUME GraphInv, NEW c \in Authors, ImportsSeeds(c),
         gMessy' = gMessy \cup Contested'
  PROVE  GraphInv'
<1>1. CallStep
  BY DEF CallStep, ImportsSeeds
<1> DEFINE k == Fresh("import", "each")
<1>2. PICK seeds \in SUBSET GTasks, wire \in SUBSET Links :
        seeds # {} /\ wire \subseteq seeds \X GTasks /\ Becomes(c, [k EXCEPT !.todo = seeds, !.wire = wire])
  <2>1. PICK seeds \in (SUBSET GTasks) \ {{}} : \E wire \in SUBSET {e \in seeds \X GTasks : e[1] # e[2]} :
          Becomes(c, [k EXCEPT !.todo = seeds, !.wire = wire])
    BY DEF ImportsSeeds
  <2> QED
    BY <2>1 DEF Links
<1> DEFINE call == [k EXCEPT !.todo = seeds, !.wire = wire]
<1>3. /\ c \in Callers /\ c # Tick /\ gToCome' \in ToComes /\ gCall[c].at # "drop"
      /\ Mends(gCall[c]) = {} /\ "import" \in Verbs
  BY RequestTaken DEF ImportsSeeds
<1>4. "each" \in Places
  BY DEF Places
<1>5. k \in CallRecords /\ k.verb = "import" /\ k.at = "each" /\ k.id = NoGRow /\ k.cut = {}
  BY <1>3, <1>4, FreshHas
<1>6. Becomes(c, call)
  BY <1>2
<1> HIDE DEF k
<1>7. /\ call \in CallRecords /\ call.verb = "import" /\ call.at = "each" /\ call.id = NoGRow
      /\ call.todo = seeds /\ call.cut = {} /\ call.wire = wire
  BY <1>5 DEF CallRecords, Links
<1> HIDE DEF call
<1>8. Shaped(call)
  BY <1>2, <1>7 DEF Shaped, Wirers, InHand
<1>9. RunSafe(c, call)
  BY <1>3, <1>7 DEF RunSafe, InHand
<1>10. \A e \in wire : e[1] \in seeds
  BY <1>2
<1>11. \A u : KnowsTask(call, u)
  BY <1>7, <1>10 DEF KnowsTask, Mends, InHand, Wirers
<1> QED
  BY <1>1, <1>3, <1>6, <1>7, <1>8, <1>9, <1>11, CallKeeps DEF CallStep, ToComes

LEMMA ImportsTaskKeeps ==
  ASSUME GraphInv, NEW c \in Callers, ImportsTask(c),
         gMessy' = gMessy \cup Contested'
  PROVE  GraphInv'
<1> DEFINE k == gCall[c]
           t == Foremost(k.todo)
           row == [status |-> IF HasGRow(t) THEN gRow[t].status ELSE "pending",
                   deps |-> {e[2] : e \in {w \in k.wire : w[1] = t}}, flow |-> FALSE]
           call == [k EXCEPT !.at = "write", !.id = t, !.copy = row, !.todo = @ \ {t}]
<1>1. CallStep /\ gToCome' \in ToComes /\ Becomes(c, call)
  BY CallHas DEF CallStep, ImportsTask, HoldsRow
<1>2. /\ k \in CallRecords /\ Shaped(k) /\ EdgeSafe(k) /\ k.at = "each" /\ k.verb = "import"
  BY CallHas DEF ImportsTask, CallAt, Is
<1>3. k.todo # {} /\ k.id = NoGRow /\ k.cut = {}
  BY <1>2 DEF Shaped, Wirers
<1>4. t \in k.todo /\ t \in GTasks /\ k.todo \subseteq GTasks /\ k.wire \subseteq GTasks \X GTasks
  BY <1>2, <1>3, ForemostIn DEF CallRecords, Links
<1>5. row \in GRows /\ row.flow = FALSE /\ \A d \in GTasks : d \in row.deps <=> <<t, d>> \in k.wire
  <2>1. (IF HasGRow(t) THEN gRow[t].status ELSE "pending") \in GStatus
    BY <1>4, RowMoved DEF GRows, GStatus, Status
  <2>2. \A e \in k.wire : e[2] \in GTasks
    BY <1>4
  <2>3. {e[2] : e \in {w \in k.wire : w[1] = t}} \subseteq GTasks
    BY <2>2
  <2>4. row \in GRows
    BY <2>1, <2>3 DEF GRows
  <2>5. ASSUME NEW d \in GTasks PROVE d \in row.deps <=> <<t, d>> \in k.wire
    <3>1. ASSUME NEW e \in k.wire, e[1] = t, e[2] = d PROVE <<t, d>> \in k.wire
      <4>1. e = <<e[1], e[2]>>
        BY <1>4
      <4> QED
        BY <3>1, <4>1
    <3> QED
      BY <3>1
  <2> QED
    BY <2>4, <2>5
<1> HIDE DEF row, t, k
<1>6. /\ call \in CallRecords /\ call.at = "write" /\ call.verb = "import" /\ call.id = t
      /\ call.copy = row /\ call.cut = {} /\ call.wire = k.wire /\ call.todo = k.todo \ {t}
  BY <1>2, <1>3, <1>4, <1>5 DEF CallRecords, Places
<1> HIDE DEF call
<1>7. Shaped(call)
  BY <1>4, <1>5, <1>6 DEF Shaped, Wirers, InHand
<1>8. RunSafe(c, call)
  BY <1>5, <1>6 DEF RunSafe
<1>9. Mends(call) = Mends(k)
  <2>1. \A e \in k.wire : e[1] # NoGRow
    BY <1>4, GraphConstants
  <2>2. \A e \in k.wire : e[1] \notin call.todo \cup {call.id} <=> e[1] \notin k.todo \cup {k.id}
    BY <1>3, <1>4, <1>6, <2>1
  <2> QED
    BY <1>2, <1>6, <2>2 DEF Mends
<1>10. ASSUME NEW u \in Held(call) \ gMessy' PROVE KnowsTask(call, u)
  <2>1. u \in GTasks
    BY <1>6 DEF Held, CallRecords, Links
  <2>2. ASSUME NEW d \in GTasks, <<u, d>> \in Mends(call)
        PROVE  HasGRow(u) /\ (<<u, d>> \in call.wire <=> d \in gRow[u].deps)
                          /\ (<<u, d>> \in call.cut <=> d \notin gRow[u].deps)
    <3>1. u \in Held(k) \ gMessy
      BY <1>1, <1>2, <1>9, <1>10, <2>1, <2>2, HeldBy DEF CallStep
    <3>2. KnowsTask(k, u)
      BY <1>2, <3>1 DEF EdgeSafe
    <3> QED
      BY <1>3, <1>6, <1>9, <2>2, <3>2 DEF KnowsTask
  <2> QED
    BY <1>5, <1>6, <2>2 DEF KnowsTask, Wirers
<1> QED
  BY <1>1, <1>2, <1>6, <1>7, <1>8, <1>9, <1>10, CallKeeps DEF CallStep, ToComes, k

\* The workflow's row: created, marked and closed.
LEMMA CreatesFlowKeeps ==
  ASSUME GraphInv, NEW c \in Authors, CreatesFlow(c),
         gMessy' = gMessy \cup Contested'
  PROVE  GraphInv'
<1>1. /\ c \in Callers /\ gToCome' \in ToComes /\ gCall[c].at # "drop"
      /\ ~HasFlow /\ UNCHANGED <<gRow, gEdges, gCall, ghosts>>
      /\ gFlow' = [active |-> TRUE, started |-> FALSE, ever |-> FALSE]
  BY RequestTaken DEF CreatesFlow
<1>2. gFlow' \in GFlows /\ HasFlow' /\ gFlow'.started = FALSE
  <2>1. gFlow' \in GFlows /\ gFlow'.started = FALSE
    BY <1>1 DEF GFlows
  <2> QED
    BY <2>1, GraphConstants DEF HasFlow
<1>3. Frames
  BY <1>1, <1>2 DEF Frames, GraphInv, GraphFrame, ghosts, ToComes
<1>4. /\ FlowTasks' = FlowTasks /\ FlowTasks \subseteq Excused /\ Excused \subseteq Excused'
      /\ gMessy \subseteq gMessy'
  BY <1>1 DEF FlowTasks, HasGRow, Excused, GraphInv, FlowInv, ghosts
<1>5. ASSUME NEW d \in Callers PROVE RunSafe(d, gCall[d])'
  <2>1. PICK k \in CallRecords : k = gCall[d] /\ gCall'[d] = k
    BY <1>1 DEF GraphInv, GraphFrame
  <2>2. RunSafe(d, k)
    BY <2>1 DEF GraphInv
  <2>3. RunSafe(d, k)'
    BY <1>4, <2>2 DEF RunSafe, ClaimsSafely, Excused
  <2> QED
    BY <2>1, <2>3 DEF RunSafe, ClaimsSafely
<1>6. FlowInv' /\ CreateIsNotRun'
  BY <1>2, <1>4 DEF FlowInv, CreateIsNotRun, Excused
<1>7. PICK k \in CallRecords : k = gCall[c]
  BY <1>1 DEF GraphInv, GraphFrame
<1>8. Becomes(c, k) /\ Shaped(k) /\ \A t \in Held(k) \ gMessy' : KnowsTask(k, t)
  BY <1>1, <1>4, <1>7 DEF Becomes, GraphInv, GraphFrame, EdgeSafe
<1>9. RunSafe(c, k)'
  BY <1>1, <1>5, <1>7 DEF RunSafe, ClaimsSafely
<1> QED
  BY <1>1, <1>3, <1>5, <1>6, <1>7, <1>8, <1>9, RowsStayKeeps DEF ghosts

LEMMA FlowWriteKeeps ==
  ASSUME GraphInv, NEW c \in Callers, NEW call \in CallRecords, Becomes(c, call),
         gMessy' = gMessy \cup Contested', UNCHANGED <<gRow, gEdges, gToCome, gOdd>>,
         gFlow' \in GFlows \cup {NoGRow}, gStray \subseteq gStray', gStray' \subseteq GTasks,
         NotStarted' => NotStarted, HasFlow' => (gFlow'.started => gFlow'.ever),
         ~HasFlow' => ~HasFlow \/ FlowTasks \subseteq gStray',
         Mends(gCall[c]) = {}, gCall[c].at # "drop",
         call.verb \notin Wirers, call.cut = {}, call.wire = {},
         call.at \in {"idle", "list"}
  PROVE  GraphInv'
<1>1. Frames
  BY DEF Frames, GraphInv, GraphFrame
<1>2. FlowTasks' = FlowTasks /\ Excused \subseteq Excused'
  BY DEF FlowTasks, HasGRow, Excused
<1>3. RunSafe(c, call)'
  BY DEF RunSafe, InHand
<1>4. \A d \in Callers \ {c} : RunSafe(d, gCall[d])'
  BY <1>1, <1>2, OthersRun
<1>5. FlowInv' /\ CreateIsNotRun'
  BY <1>2 DEF FlowInv, CreateIsNotRun, GraphInv, Where, HasGRow, NotStarted, Excused
<1>6. Shaped(call) /\ \A t : KnowsTask(call, t)
  BY DEF Shaped, KnowsTask, Mends, Wirers, InHand
<1> QED
  BY <1>1, <1>3, <1>4, <1>5, <1>6, RowsStayKeeps

LEMMA MarksFlowKeeps ==
  ASSUME GraphInv, NEW c \in Callers, MarksFlow(c),
         gMessy' = gMessy \cup Contested'
  PROVE  GraphInv'
<1>1. /\ gCall[c] \in CallRecords /\ gCall[c].at = "mark" /\ gCall[c].verb \notin Wirers
      /\ gCall[c].cut = {} /\ gCall[c].wire = {} /\ Mends(gCall[c]) = {} /\ gToCome \in ToComes
  BY CallHas DEF MarksFlow, CallAt, Shaped, Wirers
<1>2. CASE Ends(c) /\ UNCHANGED gFlow
  <2>1. CallStep /\ gToCome' \in ToComes
    BY <1>1, <1>2 DEF CallStep, MarksFlow
  <2> QED
    BY <1>1, <1>2, <2>1, CallEnds
<1>3. CASE /\ HasFlow /\ Becomes(c, [gCall[c] EXCEPT !.at = "list"])
           /\ gFlow' = IF Is(c, {"start"}) THEN [gFlow EXCEPT !.started = TRUE, !.ever = TRUE]
                       ELSE [gFlow EXCEPT !.active = Is(c, {"resume"})]
  <2> DEFINE call == [gCall[c] EXCEPT !.at = "list"]
  <2>1. /\ call \in CallRecords /\ call.at = "list" /\ call.verb = gCall[c].verb
        /\ call.cut = {} /\ call.wire = {}
    BY <1>1 DEF CallRecords, Places
  <2>2. gFlow \in GFlows /\ (gFlow.started => gFlow.ever)
    BY <1>3 DEF GraphInv, GraphFrame, FlowInv, HasFlow
  <2>3. gFlow' \in GFlows /\ (gFlow'.started => gFlow'.ever) /\ (gFlow.ever => gFlow'.ever)
    <3> DEFINE on == Is(c, {"resume"})
    <3>1. on \in BOOLEAN
      BY DEF Is
    <3>2. \/ gFlow' = [gFlow EXCEPT !.started = TRUE, !.ever = TRUE]
          \/ gFlow' = [gFlow EXCEPT !.active = on]
      BY <1>3
    <3> HIDE DEF on
    <3> QED
      BY <2>2, <3>1, <3>2 DEF GFlows
  <2>4. NotStarted' => NotStarted
    BY <1>3, <2>3 DEF NotStarted, GFlows
  <2>5. HasFlow'
    BY <2>3, GraphConstants DEF HasFlow
  <2>6. UNCHANGED <<gRow, gEdges, gToCome, gOdd, gStray>> /\ Becomes(c, call)
    BY <1>3 DEF MarksFlow, ghosts
  <2> HIDE DEF call
  <2> QED
    BY <1>1, <2>1, <2>3, <2>4, <2>5, <2>6, FlowWriteKeeps DEF GraphInv, GraphFrame
<1> QED
  BY <1>2, <1>3 DEF MarksFlow

LEMMA ClosesFlowKeeps ==
  ASSUME GraphInv, NEW c \in Callers, ClosesFlow(c),
         gMessy' = gMessy \cup Contested'
  PROVE  GraphInv'
<1>1. /\ gCall[c].at = "each" /\ gCall[c].verb \notin Wirers /\ Mends(gCall[c]) = {}
      /\ UNCHANGED <<gRow, gEdges, gToCome, gOdd>> /\ Becomes(c, NoGCall)
  BY CallHas DEF ClosesFlow, CallAt, Is, Wirers, Ends
<1>2. FlowTasks \subseteq GTasks /\ ToClaim \subseteq GTasks
  BY CallHas DEF FlowTasks, ToClaim, CallRecords, Callers
<1>3. gStray \subseteq gStray' /\ gStray' \subseteq GTasks
  BY <1>2 DEF ClosesFlow, GraphInv, GraphFrame
<1>4. CASE Is(c, {"deleteFlow"})
  <2>1. gFlow' = NoGRow /\ FlowTasks \subseteq gStray'
    <3>1. gStray' = gStray \cup FlowTasks
      BY <1>4 DEF ClosesFlow
    <3>2. gFlow' = NoGRow
      BY <1>4 DEF ClosesFlow, Is
    <3> QED
      BY <3>1, <3>2
  <2> QED
    BY <1>1, <1>3, <2>1, NoCallHas, FlowWriteKeeps DEF HasFlow, NotStarted
<1>5. CASE ~Is(c, {"deleteFlow"}) /\ gFlow' = gFlow
  BY <1>1, <1>3, <1>5, NoCallHas, FlowWriteKeeps DEF HasFlow, NotStarted, GraphInv, GraphFrame, FlowInv
<1>6. CASE ~Is(c, {"deleteFlow"}) /\ HasFlow /\ gFlow' = [gFlow EXCEPT !.active = TRUE, !.started = FALSE]
  <2>1. gFlow \in GFlows
    BY <1>6 DEF GraphInv, GraphFrame, HasFlow
  <2>2. gFlow' \in GFlows /\ gFlow'.started = FALSE /\ gFlow'.ever = gFlow.ever
    BY <1>6, <2>1 DEF GFlows
  <2>3. HasFlow' /\ (NotStarted' => NotStarted)
    BY <1>6, <2>2, GraphConstants DEF HasFlow, NotStarted
  <2> QED
    BY <1>1, <1>3, <2>2, <2>3, NoCallHas, FlowWriteKeeps
<1> QED
  BY <1>4, <1>5, <1>6 DEF ClosesFlow

\* What is left to wire of a call's links.
LEMMA WiresOn ==
  ASSUME NEW c, NEW k \in CallRecords, Wires(c, k), k.verb \in Wirers,
         k.verb # "import" => k.cut \cup k.wire \subseteq LinksOf(k.id, GTasks),
         k.verb # "update" => k.cut = {}, k.verb = "import" => k.todo = {}
  PROVE  \E call \in CallRecords :
           /\ Becomes(c, call) /\ Shaped(call) /\ call.at \in {"idle", "wire"}
           /\ call.cut = k.cut /\ call.wire = k.wire /\ Mends(call) = k.cut \cup k.wire
           /\ \A t \in GTasks : t \in Held(call) =>
                t = k.id \/ \E d \in GTasks : <<t, d>> \in k.cut \cup k.wire
<1>1. CASE k.cut \cup k.wire = {} /\ Becomes(c, NoGCall)
  <2>1. k.cut = {} /\ k.wire = {}
    BY <1>1
  <2>2. Shaped(NoGCall)
    BY NoCallHas DEF Shaped, Wirers, InHand
  <2> QED
    BY <1>1, <2>1, <2>2, NoCallHas
<1>2. CASE k.cut \cup k.wire # {} /\ Becomes(c, [k EXCEPT !.at = "wire", !.copy = NoGRow])
  <2> DEFINE call == [k EXCEPT !.at = "wire", !.copy = NoGRow]
  <2>1. /\ call \in CallRecords /\ call.at = "wire" /\ call.verb = k.verb /\ call.id = k.id
        /\ call.cut = k.cut /\ call.wire = k.wire /\ call.todo = k.todo
    BY DEF CallRecords, Places
  <2>2. Becomes(c, call)
    BY <1>2
  <2> HIDE DEF call
  <2>3. Shaped(call)
    BY <1>2, <2>1 DEF Shaped, Wirers, InHand
  <2>4. Mends(call) = k.cut \cup k.wire
    BY <2>1 DEF Mends
  <2>5. ASSUME NEW t \in GTasks, t \in Held(call)
        PROVE  t = k.id \/ \E d \in GTasks : <<t, d>> \in k.cut \cup k.wire
    BY <2>1, <2>5, HeldBy DEF Wirers
  <2> QED
    BY <2>1, <2>2, <2>3, <2>4, <2>5
<1> QED
  BY <1>1, <1>2 DEF Wires

\* A step that writes the row of one task it holds, or edges of that task.
LEMMA RowWriteKeeps ==
  ASSUME GraphInv, NEW c \in Callers, NEW call \in CallRecords, Becomes(c, call),
         gMessy' = gMessy \cup Contested', Frames, UNCHANGED gFlow, Shaped(call),
         NEW t \in GTasks, t \in Held(gCall[c]) \cup Held(call),
         t \notin gMessy' => RowMatches(t)',
         \A u \in GTasks \ {t} : KeepsTask(u) /\ gRow'[u] = gRow[u],
         \A u \in GTasks \ {t}, d \in GTasks :
            u \notin gMessy' /\ <<u, d>> \in Mends(gCall[c]) => <<u, d>> \in Mends(call),
         gCall[c].at = "drop" => gCall[c].id = t,
         \A u \in Held(call) \ gMessy' : KnowsTask(call, u)',
         RunSafe(c, call)',
         t \notin Held(gCall[c]) => gRow'[t] = gRow[t],
         t \in FlowTasks' \ FlowTasks => t \in Excused' \/ (HasFlow /\ t \notin ToClaim),
         ~HasFlow /\ t \in FlowTasks' => t \in Excused',
         NotStarted /\ t \in FlowTasks' /\ gRow'[t].status = "running" => t \in Excused'
  PROVE  GraphInv'
<1>1. /\ gCall' \in [Callers -> CallRecords] /\ gCall'[c] = call
      /\ \A d \in Callers \ {c} : gCall'[d] = gCall[d]
      /\ gMessy \subseteq gMessy'
  BY DEF Becomes, GraphInv, GraphFrame
<1>2. /\ \A u \in GTasks \ {t} : u \in FlowTasks' <=> u \in FlowTasks
      /\ t \notin Held(gCall[c]) => (t \in FlowTasks' <=> t \in FlowTasks)
      /\ Excused \subseteq Excused' /\ (HasFlow' <=> HasFlow) /\ (NotStarted' <=> NotStarted)
      /\ FlowTasks' \subseteq GTasks
  BY <1>1 DEF FlowTasks, HasGRow, Excused, HasFlow, NotStarted, Frames
<1>3. \A d \in Callers \ {c} : RunSafe(d, gCall[d])'
  <2>1. ToClaim \cap FlowTasks' \subseteq FlowTasks \cup Excused'
    BY <1>2
  <2> QED
    BY <1>2, <2>1, OthersRun
<1>4. FlowInv'
  <2>1. ~HasFlow => FlowTasks \subseteq Excused
    BY DEF GraphInv, FlowInv
  <2>2. HasFlow => (gFlow.started => gFlow.ever)
    BY DEF GraphInv, FlowInv
  <2> QED
    BY <1>2, <2>1, <2>2 DEF FlowInv
<1>5. CreateIsNotRun'
  <2>1. NotStarted => \A u \in FlowTasks : gRow[u].status = "running" => u \in Excused
    BY DEF GraphInv, CreateIsNotRun, NotStarted, Where, FlowTasks, Excused
  <2>2. NotStarted' => \A u \in FlowTasks' : gRow'[u].status = "running" => u \in Excused'
    BY <1>2, <2>1
  <2> QED
    BY <2>2 DEF CreateIsNotRun, NotStarted, Where, Excused, HasFlow
<1>6. ASSUME NEW u \in GTasks \ gMessy' PROVE RowMatches(u)'
  <2>1. CASE u = t
    BY <1>6, <2>1
  <2>2. CASE u # t
    <3>1. RowMatches(u) /\ KeepsTask(u)
      BY <1>1, <2>2 DEF GraphInv
    <3>2. ASSUME NEW a \in Callers
          PROVE  /\ gCall[a].at = "drop" /\ gCall[a].id = u => gCall'[a].at = "drop" /\ gCall'[a].id = u
                 /\ \A d \in GTasks : <<u, d>> \in Mends(gCall[a]) => <<u, d>> \in Mends(gCall'[a])
      <4>1. CASE a = c
        BY <1>1, <2>2, <4>1
      <4>2. CASE a # c
        BY <1>1, <4>2
      <4> QED
        BY <4>1, <4>2
    <3> QED
      BY <3>1, <3>2, MatchStays
  <2> QED
    BY <2>1, <2>2
<1> QED
  BY <1>3, <1>4, <1>5, <1>6, StepKeeps

LEMMA InsertsTaskKeeps ==
  ASSUME GraphInv, NEW c \in Callers, InsertsTask(c),
         gMessy' = gMessy \cup Contested'
  PROVE  GraphInv'
<1>1. PICK k \in CallRecords : k = gCall[c]
  BY CallHas
<1>2. /\ k.at = "insert" /\ k.id \in GTasks /\ k.verb \in {"add", "create"} /\ Shaped(k)
      /\ k.cut = {} /\ k.wire \subseteq LinksOf(k.id, GTasks) /\ Mends(k) = {} /\ gToCome \in ToComes
  BY <1>1, CallHas DEF InsertsTask, CallAt, Shaped, Wirers
<1> DEFINE t == k.id
           deps == {e[2] : e \in k.wire}
<1>3. CASE HasGRow(t)
  <2>1. Ends(c) /\ CallStep /\ gToCome' \in ToComes
    BY <1>1, <1>2, <1>3 DEF InsertsTask, CallStep, ghosts
  <2> QED
    BY <1>1, <1>2, <2>1, CallEnds
<1>4. CASE ~HasGRow(t)
  <2> DEFINE flow == k.verb = "add"
             row == [status |-> "pending", deps |-> deps, flow |-> flow]
  <2>1. /\ gRow' = [gRow EXCEPT ![t] = row]
        /\ gStray' = IF flow /\ (~HasFlow \/ t \in ToClaim) THEN gStray \cup {t} ELSE gStray
        /\ Wires(c, k) /\ UNCHANGED <<gEdges, gFlow, gToCome, gOdd>>
    BY <1>1, <1>4 DEF InsertsTask
  <2>2. \A d \in GTasks : d \in deps <=> <<t, d>> \in k.wire
    BY <1>2 DEF LinksOf
  <2>3. deps \subseteq GTasks
    BY <1>2 DEF LinksOf
  <2>4. row \in GRows /\ row # NoGRow /\ row.deps = deps /\ row.flow = flow /\ row.status = "pending"
    <3>1. row \in GRows
      BY <2>3 DEF GRows, GStatus, Status
    <3> QED
      BY <3>1, GraphConstants
  <2>5. PICK call \in CallRecords :
           /\ Becomes(c, call) /\ Shaped(call) /\ call.at \in {"idle", "wire"}
           /\ call.cut = k.cut /\ call.wire = k.wire /\ Mends(call) = k.cut \cup k.wire
           /\ \A u \in GTasks : u \in Held(call) =>
                u = k.id \/ \E d \in GTasks : <<u, d>> \in k.cut \cup k.wire
    BY <1>2, <2>1, WiresOn DEF Wirers
  <2> HIDE DEF row, deps
  <2>6. /\ gRow' \in [GTasks -> GRows \cup {NoGRow}] /\ gRow'[t] = row
        /\ \A u \in GTasks \ {t} : gRow'[u] = gRow[u]
    BY <1>2, <2>1, <2>4 DEF GraphInv, GraphFrame
  <2>7. Frames
    BY <1>2, <2>1, <2>6 DEF Frames, GraphInv, GraphFrame
  <2>8. /\ HasGRow(t)' /\ gRow'[t].deps = deps /\ (t \in FlowTasks' <=> flow)
        /\ gRow'[t].status = "pending"
    BY <1>2, <2>4, <2>6 DEF HasGRow, FlowTasks
  <2>9. ASSUME t \notin gMessy' PROVE RowMatches(t)'
    <3>1. Leafless(t)
      BY <1>2, <1>4, <2>9 DEF GraphInv, RowMatches
    <3>2. ASSUME NEW d \in GTasks, Differs(t, d)' PROVE <<t, d>> \in Mends(gCall'[c])
      <4>1. d \in deps
        BY <2>1, <2>8, <3>1, <3>2 DEF Differs, Leafless
      <4>2. gCall'[c] = call
        BY <2>5 DEF Becomes, GraphInv, GraphFrame
      <4> QED
        BY <2>2, <2>5, <4>1, <4>2
    <3> QED
      BY <2>8, <3>2 DEF RowMatches
  <2>10. \A u \in GTasks \ {t} : KeepsTask(u)
    BY <2>1, <2>6 DEF KeepsTask, HasGRow
  <2>11. ASSUME NEW u \in Held(call) \ gMessy' PROVE KnowsTask(call, u)'
    <3>1. ASSUME NEW d \in GTasks, <<u, d>> \in Mends(call) PROVE u = t /\ d \in deps
      BY <1>2, <2>2, <2>5, <3>1 DEF LinksOf
    <3> QED
      BY <1>2, <2>2, <2>5, <2>8, <3>1 DEF KnowsTask, InHand, HasGRow
  <2>12. RunSafe(c, call)'
    BY <2>5 DEF RunSafe, InHand
  <2>13. t \in Held(gCall[c])
    BY <1>1, <1>2, HeldBy
  <2>14. /\ t \in FlowTasks' \ FlowTasks => t \in Excused' \/ (HasFlow /\ t \notin ToClaim)
         /\ ~HasFlow /\ t \in FlowTasks' => t \in Excused'
    BY <2>1, <2>8 DEF Excused
  <2> HIDE DEF t, flow
  <2> QED
    BY <1>1, <1>2, <2>1, <2>5, <2>6, <2>7, <2>8, <2>9, <2>10, <2>11, <2>12, <2>13, <2>14, RowWriteKeeps DEF t
<1> QED
  BY <1>3, <1>4

\* Wiring: an edge of the task, and one link less to mend.
LEMMA WiringKeeps ==
  ASSUME GraphInv, NEW c \in Callers, UnrelatesDep(c) \/ RelatesDep(c), gMessy' = gMessy \cup Contested'
  PROVE  GraphInv'
<1>1. PICK k \in CallRecords : k = gCall[c]
  BY CallHas
<1>2. /\ k.at = "wire" /\ k.verb \in Wirers /\ Shaped(k) /\ EdgeSafe(k) /\ gToCome \in ToComes
      /\ k.cut \cup k.wire # {} /\ Mends(k) = k.cut \cup k.wire
      /\ k.cut \subseteq GTasks \X GTasks /\ k.wire \subseteq GTasks \X GTasks
  BY <1>1, CallHas DEF UnrelatesDep, RelatesDep, CallAt, Shaped, Mends, CallRecords, Links
<1>3. PICK e \in k.cut \cup k.wire, k2 \in CallRecords :
        /\ Wires(c, k2) /\ k2.verb = k.verb /\ k2.id = k.id /\ k2.todo = k.todo
        /\ \/ /\ UnrelatesDep(c) /\ e \in k.cut /\ k2.cut = k.cut \ {e} /\ k2.wire = k.wire
              /\ gEdges' = gEdges \ {e} /\ gOdd' = gOdd
           \/ /\ RelatesDep(c) /\ k.cut = {} /\ e \in k.wire /\ k2.wire = k.wire \ {e} /\ k2.cut = {}
              /\ gEdges' = gEdges \cup {e} /\ gOdd' = gOdd \ {e}
  <2>1. CASE UnrelatesDep(c)
    <3> DEFINE e == Foremost(k.cut)
               k2 == [k EXCEPT !.cut = @ \ {e}]
    <3>1. e \in k.cut /\ Wires(c, k2) /\ gEdges' = gEdges \ {e} /\ gOdd' = gOdd
      BY <1>1, <2>1, ForemostIn DEF UnrelatesDep, ghosts
    <3>2. /\ k2 \in CallRecords /\ k2.verb = k.verb /\ k2.id = k.id /\ k2.todo = k.todo
          /\ k2.cut = k.cut \ {e} /\ k2.wire = k.wire
      BY DEF CallRecords
    <3> HIDE DEF e, k2
    <3> QED
      BY <2>1, <3>1, <3>2
  <2>2. CASE RelatesDep(c)
    <3> DEFINE e == Foremost(k.wire)
               k2 == [k EXCEPT !.wire = @ \ {e}]
    <3>1. e \in k.wire /\ Wires(c, k2) /\ gEdges' = gEdges \cup {e} /\ gOdd' = gOdd \ {e} /\ k.cut = {}
      BY <1>1, <1>2, <2>2, ForemostIn DEF RelatesDep
    <3>2. /\ k2 \in CallRecords /\ k2.verb = k.verb /\ k2.id = k.id /\ k2.todo = k.todo
          /\ k2.wire = k.wire \ {e} /\ k2.cut = k.cut
      BY DEF CallRecords
    <3> HIDE DEF e, k2
    <3> QED
      BY <2>2, <3>1, <3>2
  <2> QED
    BY <2>1, <2>2
<1>4. PICK t \in GTasks, x \in GTasks : e = <<t, x>>
  BY <1>2
<1>5. /\ k2.cut \subseteq k.cut /\ k2.wire \subseteq k.wire
      /\ \A p \in k.cut \cup k.wire : p # e => (p \in k2.cut <=> p \in k.cut) /\ (p \in k2.wire <=> p \in k.wire)
      /\ UNCHANGED <<gRow, gFlow, gToCome, gStray>>
  BY <1>3 DEF UnrelatesDep, RelatesDep, ghosts
<1>6. PICK call \in CallRecords :
         /\ Becomes(c, call) /\ Shaped(call) /\ call.at \in {"idle", "wire"}
         /\ call.cut = k2.cut /\ call.wire = k2.wire /\ Mends(call) = k2.cut \cup k2.wire
         /\ \A u \in GTasks : u \in Held(call) =>
              u = k2.id \/ \E d \in GTasks : <<u, d>> \in k2.cut \cup k2.wire
  <2>1. /\ k2.verb \in Wirers /\ (k2.verb # "import" => k2.cut \cup k2.wire \subseteq LinksOf(k2.id, GTasks))
        /\ (k2.verb # "update" => k2.cut = {}) /\ (k2.verb = "import" => k2.todo = {})
    BY <1>2, <1>3, <1>5 DEF Shaped, Wirers
  <2> QED
    BY <1>3, <2>1, WiresOn
<1>7. /\ gMessy \subseteq gMessy' /\ gCall'[c] = call /\ t \in Held(k)
      /\ \A u \in GTasks : u \in Held(call) => u \in Held(k)
  <2>1. \A u \in GTasks : u \in Held(call) => u \in Held(k)
    BY <1>3, <1>5, <1>6, HeldBy
  <2> QED
    BY <1>4, <1>6, <2>1, HeldBy DEF Becomes, GraphInv, GraphFrame
<1>8. \A u \in Held(k) \ gMessy : KnowsTask(k, u)
  BY <1>2 DEF EdgeSafe
<1>9. Frames
  <2>1. gEdges \subseteq Links /\ gOdd \subseteq Links /\ e \in Links
    BY <1>4 DEF GraphInv, GraphFrame, Links
  <2>2. gEdges' \subseteq Links /\ gOdd' \subseteq Links
    BY <1>3, <2>1
  <2> QED
    BY <1>2, <1>5, <2>2 DEF Frames, GraphInv, GraphFrame, ToComes
<1>10. ASSUME NEW u \in GTasks \ {t} PROVE KeepsTask(u) /\ gRow'[u] = gRow[u]
  BY <1>3, <1>4, <1>5 DEF KeepsTask, HasGRow
<1>11. ASSUME NEW u \in GTasks, u \in Held(call) \ gMessy' PROVE KnowsTask(call, u)'
  <2>1. KnowsTask(k, u)
    BY <1>7, <1>8, <1>11
  <2>2. ASSUME NEW d \in GTasks, <<u, d>> \in Mends(call)
        PROVE  /\ HasGRow(u) /\ (<<u, d>> \in call.wire <=> d \in gRow[u].deps)
               /\ (<<u, d>> \in call.cut <=> d \notin gRow[u].deps)
    <3>1. /\ <<u, d>> \in Mends(k) /\ HasGRow(u) /\ (<<u, d>> \in k.wire <=> d \in gRow[u].deps)
          /\ (<<u, d>> \in k.cut <=> d \notin gRow[u].deps)
      BY <1>2, <1>5, <1>6, <2>1, <2>2 DEF KnowsTask
    <3>2. <<u, d>> # e
      BY <1>3, <1>6, <2>2, <3>1
    <3> QED
      BY <1>2, <1>5, <1>6, <3>1, <3>2
  <2> QED
    BY <1>5, <1>6, <2>2 DEF KnowsTask, HasGRow, InHand
<1>12. ASSUME t \notin gMessy' PROVE RowMatches(t)'
  <2>1. KnowsTask(k, t) /\ RowMatches(t) /\ <<t, x>> \in Mends(k)
    BY <1>2, <1>4, <1>7, <1>8, <1>12 DEF GraphInv
  <2>2. HasGRow(t) /\ (<<t, x>> \in k.wire <=> x \in gRow[t].deps) /\ (<<t, x>> \in k.cut <=> x \notin gRow[t].deps)
    BY <2>1 DEF KnowsTask
  <2>3. ~Differs(t, x)'
    BY <1>3, <1>4, <1>5, <2>2 DEF Differs
  <2>4. ASSUME NEW a \in Callers \ {c}
        PROVE  t \notin Held(gCall[a]) /\ gCall'[a] = gCall[a] /\ gCall[a] \in CallRecords
    <3>1. t \notin Held(gCall[a])
      BY <1>1, <1>7, <1>12, HoldsAlone
    <3> QED
      BY <1>6, <3>1 DEF Becomes, GraphInv, GraphFrame
  <2>5. \A a \in Callers : ~(gCall[a].at = "drop" /\ gCall[a].id = t)
    BY <1>1, <1>2, <2>4, HeldBy
  <2>6. ASSUME NEW d \in GTasks, Differs(t, d)' PROVE <<t, d>> \in gOdd' \/ <<t, d>> \in Mends(gCall'[c])
    <3>1. d # x
      BY <2>3, <2>6
    <3>2. Differs(t, d)
      BY <1>3, <1>4, <1>5, <2>6, <3>1 DEF Differs
    <3>3. <<t, d>> \in gOdd \/ \E a \in Callers : <<t, d>> \in Mends(gCall[a])
      BY <2>1, <2>2, <2>5, <3>2 DEF RowMatches
    <3>4. <<t, d>> \in gOdd \/ <<t, d>> \in Mends(k)
      BY <1>1, <2>4, <3>3, HeldBy
    <3> QED
      BY <1>2, <1>3, <1>4, <1>5, <1>6, <1>7, <3>1, <3>4
  <2>7. HasGRow(t)'
    BY <1>5, <2>2 DEF HasGRow
  <2> QED
    BY <2>6, <2>7 DEF RowMatches
<1>13. RunSafe(c, call)'
  BY <1>6 DEF RunSafe, InHand
<1>14. FlowTasks' = FlowTasks /\ Excused \subseteq Excused'
  BY <1>5, <1>7 DEF FlowTasks, HasGRow, Excused
<1>15. /\ ~HasFlow => FlowTasks \subseteq Excused
       /\ NotStarted /\ t \in FlowTasks /\ gRow[t].status = "running" => t \in Excused
  BY DEF GraphInv, FlowInv, CreateIsNotRun, NotStarted, Where, FlowTasks, Excused
<1>16. \A u \in Held(call) : u \in GTasks
  BY GraphConstants DEF Held, CallRecords, Links
<1>17. \A u \in GTasks \ {t}, d \in GTasks : <<u, d>> \in Mends(k) => <<u, d>> \in Mends(call)
  BY <1>2, <1>4, <1>5, <1>6
<1> QED
  BY <1>1, <1>2, <1>4, <1>5, <1>6, <1>7, <1>9, <1>10, <1>11, <1>12, <1>13, <1>14, <1>15, <1>16, <1>17, RowWriteKeeps

\* What a write does, for each kind of call.
LEMMA WriteDoes ==
  ASSUME NEW c, WritesGRow(c)
  PROVE  LET k == gCall[c]
             t == k.id
             written == HasGRow(t) \/ k.verb \in {"update", "import"} IN
           /\ gRow' = IF written THEN [gRow EXCEPT ![t] = k.copy] ELSE gRow
           /\ gOdd' = IF k.verb = "import" /\ HasGRow(t)
                      THEN gOdd \cup LinksOf(t, gRow[t].deps \ k.copy.deps) ELSE gOdd
           /\ gStray' = IF written /\ k.copy.flow /\ ~HasFlow THEN gStray \cup {t} ELSE gStray
           /\ k.verb = "update" \/ (k.verb = "import" /\ k.todo = {}) => Wires(c, k)
           /\ k.verb \in Singles => Ends(c)
           /\ k.verb \notin Singles \cup {"update"} /\ (k.verb = "import" => k.todo # {}) =>
                Becomes(c, [k EXCEPT !.at = "each", !.id = NoGRow, !.copy = NoGRow])
           /\ UNCHANGED <<gEdges, gFlow, gToCome>>
<1> DEFINE k == gCall[c]
           t == k.id
           written == HasGRow(t) \/ k.verb \in {"update", "import"}
           onward == [k EXCEPT !.at = "each", !.id = NoGRow, !.copy = NoGRow]
<1>1. gRow' = IF written THEN [gRow EXCEPT ![t] = k.copy] ELSE gRow
  BY DEF WritesGRow, Upserts, Is
<1>2. gOdd' = IF k.verb = "import" /\ HasGRow(t)
              THEN gOdd \cup LinksOf(t, gRow[t].deps \ k.copy.deps) ELSE gOdd
  BY DEF WritesGRow
<1>3. gStray' = IF written /\ k.copy.flow /\ ~HasFlow THEN gStray \cup {t} ELSE gStray
  BY DEF WritesGRow, Upserts, Is
<1>4. (CASE k.verb = "update" -> Wires(c, k)
         [] k.verb = "import" /\ k.todo = {} -> Wires(c, k)
         [] k.verb \in Singles -> Ends(c)
         [] OTHER -> Becomes(c, onward))
  BY DEF WritesGRow
<1> HIDE DEF onward, k
<1>5. k.verb = "update" \/ (k.verb = "import" /\ k.todo = {}) => Wires(c, k)
  BY <1>4 DEF Singles
<1>6. k.verb \in Singles => Ends(c)
  BY <1>4 DEF Singles
<1>7. k.verb \notin Singles \cup {"update"} /\ (k.verb = "import" => k.todo # {}) => Becomes(c, onward)
  BY <1>4 DEF Singles
<1>8. UNCHANGED <<gEdges, gFlow, gToCome>>
  BY DEF WritesGRow
<1> QED
  BY <1>1, <1>2, <1>3, <1>5, <1>6, <1>7, <1>8 DEF onward, k

\* A row is written: an edit, an import, or a transition of what was read.
LEMMA UpdateWrites ==
  ASSUME GraphInv, NEW c \in Callers, WritesGRow(c), gCall[c].verb = "update", gMessy' = gMessy \cup Contested'
  PROVE  GraphInv'
<1>1. PICK k \in CallRecords : k = gCall[c]
  BY CallHas
<1>2. /\ k.at = "write" /\ k.verb = "update" /\ Shaped(k) /\ EdgeSafe(k) /\ RunSafe(c, k)
      /\ k.id \in GTasks /\ k.copy \in GRows /\ Mends(k) = {} /\ gToCome \in ToComes
      /\ k.cut \cup k.wire \subseteq LinksOf(k.id, GTasks)
  BY <1>1, CallHas DEF WritesGRow, CallAt, Shaped, InHand
<1> DEFINE t == k.id
<1>3. /\ gRow' = [gRow EXCEPT ![t] = k.copy] /\ gOdd' = gOdd
      /\ gStray' = IF k.copy.flow /\ ~HasFlow THEN gStray \cup {t} ELSE gStray
      /\ Wires(c, k) /\ UNCHANGED <<gEdges, gFlow, gToCome>>
  BY <1>1, <1>2, WriteDoes
<1>4. PICK call \in CallRecords :
         /\ Becomes(c, call) /\ Shaped(call) /\ call.at \in {"idle", "wire"}
         /\ call.cut = k.cut /\ call.wire = k.wire /\ Mends(call) = k.cut \cup k.wire
         /\ \A u \in GTasks : u \in Held(call) =>
              u = k.id \/ \E d \in GTasks : <<u, d>> \in k.cut \cup k.wire
  BY <1>2, <1>3, WiresOn DEF Wirers
<1>5. /\ gRow' \in [GTasks -> GRows \cup {NoGRow}] /\ gRow'[t] = k.copy
      /\ \A u \in GTasks \ {t} : gRow'[u] = gRow[u]
  BY <1>2, <1>3 DEF GraphInv, GraphFrame
<1>6. Frames
  BY <1>2, <1>3, <1>5 DEF Frames, GraphInv, GraphFrame, ToComes
<1>7. HasGRow(t)' /\ (t \in FlowTasks' <=> k.copy.flow)
  BY <1>2, <1>5, GraphConstants DEF HasGRow, FlowTasks
<1>8. /\ gMessy \subseteq gMessy' /\ gCall'[c] = call /\ t \in Held(k)
      /\ \A a \in Callers \ {c} : gCall'[a] = gCall[a] /\ gCall[a] \in CallRecords
  BY <1>2, <1>4, HeldBy DEF Becomes, GraphInv, GraphFrame
<1>9. ASSUME t \notin gMessy
      PROVE  /\ HasGRow(t) /\ k.copy.deps = k.mine
             /\ k.cut = LinksOf(t, gRow[t].deps \ k.mine) /\ k.wire = LinksOf(t, k.mine \ gRow[t].deps)
  BY <1>2, <1>8, <1>9 DEF EdgeSafe, KnowsTask
<1>10. ASSUME t \notin gMessy' PROVE RowMatches(t)'
  <2>1. RowMatches(t) /\ HasGRow(t)
    BY <1>2, <1>8, <1>9, <1>10 DEF GraphInv
  <2>2. ASSUME NEW a \in Callers \ {c} PROVE t \notin Held(gCall[a])
    BY <1>1, <1>2, <1>8, <1>10, HoldsAlone
  <2>3. \A a \in Callers : ~(gCall[a].at = "drop" /\ gCall[a].id = t)
    BY <1>1, <1>2, <1>8, <2>2, HeldBy
  <2>4. \A a \in Callers, d \in GTasks : <<t, d>> \notin Mends(gCall[a])
    BY <1>1, <1>2, <1>8, <2>2, HeldBy
  <2>5. \A d \in GTasks : Differs(t, d) => <<t, d>> \in gOdd
    BY <2>1, <2>3, <2>4 DEF RowMatches
  <2>6. ASSUME NEW d \in GTasks, Differs(t, d)'
        PROVE  <<t, d>> \in gOdd' \/ <<t, d>> \in Mends(gCall'[c])
    <3>1. (d \in k.mine) # (<<t, d>> \in gEdges)
      BY <1>3, <1>5, <1>8, <1>9, <1>10, <2>6 DEF Differs
    <3>2. CASE (d \in k.mine) = (d \in gRow[t].deps)
      BY <1>3, <2>5, <3>1, <3>2 DEF Differs
    <3>3. CASE (d \in k.mine) # (d \in gRow[t].deps)
      BY <1>4, <1>8, <1>9, <1>10, <3>3 DEF LinksOf
    <3> QED
      BY <3>2, <3>3
  <2> QED
    BY <1>7, <2>6 DEF RowMatches
<1>11. ASSUME NEW u \in Held(call) \ gMessy' PROVE KnowsTask(call, u)'
  <2>1. ASSUME NEW d \in GTasks, <<u, d>> \in Mends(call)
        PROVE  u = t /\ (<<t, d>> \in call.wire <=> d \in k.mine) /\ (<<t, d>> \in call.cut <=> d \notin k.mine)
    <3>1. u = t
      BY <1>2, <1>4, <2>1 DEF LinksOf
    <3> QED
      BY <1>4, <1>8, <1>9, <1>11, <2>1, <3>1 DEF LinksOf
  <2>2. t \notin gMessy' => gRow'[t].deps = k.mine
    BY <1>5, <1>8, <1>9
  <2> QED
    BY <1>4, <1>7, <1>11, <2>1, <2>2 DEF KnowsTask, InHand, HasGRow
<1>12. RunSafe(c, call)'
  BY <1>4 DEF RunSafe, InHand
<1>13. \A u \in GTasks \ {t} : KeepsTask(u)
  BY <1>3, <1>5 DEF KeepsTask, HasGRow
<1>14. /\ t \in FlowTasks' \ FlowTasks => t \in Excused'
       /\ ~HasFlow /\ t \in FlowTasks' => t \in Excused'
       /\ NotStarted /\ t \in FlowTasks' /\ gRow'[t].status = "running" => t \in Excused'
  BY <1>2, <1>3, <1>5, <1>7, <1>8 DEF RunSafe, InHand, Excused
<1> HIDE DEF t
<1> QED
  BY <1>1, <1>2, <1>3, <1>4, <1>5, <1>6, <1>8, <1>10, <1>11, <1>12, <1>13, <1>14, RowWriteKeeps DEF t

LEMMA ImportWrites ==
  ASSUME GraphInv, NEW c \in Callers, WritesGRow(c), gCall[c].verb = "import", gMessy' = gMessy \cup Contested'
  PROVE  GraphInv'
<1>1. PICK k \in CallRecords : k = gCall[c]
  BY CallHas
<1>2. /\ k.at = "write" /\ k.verb = "import" /\ Shaped(k) /\ EdgeSafe(k) /\ RunSafe(c, k)
      /\ k.id \in GTasks /\ k.copy \in GRows /\ gToCome \in ToComes
      /\ k.cut = {} /\ k.id \notin k.todo
      /\ Mends(k) = {e \in k.wire : e[1] \notin k.todo \cup {k.id}}
  BY <1>1, CallHas DEF WritesGRow, CallAt, Shaped, InHand, Mends, Wirers
<1> DEFINE t == k.id
<1>3. /\ gRow' = [gRow EXCEPT ![t] = k.copy]
      /\ gOdd' = IF HasGRow(t) THEN gOdd \cup LinksOf(t, gRow[t].deps \ k.copy.deps) ELSE gOdd
      /\ gStray' = IF k.copy.flow /\ ~HasFlow THEN gStray \cup {t} ELSE gStray
      /\ IF k.todo = {} THEN Wires(c, k)
         ELSE Becomes(c, [k EXCEPT !.at = "each", !.id = NoGRow, !.copy = NoGRow])
      /\ UNCHANGED <<gEdges, gFlow, gToCome>>
  BY <1>1, <1>2, WriteDoes DEF Singles
<1>4. PICK call \in CallRecords :
         /\ Becomes(c, call) /\ Shaped(call) /\ call.at \in {"idle", "wire", "each"}
         /\ call.cut = {} /\ call.wire = k.wire
         /\ \A u \in GTasks, d \in GTasks :
              <<u, d>> \in Mends(call) <=> <<u, d>> \in k.wire /\ u \notin k.todo
         /\ call.at = "each" => call.id = NoGRow
  <2>1. CASE k.todo = {}
    <3>1. PICK call \in CallRecords :
             /\ Becomes(c, call) /\ Shaped(call) /\ call.at \in {"idle", "wire"}
             /\ call.cut = k.cut /\ call.wire = k.wire /\ Mends(call) = k.cut \cup k.wire
      BY <1>2, <1>3, <2>1, WiresOn DEF Wirers
    <3> QED
      BY <1>2, <2>1, <3>1
  <2>2. CASE k.todo # {}
    <3> DEFINE call == [k EXCEPT !.at = "each", !.id = NoGRow, !.copy = NoGRow]
    <3>1. /\ call \in CallRecords /\ call.at = "each" /\ call.verb = "import" /\ call.id = NoGRow
          /\ call.cut = {} /\ call.wire = k.wire /\ call.todo = k.todo
      BY <1>2 DEF CallRecords, Places
    <3>2. Becomes(c, call)
      BY <1>3, <2>2
    <3> HIDE DEF call
    <3>3. Shaped(call)
      BY <2>2, <3>1 DEF Shaped, Wirers, InHand
    <3>4. \A u \in GTasks, d \in GTasks :
             <<u, d>> \in Mends(call) <=> <<u, d>> \in k.wire /\ u \notin k.todo
      BY <3>1, GraphConstants DEF Mends
    <3> QED
      BY <3>1, <3>2, <3>3, <3>4
  <2> QED
    BY <2>1, <2>2
<1>5. /\ gRow' \in [GTasks -> GRows \cup {NoGRow}] /\ gRow'[t] = k.copy
      /\ \A u \in GTasks \ {t} : gRow'[u] = gRow[u]
  BY <1>2, <1>3 DEF GraphInv, GraphFrame
<1>6. Frames
  <2>1. HasGRow(t) => LinksOf(t, gRow[t].deps \ k.copy.deps) \subseteq Links
    BY <1>2 DEF HasGRow, GraphInv, GraphFrame, GRows, LinksOf, Links
  <2>2. gOdd' \subseteq Links
    BY <1>3, <2>1 DEF GraphInv, GraphFrame
  <2>3. gStray' \subseteq GTasks /\ gStray \subseteq gStray'
    BY <1>2, <1>3 DEF GraphInv, GraphFrame
  <2> QED
    BY <1>2, <1>3, <1>5, <2>2, <2>3 DEF Frames, GraphInv, GraphFrame, ToComes
<1>7. HasGRow(t)' /\ (t \in FlowTasks' <=> k.copy.flow)
  BY <1>2, <1>5, GraphConstants DEF HasGRow, FlowTasks
<1>8. /\ gMessy \subseteq gMessy' /\ gCall'[c] = call /\ t \in Held(k)
      /\ \A a \in Callers \ {c} : gCall'[a] = gCall[a] /\ gCall[a] \in CallRecords
  BY <1>2, <1>4, HeldBy DEF Becomes, GraphInv, GraphFrame
<1>9. ASSUME t \notin gMessy PROVE \A d \in GTasks : d \in k.copy.deps <=> <<t, d>> \in k.wire
  BY <1>2, <1>8, <1>9 DEF EdgeSafe, KnowsTask
<1>10. ASSUME t \notin gMessy' PROVE RowMatches(t)'
  <2>1. RowMatches(t)
    BY <1>2, <1>8, <1>10 DEF GraphInv
  <2>2. ASSUME NEW a \in Callers \ {c} PROVE t \notin Held(gCall[a])
    BY <1>1, <1>2, <1>8, <1>10, HoldsAlone
  <2>3. \A a \in Callers : ~(gCall[a].at = "drop" /\ gCall[a].id = t)
    BY <1>1, <1>2, <1>8, <2>2, HeldBy
  <2>4. \A a \in Callers, d \in GTasks : <<t, d>> \notin Mends(gCall[a])
    BY <1>1, <1>2, <1>8, <2>2, HeldBy
  <2>5. ASSUME NEW d \in GTasks, Differs(t, d)', <<t, d>> \notin gOdd'
        PROVE  <<t, d>> \in Mends(gCall'[c])
    <3>1. (d \in k.copy.deps) # (<<t, d>> \in gEdges)
      BY <1>3, <1>5, <2>5 DEF Differs
    <3>2. CASE d \in k.copy.deps
      BY <1>2, <1>4, <1>8, <1>9, <1>10, <3>2
    <3>3. CASE d \notin k.copy.deps
      <4>1. HasGRow(t)
        BY <2>1, <3>1, <3>3 DEF RowMatches, Leafless
      <4>2. d \notin gRow[t].deps /\ <<t, d>> \notin gOdd
        BY <1>3, <2>5, <3>3, <4>1 DEF LinksOf
      <4> QED
        BY <2>1, <2>3, <2>4, <3>1, <3>3, <4>1, <4>2 DEF RowMatches, Differs
    <3> QED
      BY <3>2, <3>3
  <2> QED
    BY <1>7, <2>5 DEF RowMatches
<1>11. \A u \in Held(call) : u \in GTasks
  BY GraphConstants DEF Held, CallRecords, Links
<1>12. ASSUME NEW u \in GTasks, u \in Held(call) \ gMessy' PROVE KnowsTask(call, u)'
  <2>1. ASSUME NEW d \in GTasks, <<u, d>> \in Mends(call)
        PROVE  /\ HasGRow(u)' /\ (<<u, d>> \in call.wire <=> d \in gRow'[u].deps)
               /\ (<<u, d>> \in call.cut <=> d \notin gRow'[u].deps)
    <3>1. CASE u = t
      BY <1>4, <1>5, <1>7, <1>8, <1>9, <1>12, <2>1, <3>1
    <3>2. CASE u # t
      <4>1. <<u, d>> \in Mends(k)
        BY <1>2, <1>4, <2>1, <3>2
      <4>2. u \in Held(k) \ gMessy
        BY <1>8, <1>12, <4>1, HeldBy
      <4>3. KnowsTask(k, u)
        BY <1>2, <4>2 DEF EdgeSafe
      <4> QED
        BY <1>2, <1>4, <1>5, <3>2, <4>1, <4>3 DEF KnowsTask, HasGRow
    <3> QED
      BY <3>1, <3>2
  <2> QED
    BY <1>4, <1>12, <2>1 DEF KnowsTask, InHand, HasGRow
<1>13. RunSafe(c, call)'
  BY <1>4 DEF RunSafe, InHand
<1>14. ASSUME NEW u \in GTasks \ {t} PROVE KeepsTask(u)
  BY <1>3, <1>5, <1>14 DEF KeepsTask, HasGRow, LinksOf
<1>15. /\ t \in FlowTasks' \ FlowTasks => t \in Excused'
       /\ ~HasFlow /\ t \in FlowTasks' => t \in Excused'
       /\ NotStarted /\ t \in FlowTasks' /\ gRow'[t].status = "running" => t \in Excused'
  BY <1>2, <1>3, <1>5, <1>7, <1>8 DEF RunSafe, InHand, Excused
<1>16. \A u \in GTasks \ {t}, d \in GTasks : <<u, d>> \in Mends(k) => <<u, d>> \in Mends(call)
  BY <1>2, <1>4
<1> HIDE DEF t
<1> QED
  BY <1>1, <1>2, <1>3, <1>4, <1>5, <1>6, <1>8, <1>10, <1>11, <1>12, <1>13, <1>14, <1>15, <1>16, RowWriteKeeps DEF t

\* A row in hand that keeps the dependencies and the workflow of the row read.
LEMMA CopyWrites ==
  ASSUME GraphInv, NEW c \in Callers, NEW k \in CallRecords, k = gCall[c],
         k.at \in InHand, k.verb \notin Wirers, gMessy' = gMessy \cup Contested',
         gRow' = IF HasGRow(k.id) THEN [gRow EXCEPT ![k.id] = k.copy] ELSE gRow,
         UNCHANGED <<gEdges, gFlow, gToCome, gOdd>>, gStray \subseteq gStray', gStray' \subseteq GTasks,
         ~HasFlow /\ HasGRow(k.id) /\ k.copy.flow => k.id \in gStray' \cup gMessy,
         NEW call \in CallRecords, Becomes(c, call), call.verb \notin Wirers,
         call.cut = {}, call.wire = {}, call.at \in {"idle", "each", "claim"},
         c = Tick /\ call.at = "claim" =>
           k.at = "claiming" /\ call.todo = k.todo /\ call.mine = k.mine /\ call.shut = k.shut
  PROVE  GraphInv'
<1> DEFINE t == k.id
<1>1. /\ t \in GTasks /\ k.copy \in GRows /\ EdgeSafe(k) /\ RunSafe(c, k) /\ Mends(k) = {}
      /\ k.at # "drop" /\ gToCome \in ToComes
  BY CallHas DEF Shaped, InHand, Wirers
<1>2. /\ gRow' \in [GTasks -> GRows \cup {NoGRow}]
      /\ \A u \in GTasks \ {t} : gRow'[u] = gRow[u]
      /\ HasGRow(t) => gRow'[t] = k.copy
      /\ ~HasGRow(t) => gRow'[t] = gRow[t]
  BY <1>1 DEF GraphInv, GraphFrame
<1>3. HasGRow(t)' <=> HasGRow(t)
  BY <1>1, <1>2, GraphConstants DEF HasGRow
<1>4. Frames
  BY <1>1, <1>2 DEF Frames, GraphInv, GraphFrame, ToComes
<1>5. /\ gMessy \subseteq gMessy' /\ gCall'[c] = call /\ t \in Held(k)
      /\ \A a \in Callers \ {c} : gCall'[a] = gCall[a] /\ gCall[a] \in CallRecords
  BY <1>1, HeldBy DEF Becomes, GraphInv, GraphFrame
<1>6. t \in FlowTasks' <=> HasGRow(t) /\ k.copy.flow
  <2>1. t \in FlowTasks' <=> HasGRow(t) /\ gRow'[t].flow
    BY <1>1, <1>3 DEF FlowTasks, HasGRow
  <2> QED
    BY <1>2, <2>1
<1>7. ASSUME t \notin gMessy' PROVE RowMatches(t)'
  <2>1. KnowsTask(k, t) /\ RowMatches(t)
    BY <1>1, <1>5, <1>7 DEF EdgeSafe, GraphInv
  <2>2. HasGRow(t) /\ k.copy.deps = gRow[t].deps
    BY <2>1 DEF KnowsTask, InHand
  <2>3. KeepsTask(t)
    BY <1>2, <1>3, <2>2 DEF KeepsTask
  <2>4. ASSUME NEW a \in Callers
        PROVE  /\ gCall[a].at = "drop" /\ gCall[a].id = t => gCall'[a].at = "drop" /\ gCall'[a].id = t
               /\ \A d \in GTasks : <<t, d>> \in Mends(gCall[a]) => <<t, d>> \in Mends(gCall'[a])
    BY <1>1, <1>5
  <2> QED
    BY <1>1, <2>1, <2>3, <2>4, MatchStays
<1>8. \A u \in GTasks \ {t} : KeepsTask(u)
  BY <1>2 DEF KeepsTask, HasGRow
<1>9. Mends(call) = {} /\ Shaped(call)
  BY DEF Mends, Shaped, Wirers, InHand
<1>10. \A u \in Held(call) \ gMessy' : KnowsTask(call, u)'
  BY <1>9 DEF KnowsTask, Wirers, InHand
<1>11. Excused \subseteq Excused' /\ (NotStarted' <=> NotStarted)
  BY <1>5 DEF Excused, NotStarted, HasFlow
<1>12. t \in FlowTasks' \ FlowTasks => t \in Excused'
  BY <1>1, <1>5, <1>6 DEF RunSafe, InHand, Excused
<1>13. RunSafe(c, call)'
  <2>1. ASSUME c = Tick, NotStarted, call.at = "claim" PROVE ClaimsSafely(call)'
    <3>1. ClaimsSafely(k)
      BY <1>1, <2>1 DEF RunSafe
    <3>2. \A u \in FlowTasks' : u \in FlowTasks \/ u \in Excused'
      BY <1>2, <1>12 DEF FlowTasks, HasGRow
    <3> QED
      BY <1>11, <2>1, <3>1, <3>2 DEF ClaimsSafely
  <2> QED
    BY <1>11, <2>1 DEF RunSafe, InHand
<1>14. /\ ~HasFlow /\ t \in FlowTasks' => t \in Excused'
       /\ NotStarted /\ t \in FlowTasks' /\ gRow'[t].status = "running" => t \in Excused'
  BY <1>1, <1>2, <1>5, <1>6, <1>11 DEF RunSafe, InHand, Excused
<1> HIDE DEF t
<1> QED
  BY <1>1, <1>2, <1>4, <1>5, <1>7, <1>8, <1>9, <1>10, <1>12, <1>13, <1>14, RowWriteKeeps DEF t

LEMMA WritesGRowKeeps ==
  ASSUME GraphInv, NEW c \in Callers, WritesGRow(c),
         gMessy' = gMessy \cup Contested'
  PROVE  GraphInv'
<1>1. PICK k \in CallRecords : k = gCall[c]
  BY CallHas
<1>2. k.at = "write" /\ Shaped(k) /\ gStray \subseteq GTasks
  BY <1>1, CallHas DEF WritesGRow, CallAt, GraphInv, GraphFrame
<1>3. CASE k.verb \notin Wirers
  <2>1. k.id \in GTasks /\ k.cut = {} /\ k.wire = {}
    BY <1>2, <1>3 DEF Shaped, InHand
  <2>2. /\ gRow' = IF HasGRow(k.id) THEN [gRow EXCEPT ![k.id] = k.copy] ELSE gRow
        /\ UNCHANGED <<gEdges, gFlow, gToCome, gOdd>>
        /\ gStray' = IF HasGRow(k.id) /\ k.copy.flow /\ ~HasFlow THEN gStray \cup {k.id} ELSE gStray
        /\ k.verb \in Singles => Ends(c)
        /\ k.verb \notin Singles => Becomes(c, [k EXCEPT !.at = "each", !.id = NoGRow, !.copy = NoGRow])
    BY <1>1, <1>3, WriteDoes DEF Wirers
  <2>3. PICK call \in CallRecords :
           /\ Becomes(c, call) /\ call.verb \notin Wirers
           /\ call.cut = {} /\ call.wire = {} /\ call.at \in {"idle", "each"}
    <3>1. CASE k.verb \in Singles
      BY <2>2, <3>1, NoCallHas DEF Ends
    <3>2. CASE k.verb \notin Singles
      <4> DEFINE call == [k EXCEPT !.at = "each", !.id = NoGRow, !.copy = NoGRow]
      <4>1. /\ call \in CallRecords /\ call.at = "each" /\ call.verb = k.verb
            /\ call.cut = {} /\ call.wire = {}
        BY <2>1 DEF CallRecords, Places
      <4>2. Becomes(c, call)
        BY <2>2, <3>2
      <4> HIDE DEF call
      <4> QED
        BY <1>3, <4>1, <4>2
    <3> QED
      BY <3>1, <3>2
  <2>4. gStray \subseteq gStray' /\ gStray' \subseteq GTasks
        /\ (~HasFlow /\ HasGRow(k.id) /\ k.copy.flow => k.id \in gStray')
    BY <1>2, <2>1, <2>2
  <2> QED
    BY <1>1, <1>2, <1>3, <2>2, <2>3, <2>4, CopyWrites DEF InHand
<1>4. CASE k.verb \in Wirers
  <2>1. k.verb \in {"update", "import"}
    BY <1>2, <1>4 DEF Shaped, Wirers
  <2> QED
    BY <1>1, <2>1, UpdateWrites, ImportWrites
<1> QED
  BY <1>3, <1>4

LEMMA TickWritesClaimKeeps ==
  ASSUME GraphInv, TickWritesClaim,
         gMessy' = gMessy \cup Contested'
  PROVE  GraphInv'
<1> DEFINE c == Tick
<1>1. PICK k \in CallRecords : k = gCall[c]
  BY CallHas DEF Callers
<1>2. c \in Callers /\ k.at = "claiming" /\ Shaped(k) /\ gStray \subseteq GTasks
  BY <1>1, CallHas DEF TickWritesClaim, CallAt, GraphInv, GraphFrame, Callers
<1>3. k.verb \notin Wirers /\ k.id \in GTasks /\ k.cut = {} /\ k.wire = {} /\ k.copy \in GRows
  BY <1>2 DEF Shaped, Wirers, InHand
<1> DEFINE call == [k EXCEPT !.at = "claim", !.id = NoGRow, !.copy = NoGRow]
<1>4. /\ gRow' = IF HasGRow(k.id) THEN [gRow EXCEPT ![k.id] = k.copy] ELSE gRow
      /\ UNCHANGED <<gEdges, gFlow, gToCome, gOdd, gStray>> /\ Becomes(c, call)
  BY <1>1 DEF TickWritesClaim, ghosts
<1>5. /\ call \in CallRecords /\ call.at = "claim" /\ call.verb = k.verb /\ call.cut = {}
      /\ call.wire = {} /\ call.todo = k.todo /\ call.mine = k.mine /\ call.shut = k.shut
  BY <1>3 DEF CallRecords, Places
<1>6. ~HasFlow /\ HasGRow(k.id) /\ k.copy.flow => k.id \in Excused
  <2>1. k.copy.flow => k.id \in FlowTasks \cup gMessy
    BY <1>1, <1>2, CallHas DEF RunSafe, InHand
  <2> QED
    BY <2>1 DEF GraphInv, FlowInv, Excused
<1> HIDE DEF call, c
<1> QED
  BY <1>1, <1>2, <1>3, <1>4, <1>5, <1>6, CopyWrites DEF InHand, Excused

\* A row is dropped after its edges were cut.
LEMMA DropsTaskKeeps ==
  ASSUME GraphInv, NEW c \in Callers, DropsTask(c),
         gMessy' = gMessy \cup Contested'
  PROVE  GraphInv'
<1>1. PICK k \in CallRecords : k = gCall[c]
  BY CallHas
<1>2. /\ k.at = "drop" /\ Shaped(k) /\ EdgeSafe(k) /\ k.id \in GTasks /\ Mends(k) = {}
      /\ k.verb \in {"delete", "deleteFlow"} /\ k.cut = {} /\ k.wire = {} /\ gToCome \in ToComes
  BY <1>1, CallHas DEF DropsTask, CallAt, Shaped, Wirers
<1> DEFINE t == k.id
<1>3. /\ gRow' = [gRow EXCEPT ![t] = NoGRow]
      /\ UNCHANGED <<gEdges, gFlow, gToCome, gOdd, gStray>>
      /\ Becomes(c, NoGCall) \/ Becomes(c, [k EXCEPT !.at = "each", !.id = NoGRow])
  BY <1>1 DEF DropsTask, DropsRow, Ends, ghosts
<1>4. PICK call \in CallRecords :
         /\ Becomes(c, call) /\ call.verb \notin Wirers /\ call.id = NoGRow
         /\ call.cut = {} /\ call.wire = {} /\ call.at \in {"idle", "each"}
  <2>1. CASE Becomes(c, NoGCall)
    BY <2>1, NoCallHas
  <2>2. CASE Becomes(c, [k EXCEPT !.at = "each", !.id = NoGRow])
    <3> DEFINE call == [k EXCEPT !.at = "each", !.id = NoGRow]
    <3>1. /\ call \in CallRecords /\ call.at = "each" /\ call.verb = k.verb /\ call.id = NoGRow
          /\ call.cut = {} /\ call.wire = {}
      BY <1>2 DEF CallRecords, Places
    <3>2. Becomes(c, call)
      BY <2>2
    <3> HIDE DEF call
    <3> QED
      BY <1>2, <3>1, <3>2 DEF Wirers
  <2> QED
    BY <1>3, <2>1, <2>2
<1>5. /\ gRow' \in [GTasks -> GRows \cup {NoGRow}] /\ gRow'[t] = NoGRow
      /\ \A u \in GTasks \ {t} : gRow'[u] = gRow[u]
  BY <1>2, <1>3 DEF GraphInv, GraphFrame
<1>6. Frames
  BY <1>2, <1>3, <1>5 DEF Frames, GraphInv, GraphFrame, ToComes
<1>7. gMessy \subseteq gMessy' /\ t \in Held(k)
  BY <1>2, HeldBy DEF GraphInv, GraphFrame
<1>8. ~HasGRow(t)' /\ t \notin FlowTasks'
  BY <1>5 DEF HasGRow, FlowTasks
<1>9. ASSUME t \notin gMessy' PROVE RowMatches(t)'
  <2>1. Leafless(t)
    BY <1>2, <1>7, <1>9 DEF EdgeSafe, KnowsTask
  <2> QED
    BY <1>3, <1>8, <2>1 DEF RowMatches, Leafless
<1>10. \A u \in GTasks \ {t} : KeepsTask(u)
  BY <1>3, <1>5 DEF KeepsTask, HasGRow
<1>11. Mends(call) = {} /\ Shaped(call)
  BY <1>4 DEF Mends, Shaped, Wirers, InHand
<1>12. \A u \in Held(call) \ gMessy' : KnowsTask(call, u)'
  BY <1>4, <1>11 DEF KnowsTask, Wirers, InHand
<1>13. RunSafe(c, call)'
  BY <1>4 DEF RunSafe, InHand
<1> HIDE DEF t
<1> QED
  BY <1>1, <1>2, <1>3, <1>4, <1>5, <1>6, <1>7, <1>8, <1>9, <1>10, <1>11, <1>12, <1>13, RowWriteKeeps DEF t

LEMMA CutKeeps ==
  ASSUME GraphInv, NEW c \in Callers, NEW t \in GTasks, CutsEdges(t),
         UNCHANGED <<gRow, gFlow, gStray>>, gToCome' \in ToComes, gMessy' = gMessy \cup Contested',
         NEW call \in CallRecords, Becomes(c, call), call.at = "drop", call.id = t,
         call.verb \in {"delete", "deleteFlow"}, call.cut = {}, call.wire = {},
         Mends(gCall[c]) = {}, gCall[c].at # "drop"
  PROVE  GraphInv'
<1>1. /\ gEdges' = {e \in gEdges : t \notin {e[1], e[2]}}
      /\ gOdd' = gOdd \cup {e \in gEdges : e[2] = t}
  BY DEF CutsEdges
<1>2. Frames
  BY <1>1 DEF Frames, GraphInv, GraphFrame, ToComes
<1>3. gMessy \subseteq gMessy' /\ gCall'[c] = call /\ t \in Held(call)
  BY HeldBy DEF Becomes, GraphInv, GraphFrame
<1>4. Leafless(t)'
  BY <1>1 DEF Leafless
<1>5. RowMatches(t)'
  BY <1>3, <1>4 DEF RowMatches
<1>6. ASSUME NEW u \in GTasks \ {t} PROVE KeepsTask(u)
  BY <1>1, <1>6 DEF KeepsTask, HasGRow
<1>7. Mends(call) = {} /\ Shaped(call)
  BY DEF Mends, Shaped, Wirers, InHand
<1>8. \A u \in Held(call) \ gMessy' : KnowsTask(call, u)'
  BY <1>4, <1>7 DEF KnowsTask, Wirers, InHand
<1>9. RunSafe(c, call)'
  BY DEF RunSafe, InHand
<1>10. FlowTasks' = FlowTasks /\ Excused \subseteq Excused'
  BY <1>3 DEF FlowTasks, HasGRow, Excused
<1>11. /\ ~HasFlow => FlowTasks \subseteq Excused
       /\ NotStarted /\ t \in FlowTasks /\ gRow[t].status = "running" => t \in Excused
  BY DEF GraphInv, FlowInv, CreateIsNotRun, NotStarted, Where, FlowTasks, Excused
<1> QED
  BY <1>2, <1>3, <1>5, <1>6, <1>7, <1>8, <1>9, <1>10, <1>11, RowWriteKeeps

LEMMA DeletesKeep ==
  ASSUME GraphInv, NEW c \in Callers, DeletesGTask(c) \/ DeletesFlowTask(c), gMessy' = gMessy \cup Contested'
  PROVE  GraphInv'
<1>1. CASE DeletesGTask(c)
  <2>1. PICK t \in GTasks : CutsEdges(t) /\ Becomes(c, [Fresh("delete", "drop") EXCEPT !.id = t])
    BY <1>1 DEF DeletesGTask
  <2>2. UNCHANGED <<gRow, gFlow, gStray>> /\ Requests(c, "delete")
    BY <1>1 DEF DeletesGTask
  <2>3. /\ gCall[c].at # "drop" /\ Mends(gCall[c]) = {} /\ gToCome' \in ToComes
        /\ "delete" \in Verbs /\ "drop" \in Places
    BY <2>2, RequestTaken DEF Places
  <2> DEFINE call == [Fresh("delete", "drop") EXCEPT !.id = t]
  <2>4. /\ call \in CallRecords /\ call.verb = "delete" /\ call.at = "drop" /\ call.id = t
        /\ call.cut = {} /\ call.wire = {}
    BY <2>3, FreshOf
  <2>5. Becomes(c, call)
    BY <2>1
  <2> HIDE DEF call
  <2> QED
    BY <2>1, <2>2, <2>3, <2>4, <2>5, CutKeeps
<1>2. CASE DeletesFlowTask(c)
  <2>1. PICK k \in CallRecords : k = gCall[c]
    BY CallHas
  <2>2. /\ k.at = "each" /\ k.verb = "deleteFlow" /\ k.todo # {} /\ Shaped(k) /\ Mends(k) = {}
        /\ k.cut = {} /\ k.wire = {} /\ gToCome \in ToComes
    BY <1>2, <2>1, CallHas DEF DeletesFlowTask, CallAt, Is, Shaped, Wirers
  <2> DEFINE t == Foremost(k.todo)
             call == [k EXCEPT !.at = "drop", !.id = t, !.todo = @ \ {t}]
  <2>3. t \in GTasks
    BY <2>2, ForemostIn DEF CallRecords
  <2>4. CutsEdges(t) /\ Becomes(c, call) /\ UNCHANGED <<gRow, gFlow, gToCome, gStray>>
    BY <1>2, <2>1 DEF DeletesFlowTask
  <2>5. /\ call \in CallRecords /\ call.verb = "deleteFlow" /\ call.at = "drop" /\ call.id = t
        /\ call.cut = {} /\ call.wire = {}
    <3> HIDE DEF t
    <3> QED
      BY <2>2, <2>3 DEF CallRecords, Places
  <2> HIDE DEF call, t
  <2> QED
    BY <2>1, <2>2, <2>3, <2>4, <2>5, CutKeeps
<1> QED
  BY <1>1, <1>2

\* The end of a run, and the daemon's.
LEMMA TaskEndsKeeps ==
  ASSUME GraphInv, NEW t \in GTasks, TaskEnds(t),
         gMessy' = gMessy \cup Contested'
  PROVE  GraphInv'
<1> DEFINE c == Tick
<1>1. PICK k \in CallRecords : k = gCall[c]
  BY CallHas DEF Callers
<1>2. PICK s \in {"done", "blocked"} : gRow' = [gRow EXCEPT ![t].status = s]
  BY DEF TaskEnds
<1>3. HasGRow(t) /\ UNCHANGED <<gEdges, gFlow, gCall, gToCome, gOdd, gStray>>
  BY DEF TaskEnds, Where, ghosts
<1>4. gRow[t] \in GRows /\ gRow \in [GTasks -> GRows \cup {NoGRow}]
  BY <1>3 DEF HasGRow, GraphInv, GraphFrame
<1> DEFINE row == [gRow[t] EXCEPT !.status = s]
<1>5. row \in GRows /\ row.deps = gRow[t].deps /\ row.flow = gRow[t].flow /\ row.status = s
  BY <1>4 DEF GRows, GStatus, Status
<1>6. gRow' = [gRow EXCEPT ![t] = row]
  BY <1>2, <1>4
<1> HIDE DEF row
<1>7. /\ gRow' \in [GTasks -> GRows \cup {NoGRow}] /\ gRow'[t] = row
      /\ \A u \in GTasks \ {t} : gRow'[u] = gRow[u]
  BY <1>4, <1>5, <1>6
<1>8. Frames
  BY <1>3, <1>7 DEF Frames, GraphInv, GraphFrame
<1>9. \A u \in GTasks : KeepsTask(u)
  <2>1. HasGRow(t)'
    BY <1>5, <1>7, GraphConstants DEF HasGRow
  <2> QED
    BY <1>3, <1>5, <1>7, <2>1 DEF KeepsTask, HasGRow
<1>10. /\ FlowTasks' = FlowTasks /\ gMessy \subseteq gMessy' /\ Excused \subseteq Excused'
       /\ (HasFlow' <=> HasFlow) /\ (NotStarted' <=> NotStarted)
  <2>1. HasGRow(t)'
    BY <1>5, <1>7, GraphConstants DEF HasGRow
  <2>2. FlowTasks' = FlowTasks
    BY <1>3, <1>5, <1>7, <2>1 DEF FlowTasks, HasGRow
  <2> QED
    BY <1>3, <2>2 DEF Excused, HasFlow, NotStarted
<1>11. ASSUME NEW d \in Callers PROVE RunSafe(d, gCall[d])'
  <2>1. PICK j \in CallRecords : j = gCall[d] /\ gCall'[d] = j
    BY <1>3, CallHas
  <2>2. RunSafe(d, j)
    BY <2>1 DEF GraphInv
  <2>3. RunSafe(d, j)'
    BY <1>10, <2>2 DEF RunSafe, ClaimsSafely
  <2> QED
    BY <2>1, <2>3 DEF RunSafe, ClaimsSafely
<1>12. FlowInv'
  BY <1>3, <1>10 DEF GraphInv, FlowInv
<1>13. CreateIsNotRun'
  <2>1. \A u \in FlowTasks' : gRow'[u].status = "running" => gRow[u].status = "running"
    BY <1>5, <1>7, <1>10 DEF FlowTasks
  <2>2. NotStarted => \A u \in FlowTasks : gRow[u].status = "running" => u \in Excused
    BY DEF GraphInv, CreateIsNotRun, NotStarted, Where, FlowTasks, Excused
  <2>3. NotStarted' => \A u \in FlowTasks' : gRow'[u].status = "running" => u \in Excused'
    BY <1>10, <2>1, <2>2
  <2> QED
    BY <2>3 DEF CreateIsNotRun, NotStarted, Where, Excused
<1>14. ASSUME NEW u \in GTasks \ gMessy' PROVE RowMatches(u)'
  <2>1. RowMatches(u) /\ KeepsTask(u)
    BY <1>9, <1>10 DEF GraphInv
  <2> QED
    BY <1>3, <2>1, MatchStays
<1>15. ASSUME NEW u \in Held(k) \ gMessy' PROVE KnowsTask(k, u)'
  <2>1. u \in GTasks
    BY GraphConstants DEF Held, CallRecords, Links
  <2>2. KnowsTask(k, u)
    BY <1>1, <1>10, <1>15, CallHas DEF EdgeSafe, Callers
  <2> QED
    BY <1>9, <2>1, <2>2, StillKnown
<1>16. Becomes(c, k) /\ Shaped(k) /\ c \in Callers
  BY <1>1, <1>3, CallHas DEF Becomes, GraphInv, GraphFrame, Callers
<1>17. RunSafe(c, k)'
  BY <1>1, <1>3, <1>11, <1>16 DEF RunSafe, ClaimsSafely
<1> HIDE DEF c
<1> QED
  BY <1>1, <1>8, <1>9, <1>11, <1>12, <1>13, <1>14, <1>15, <1>16, <1>17, StepKeeps

LEMMA GraphDiesKeeps == ASSUME GraphInv, GraphDies PROVE GraphInv'
<1>1. /\ gCall' = [c \in Callers |-> NoGCall] /\ UNCHANGED <<gRow, gEdges, gFlow, gOdd, gStray>>
      /\ gToCome' = [gToCome EXCEPT !.deaths = @ - 1] /\ gToCome.deaths > 0
      /\ gMessy' = gMessy \cup UNION {WrittenBy(c) : c \in Callers}
  BY DEF GraphDies, ghosts
<1>2. \A c \in Callers : WrittenBy(c) = Held(gCall[c]) /\ Held(gCall[c]) \subseteq GTasks
  BY CallHas DEF WrittenBy, Held, CallRecords, Links
<1>3. gMessy \subseteq gMessy' /\ gMessy' \subseteq GTasks
  BY <1>1, <1>2 DEF GraphInv, GraphFrame
<1>4. gToCome' \in ToComes
  BY <1>1 DEF GraphInv, GraphFrame, ToComes
<1>5. GraphFrame'
  BY <1>1, <1>3, <1>4, NoCallHas DEF GraphInv, GraphFrame, ToComes
<1>6. ASSUME NEW c \in Callers PROVE Shaped(gCall'[c]) /\ EdgeSafe(gCall[c])' /\ RunSafe(c, gCall[c])'
  <2>1. gCall'[c] = NoGCall
    BY <1>1
  <2>2. Shaped(NoGCall)
    BY NoCallHas DEF Shaped, Wirers, InHand
  <2>3. EdgeSafe(gCall[c])'
    BY <2>1, NoCallHas DEF EdgeSafe
  <2>4. RunSafe(c, gCall[c])'
    BY <2>1, NoCallHas DEF RunSafe, InHand
  <2> QED
    BY <2>1, <2>2, <2>3, <2>4
<1>7. Contested' = {}
  <2>1. \A c \in Callers : WrittenBy(c)' = {}
    <3>1. \A c \in Callers : gCall'[c] = NoGCall
      BY <1>1
    <3>2. Held(NoGCall) = {}
      BY NoCallHas
    <3> QED
      BY <3>1, <3>2 DEF WrittenBy, Held
  <2> QED
    BY <2>1 DEF Contested
<1>8. FlowTasks' = FlowTasks /\ Excused \subseteq Excused'
  BY <1>1, <1>3 DEF FlowTasks, HasGRow, Excused
<1>9. FlowInv' /\ CreateIsNotRun'
  BY <1>1, <1>8 DEF FlowInv, CreateIsNotRun, GraphInv, Where, HasGRow, HasFlow, Excused
<1>10. ASSUME NEW t \in GTasks \ gMessy' PROVE RowMatches(t)'
  <2>1. RowMatches(t)
    BY <1>3 DEF GraphInv
  <2>2. \A c \in Callers : t \notin Held(gCall[c]) /\ gCall[c] \in CallRecords
    BY <1>1, <1>2, CallHas
  <2>3. KeepsTask(t)
    BY <1>1 DEF KeepsTask, HasGRow
  <2>4. ASSUME NEW a \in Callers
        PROVE  /\ gCall[a].at = "drop" /\ gCall[a].id = t => gCall'[a].at = "drop" /\ gCall'[a].id = t
               /\ \A d \in GTasks : <<t, d>> \in Mends(gCall[a]) => <<t, d>> \in Mends(gCall'[a])
    BY <2>2, HeldBy
  <2> QED
    BY <2>1, <2>3, <2>4, MatchStays
<1> QED
  BY <1>5, <1>6, <1>7, <1>9, <1>10 DEF GraphInv

LEMMA GraphBegins == GraphInit => GraphInv
<1> SUFFICES ASSUME GraphInit PROVE GraphInv
  OBVIOUS
<1>1. PICK b \in Boards : gFlow = b.flow /\ gRow = b.rows /\ gToCome = b.toCome
  BY DEF GraphInit
<1>2. /\ gEdges = {e \in Links : HasGRow(e[1]) /\ e[2] \in gRow[e[1]].deps}
      /\ gCall = [c \in Callers |-> NoGCall] /\ gOdd = {} /\ gMessy = {} /\ gStray = {}
  BY DEF GraphInit
<1>3. GraphFrame
  BY <1>1, <1>2, NoCallHas, GraphConstants DEF GraphFrame
<1>4. ASSUME NEW c \in Callers PROVE Shaped(gCall[c]) /\ EdgeSafe(gCall[c]) /\ RunSafe(c, gCall[c])
  <2>1. gCall[c] = NoGCall
    BY <1>2
  <2> QED
    BY <2>1, NoCallHas DEF EdgeSafe, Shaped, RunSafe, Wirers, InHand
<1>5. Contested = {}
  <2>1. \A c \in Callers : WrittenBy(c) = {}
    <3>1. \A c \in Callers : gCall[c] = NoGCall
      BY <1>2
    <3>2. Held(NoGCall) = {}
      BY NoCallHas
    <3> QED
      BY <3>1, <3>2 DEF WrittenBy, Held
  <2> QED
    BY <2>1 DEF Contested
<1>6. \A t \in FlowTasks : HasFlow /\ (gFlow.ever \/ gRow[t].status # "running")
  BY <1>1, GraphConstants DEF FlowTasks, HasGRow, HasFlow
<1>7. FlowInv /\ CreateIsNotRun
  <2>1. HasFlow => (gFlow.started => gFlow.ever)
    BY <1>1, GraphConstants DEF HasFlow
  <2> QED
    BY <1>6, <2>1 DEF FlowInv, CreateIsNotRun, Where
<1>8. ASSUME NEW t \in GTasks PROVE RowMatches(t)
  <2>1. \A d \in GTasks : <<t, d>> \in gEdges <=> HasGRow(t) /\ d \in gRow[t].deps
    BY <1>2 DEF Links
  <2> QED
    BY <2>1 DEF RowMatches, Differs, Leafless
<1> QED
  BY <1>2, <1>3, <1>4, <1>5, <1>7, <1>8 DEF GraphInv

LEMMA GraphStutters == ASSUME GraphInv, UNCHANGED gVars PROVE GraphInv'
<1>1. /\ UNCHANGED <<gRow, gEdges, gFlow, gCall, gToCome, gOdd, gMessy, gStray>>
  BY DEF gVars
<1>2. GraphFrame'
  BY <1>1 DEF GraphInv, GraphFrame
<1>3. ASSUME NEW c \in Callers PROVE Shaped(gCall'[c]) /\ EdgeSafe(gCall[c])' /\ RunSafe(c, gCall[c])'
  <2>1. Shaped(gCall[c]) /\ EdgeSafe(gCall[c]) /\ RunSafe(c, gCall[c])
    BY DEF GraphInv
  <2>2. EdgeSafe(gCall[c])'
    BY <1>1, <2>1 DEF EdgeSafe, KnowsTask, HasGRow, Leafless
  <2>3. RunSafe(c, gCall[c])'
    BY <1>1, <2>1 DEF RunSafe, ClaimsSafely, FlowTasks, HasGRow, NotStarted, HasFlow, Excused
  <2> QED
    BY <1>1, <2>1, <2>2, <2>3
<1>4. Contested' = Contested
  BY <1>1 DEF Contested, WrittenBy
<1>5. FlowInv' /\ CreateIsNotRun'
  BY <1>1 DEF GraphInv, FlowInv, CreateIsNotRun, FlowTasks, HasGRow, HasFlow, Where, Excused
<1>6. ASSUME NEW t \in GTasks \ gMessy' PROVE RowMatches(t)'
  <2>1. RowMatches(t) /\ KeepsTask(t)
    BY <1>1 DEF GraphInv, KeepsTask, HasGRow
  <2> QED
    BY <1>1, <2>1, MatchStays
<1> QED
  BY <1>1, <1>2, <1>3, <1>4, <1>5, <1>6 DEF GraphInv

\* A tick's step, a request's and the daemon's death keep the invariant.
LEMMA GraphInductive == GraphInv /\ [GraphNext]_gVars => GraphInv'
<1> SUFFICES ASSUME GraphInv, [GraphNext]_gVars PROVE GraphInv'
  OBVIOUS
<1>1. ASSUME NEW c \in Callers, Serves(c), gMessy' = gMessy \cup Contested' PROVE GraphInv'
  BY <1>1, InsertsTaskKeeps, LoadsTaskKeeps, WritesGRowKeeps, WiringKeeps, ImportsTaskKeeps,
     DropsTaskKeeps, ReadsToMoveKeeps, MarksFlowKeeps, ListsKeep, HandlesTaskKeeps, DeletesKeep,
     ClosesFlowKeeps, PromotesTaskKeeps DEF Serves
<1>2. ASSUME NEW c \in Authors, TakesUp(c), gMessy' = gMessy \cup Contested' PROVE GraphInv'
  BY <1>2, AddsTaskKeeps, UpdatesTaskKeeps, ImportsSeedsKeeps, DeletesKeep, MovesGTaskKeeps,
     CreatesFlowKeeps, AsksFlowKeeps, AsksPromoteKeeps DEF TakesUp, Callers
<1>3. ASSUME TickWorks, gMessy' = gMessy \cup Contested' PROVE GraphInv'
  BY <1>1, <1>3, AsksPromoteKeeps, TickListsReadyKeeps, TickReadsRunKeeps, TickClaimsKeeps,
     TickWritesClaimKeeps DEF TickWorks, Callers
<1>4. CASE GraphNext
  BY <1>1, <1>2, <1>3, <1>4, TaskEndsKeeps, GraphDiesKeeps DEF GraphNext, Alive, Callers
<1>5. CASE UNCHANGED gVars
  BY <1>5, GraphStutters
<1> QED
  BY <1>4, <1>5

\* The invariant says what a reader of rows and edges may rely on: a task that
\* nobody holds has nothing left to mend.
LEMMA UnheldMatch == GraphInv => GraphMatchesRows
<1> SUFFICES ASSUME GraphInv, NEW t \in GTasks, HasGRow(t), t \notin gMessy,
                    \A c \in Callers : t \notin WrittenBy(c), NEW d \in GTasks, Differs(t, d)
             PROVE  <<t, d>> \in gOdd
  BY DEF GraphMatchesRows, Differs
<1>1. \A c \in Callers : t \notin Held(gCall[c]) /\ gCall[c] \in CallRecords
  BY CallHas DEF WrittenBy, Held
<1>2. \A c \in Callers : ~(gCall[c].at = "drop" /\ gCall[c].id = t) /\ <<t, d>> \notin Mends(gCall[c])
  BY <1>1, HeldBy
<1> QED
  BY <1>2 DEF GraphInv, RowMatches

\* Row and graph agree on every task that nobody is writing, whatever
\* creations, edits, imports and deletions of any number of tasks, by any
\* number of requests at once, came before. (create_task, update_task,
\* delete_task, sync_seeds)
THEOREM GraphIsWhatRowsSay == GraphSpec => []GraphMatchesRows
<1>1. GraphInit => GraphInv
  BY GraphBegins
<1>2. GraphInv /\ [GraphNext]_gVars => GraphInv'
  BY GraphInductive
<1>3. GraphInv => GraphMatchesRows
  BY UnheldMatch
<1> QED
  BY <1>1, <1>2, <1>3, PTL DEF GraphSpec

\* A task of a workflow that was never started does not run, for any tasks,
\* requests and boards. (claim_and_spawn's guard)
THEOREM CreatingDoesNotRun == GraphSpec => []CreateIsNotRun
<1>1. GraphInit => GraphInv
  BY GraphBegins
<1>2. GraphInv /\ [GraphNext]_gVars => GraphInv'
  BY GraphInductive
<1>3. GraphInv => CreateIsNotRun
  BY DEF GraphInv
<1> QED
  BY <1>1, <1>2, <1>3, PTL DEF GraphSpec

-----------------------------------------------------------------------------
(***************************************************************************)
(* The types of the dispatch, gates and reactions alike: the registry's,   *)
(* the breakers' whose streak saturates, and the event queue's, whose      *)
(* chains of emissions the guard keeps short.                              *)
(***************************************************************************)
BreakersInType ==
    /\ breaker \in [ExtIds -> [streak : 0..StreakCap, tripped : BOOLEAN]]
    /\ alerts \in [ExtIds -> Nat]

\* A reactor is asked only while there is an event to ask it about.
EventsInType ==
    /\ evQueue \in Seq(Origins)
    /\ evTargets \subseteq evSet /\ evSet \subseteq ReactIds
    /\ evCount \in 0..MaxEvents
    /\ emitted \in [ReactIds -> 0..EmitsPerWindow]
    /\ evTargets # {} => Len(evQueue) > 0

DispatchInv ==
    /\ RegistryInv
    /\ BreakersInType
    /\ gateRun \in [Checkers -> GateRuns]
    /\ EventsInType

\* A fault leaves the registry and the breakers in type, and registers no one.
\* (Breaker::record_fault, disable on a trip)
LEMMA FaultKeepsTypes ==
  ASSUME RegistryInv, BreakersInType, NEW id \in ExtIds, RecordFault(id),
         UNCHANGED <<extRow, extBlobs, extReq>>
  PROVE  RegistryInv' /\ BreakersInType'
<1> DEFINE streak == Saturated(breaker[id].streak)
           trips == TripsNow(breaker[id], streak)
<1>1. StreakCap \in Nat
  BY CheckersAssumption, FS_CardinalityType, ThresholdAssumption DEF StreakCap
<1>2. streak \in 0..StreakCap /\ trips \in BOOLEAN
  BY <1>1 DEF BreakersInType, Saturated, TripsNow
<1>3. /\ breaker' = [breaker EXCEPT ![id] = [streak |-> streak,
                                             tripped |-> breaker[id].tripped \/ trips]]
      /\ alerts' = [alerts EXCEPT ![id] = @ + IF trips THEN 1 ELSE 0]
      /\ IF trips THEN RegistrySet(id, "on", FALSE) ELSE UNCHANGED extReg
  BY DEF RecordFault
<1> HIDE DEF streak, trips
<1>4. BreakersInType'
  BY <1>2, <1>3 DEF BreakersInType
<1>5. extReg' \in [ExtIds -> Maybe(Flags)] /\ \A i \in ExtIds : extReg'[i] # NoExt => extReg[i] # NoExt
  BY <1>3, NoExtAssumption DEF RegistryInv, RegistryTypeOK, RegistrySet, Registered, Maybe, Flags
<1>6. RegistryInv'
  BY <1>5 DEF RegistryInv, RegistryTypeOK, NoGhostRecord, WillSettle, Registered, Idle
<1> QED
  BY <1>4, <1>6

\* So does a clean run. (Breaker::record_success)
LEMMA SuccessKeepsTypes ==
  ASSUME RegistryInv, BreakersInType, NEW id \in ExtIds, RecordSuccess(id),
         UNCHANGED <<extRow, extBlobs, extReq>>
  PROVE  RegistryInv' /\ BreakersInType'
<1>1. BreakersInType'
  <2>1. StreakCap \in Nat
    BY CheckersAssumption, FS_CardinalityType, ThresholdAssumption DEF StreakCap
  <2> QED
    BY <2>1 DEF RecordSuccess, BreakersInType
<1>2. RegistryInv'
  BY DEF RecordSuccess, RegistryInv, RegistryTypeOK, NoGhostRecord, WillSettle, Registered, Idle
<1> QED
  BY <1>1, <1>2

\* A gate check keeps to its type. (run_gate_checks)
LEMMA ChecksKeepTypes ==
  ASSUME DispatchInv, GateChecks
  PROVE  DispatchInv'
<1> USE DEF DispatchInv
<1>r. UNCHANGED registryVars => RegistryInv'
  BY DEF registryVars, RegistryInv, RegistryTypeOK, NoGhostRecord, WillSettle, Registered, Idle
<1>e. UNCHANGED eventVars => EventsInType'
  BY DEF eventVars, EventsInType
<1>b. UNCHANGED <<breaker, alerts>> => BreakersInType'
  BY DEF BreakersInType
<1>1. ASSUME NEW l \in Checkers, GateBegins(l) \/ GateDecides(l) \/ GateLeaves(l)
      PROVE  DispatchInv'
  <2>1. UNCHANGED <<registryVars, breaker, alerts, eventVars>>
    BY <1>1 DEF GateBegins, GateDecides, GateLeaves
  <2>2. NoCheck \in GateRuns /\ DispatchSet(GateIds) \in SUBSET GateIds
    BY DEF NoCheck, GateRuns, GateStates, DispatchSet, FindByExport
  <2>3. gateRun' \in [Checkers -> GateRuns]
    <3>1. CASE GateBegins(l)
      <4>1. [NoCheck EXCEPT !.at = "run", !.left = DispatchSet(GateIds),
                            !.took = DispatchSet(GateIds)] \in GateRuns
        BY <2>2 DEF GateRuns, GateStates
      <4> QED
        BY <3>1, <4>1 DEF GateBegins
    <3>2. CASE GateDecides(l)
      BY <3>2 DEF GateDecides, GateRuns, GateStates
    <3>3. CASE GateLeaves(l)
      BY <2>2, <3>3 DEF GateLeaves
    <3> QED
      BY <1>1, <3>1, <3>2, <3>3
  <2> QED
    BY <2>1, <2>3, <1>r, <1>e, <1>b
<1>2. ASSUME NEW l \in Checkers, NEW id \in GateIds,
             GateFaults(l, id) \/ \E fails \in BOOLEAN : GateAnswers(l, id, fails)
      PROVE  DispatchInv'
  <2>1. /\ UNCHANGED <<extRow, extBlobs, extReq, eventVars>> /\ id \in ExtIds
        /\ RecordFault(id) \/ RecordSuccess(id)
    BY <1>2 DEF GateFaults, GateAnswers, ExtIds
  <2>2. gateRun' \in [Checkers -> GateRuns]
    BY <1>2 DEF GateFaults, GateAnswers, VerdictOfFault, GateRuns
  <2>3. RegistryInv' /\ BreakersInType'
    BY <2>1, FaultKeepsTypes, SuccessKeepsTypes
  <2> QED
    BY <2>1, <2>2, <2>3, <1>e
<1> QED
  BY <1>1, <1>2 DEF GateChecks

\* So do the reactions: an emission is one deeper than the event it answers,
\* which the guard has admitted, and counted against its window.
\* (CycleGuard, dispatch of reactions)
LEMMA ReactionsKeepTypes ==
  ASSUME DispatchInv, Reactions
  PROVE  DispatchInv'
<1> USE DEF DispatchInv
<1>r. UNCHANGED registryVars => RegistryInv'
  BY DEF registryVars, RegistryInv, RegistryTypeOK, NoGhostRecord, WillSettle, Registered, Idle
<1>g. UNCHANGED gateVars => BreakersInType' /\ gateRun' \in [Checkers -> GateRuns]
  BY DEF gateVars, BreakersInType
<1>1. CASE EventArrives
  <2>1. HostOrigin \in Origins
    BY GuardAssumption DEF HostOrigin, Origins
  <2>2. evSet' \subseteq ReactIds
    BY <1>1 DEF EventArrives, DispatchSet, FindByExport
  <2>3. EventsInType'
    BY <1>1, <2>1, <2>2, GuardAssumption DEF EventArrives, EventsInType
  <2> QED
    BY <1>1, <2>3, <1>r, <1>g DEF EventArrives
<1>2. CASE EventAdvances
  <2>1. /\ evQueue \in Seq(Origins) /\ evSet \subseteq ReactIds /\ evCount \in 0..MaxEvents
        /\ emitted' \in [ReactIds -> 0..EmitsPerWindow] /\ MaxEvents \in Nat
    BY <1>2, GuardAssumption DEF EventAdvances, EventsInType
  <2>2. CASE Len(evQueue) > 1 /\ evCount < MaxEvents
    <3>1. Tail(evQueue) \in Seq(Origins) /\ Len(Tail(evQueue)) > 0
      BY <2>1, <2>2
    <3>2. evQueue' = Tail(evQueue) /\ evTargets' = evSet /\ evSet' = evSet /\ evCount' = evCount + 1
      BY <1>2, <2>2 DEF EventAdvances
    <3>3. EventsInType'
      BY <2>1, <2>2, <3>1, <3>2 DEF EventsInType
    <3> QED
      BY <1>2, <3>3, <1>r, <1>g DEF EventAdvances
  <2>3. CASE ~(Len(evQueue) > 1 /\ evCount < MaxEvents)
    <3>1. evQueue' = <<>> /\ evTargets' = {} /\ evSet' = {} /\ evCount' = 0
      BY <1>2, <2>3 DEF EventAdvances
    <3>2. EventsInType'
      BY <2>1, <3>1 DEF EventsInType
    <3> QED
      BY <1>2, <3>2, <1>r, <1>g DEF EventAdvances
  <2> QED
    BY <2>2, <2>3
<1>3. ASSUME NEW id \in ReactIds, EventDropped(id) \/ WindowRolls(id) PROVE DispatchInv'
  <2>1. EventsInType'
    BY <1>3, GuardAssumption DEF EventDropped, WindowRolls, EventsInType
  <2> QED
    BY <1>3, <2>1, <1>r, <1>g DEF EventDropped, WindowRolls
<1>4. ASSUME NEW id \in ReactIds, EventFaults(id) PROVE DispatchInv'
  <2>1. EventsInType'
    BY <1>4 DEF EventFaults, EventsInType
  <2>2. RegistryInv' /\ BreakersInType'
    BY <1>4, FaultKeepsTypes DEF EventFaults, ExtIds
  <2> QED
    BY <1>4, <2>1, <2>2 DEF EventFaults
<1>5. ASSUME NEW id \in ReactIds, NEW emits \in BOOLEAN, EventReacted(id, emits) PROVE DispatchInv'
  <2>1. RegistryInv' /\ BreakersInType'
    BY <1>5, SuccessKeepsTypes DEF EventReacted, ExtIds
  <2>2. Head(evQueue) \in Origins /\ Head(evQueue).depth < MaxDepth
    BY <1>5 DEF EventReacted, EventsInType, Admits
  <2>3. Descend(Head(evQueue), id) \in Origins
    BY <2>2, GuardAssumption DEF Descend, Origins
  <2>4. EventsInType'
    <3> DEFINE e == Descend(Head(evQueue), id)
    <3> HIDE DEF e
    <3>1. CASE emits /\ AllowsEmit(id)
      <4>1. Append(evQueue, e) \in Seq(Origins) /\ Len(Append(evQueue, e)) > 0
        BY <2>3 DEF EventsInType, e
      <4>2. evQueue' = Append(evQueue, e) /\ emitted' = [emitted EXCEPT ![id] = @ + 1]
        BY <1>5, <3>1 DEF EventReacted, e
      <4> QED
        BY <1>5, <3>1, <4>1, <4>2, GuardAssumption DEF EventReacted, EventsInType, AllowsEmit
    <3>2. CASE ~(emits /\ AllowsEmit(id))
      BY <1>5, <3>2 DEF EventReacted, EventsInType
    <3> QED
      BY <3>1, <3>2
  <2> QED
    BY <1>5, <2>1, <2>4 DEF EventReacted
<1> QED
  BY <1>1, <1>2, <1>3, <1>4, <1>5 DEF Reactions

\* And so does what operators ask meanwhile, and a new daemon.
LEMMA OperatorsKeepTypes ==
  ASSUME DispatchInv, Administration \/ ReactorsReturn \/ DispatchBoots
                      \/ (RegistryNext /\ UNCHANGED <<gateVars, eventVars>>)
  PROVE  DispatchInv'
<1> USE DEF DispatchInv
<1>1. CASE UNCHANGED <<gateVars, eventVars>> /\ RegistryInv'
  BY <1>1 DEF gateVars, eventVars, BreakersInType, EventsInType
<1>2. GateIds \in SUBSET ExtIds /\ ReactIds \in SUBSET ExtIds
  BY DEF ExtIds
<1>3. CASE Administration
  <2>1. PICK c \in Admins :
            RegistryHandlers(c) \/ RegistryRoutes(c, GateIds)
    BY <1>3 DEF Administration, RegistryRoutes
  <2>2. c \in ExtClients
    BY AdminsAssumption
  <2> QED
    BY <1>1, <1>2, <1>3, <2>1, <2>2, RoutesKeepRegistry, HandlersKeepRegistry DEF Administration
<1>4. CASE ReactorsReturn
  <2>1. PICK c \in Admins :
            RegistryHandlers(c) \/ RegistryRoutes(c, ReactIds)
    BY <1>4 DEF ReactorsReturn, RegistryRoutes, RegistryHandlers
  <2>2. c \in ExtClients
    BY AdminsAssumption
  <2> QED
    BY <1>1, <1>2, <1>4, <2>1, <2>2, RoutesKeepRegistry, HandlersKeepRegistry DEF ReactorsReturn
<1>5. CASE DispatchBoots
  <2>1. RegistryInv'
    BY <1>5, BootsKeepRegistry DEF DispatchBoots
  <2>2. BreakersInType'
    BY <1>5, CheckersAssumption, FS_CardinalityType, ThresholdAssumption
       DEF DispatchBoots, BreakersInType, Closed, StreakCap
  <2>3. gateRun' \in [Checkers -> GateRuns]
    BY <1>5 DEF DispatchBoots, NoCheck, GateRuns, GateStates
  <2>4. EventsInType'
    BY <1>5, GuardAssumption DEF DispatchBoots, EventsInType
  <2> QED
    BY <2>1, <2>2, <2>3, <2>4
<1>6. CASE RegistryNext /\ UNCHANGED <<gateVars, eventVars>>
  BY <1>1, <1>2, <1>6, RoutesKeepRegistry, HandlersKeepRegistry, BootsKeepRegistry DEF RegistryNext
<1> QED
  BY <1>3, <1>4, <1>5, <1>6

LEMMA DispatchInductive ==
  /\ DispatchInit => DispatchInv
  /\ DispatchInv /\ [GateNext \/ EventNext \/ (RegistryNext /\ UNCHANGED <<gateVars, eventVars>>)]_dispatchVars
         => DispatchInv'
<1>1. ASSUME DispatchInit PROVE DispatchInv
  <2>1. RegistryInv
    BY <1>1, RegistryBegins DEF DispatchInit
  <2>2. BreakersInType
    BY <1>1, CheckersAssumption, FS_CardinalityType, ThresholdAssumption
       DEF DispatchInit, BreakersInType, Closed, StreakCap
  <2>3. gateRun \in [Checkers -> GateRuns]
    BY <1>1 DEF DispatchInit, NoCheck, GateRuns, GateStates
  <2>4. EventsInType
    BY <1>1, GuardAssumption DEF DispatchInit, EventsInType
  <2> QED
    BY <2>1, <2>2, <2>3, <2>4 DEF DispatchInv
<1>2. ASSUME DispatchInv, UNCHANGED dispatchVars PROVE DispatchInv'
  BY <1>2 DEF dispatchVars, registryVars, gateVars, eventVars, DispatchInv, RegistryInv,
              RegistryTypeOK, NoGhostRecord, WillSettle, Registered, Idle, BreakersInType,
              EventsInType
<1> QED
  BY <1>1, <1>2, ChecksKeepTypes, ReactionsKeepTypes, OperatorsKeepTypes DEF GateNext, EventNext

LEMMA DispatchTyped == DispatchInv => DispatchTypeOK
BY DEF DispatchInv, RegistryInv, BreakersInType, EventsInType, DispatchTypeOK

-----------------------------------------------------------------------------
(***************************************************************************)
(* The types of the workflow rows and of the two passes that write them.   *)
(***************************************************************************)

\* What each verb of the store makes of a row is a row.
LEMMA VerbsMakeRows ==
  ASSUME NEW row \in Rows
  PROVE  /\ StopRun(row) \in Rows /\ ResumeRun(row) \in Rows
         /\ MarkStarted(row) \in Rows /\ ClearStarted(row) \in Rows
         /\ SetPrUrl(row) \in Rows
         /\ \A auto \in BOOLEAN : UpdateWorkspace(row, auto) \in Rows
         /\ \A to \in 0..MaxCursor : AdvanceCursor(row, to) \in Rows
BY MaxCursorAssumption
   DEF Rows, StopRun, ResumeRun, MarkStarted, ClearStarted, SetPrUrl, UpdateWorkspace,
       AdvanceCursor

\* The two halves of a verb, and the verbs of one write, keep rows rows.
LEMMA RowsKeepType ==
  ASSUME RowTypeOK, NEW w \in Writers
  PROVE  /\ \A r \in Workflows, row \in Rows : LoadsRow(w, r, row) => RowTypeOK'
         /\ WritesRow(w) => RowTypeOK'
         /\ \A r \in Workflows : DeleteRun(r) => RowTypeOK'
         /\ \A r \in Workflows, auto \in BOOLEAN : CreateRun(r, auto) => RowTypeOK'
         /\ RowsLost /\ UNCHANGED runRow => RowTypeOK'
         /\ UNCHANGED rowVars => RowTypeOK'
         /\ \A r \in Workflows : HasRow(r) => runRow[r] \in Rows
<1>1. \A auto \in BOOLEAN : Created(auto) \in Rows
  BY MaxCursorAssumption DEF Created, Rows
<1>2. ASSUME WritesRow(w) PROVE RowTypeOK'
  <2>1. held[w].id \in Workflows /\ held[w].row \in Rows
    BY <1>2 DEF WritesRow, Holds, RowTypeOK
  <2> QED
    BY <1>2, <2>1 DEF WritesRow, RowTypeOK
<1> QED
  BY <1>1, <1>2 DEF RowTypeOK, LoadsRow, DeleteRun, CreateRun, RowsLost, rowVars, HasRow

\* So do the requests of operators. (stop, resume, start, restart, edit)
LEMMA OperatorsKeepRows ==
  ASSUME RowTypeOK, NEW c \in RowClients,
         LifecycleLoads(c) \/ OtherLoads(c) \/ OperatorWrites(c)
  PROVE  RowTypeOK'
<1>1. c \in Writers
  BY DEF Writers
<1>2. CASE OperatorWrites(c)
  BY <1>1, <1>2, RowsKeepType DEF OperatorWrites
<1>3. CASE LifecycleLoads(c)
  <2>1. PICK r \in Workflows : /\ HasRow(r)
                               /\ \/ LoadsRow(c, r, StopRun(runRow[r]))
                                  \/ LoadsRow(c, r, ResumeRun(runRow[r]))
    BY <1>3 DEF LifecycleLoads
  <2>2. runRow[r] \in Rows
    BY <1>1, <2>1, RowsKeepType
  <2> QED
    BY <1>1, <2>1, <2>2, VerbsMakeRows, RowsKeepType
<1>4. CASE OtherLoads(c)
  <2>1. PICK r \in Workflows : /\ HasRow(r)
                               /\ \/ LoadsRow(c, r, MarkStarted(runRow[r]))
                                  \/ LoadsRow(c, r, ClearStarted(runRow[r]))
                                  \/ \E auto \in BOOLEAN :
                                         LoadsRow(c, r, UpdateWorkspace(runRow[r], auto))
    BY <1>4 DEF OtherLoads
  <2>2. runRow[r] \in Rows
    BY <1>1, <2>1, RowsKeepType
  <2> QED
    BY <1>1, <2>1, <2>2, VerbsMakeRows, RowsKeepType
<1> QED
  BY <1>2, <1>3, <1>4

LEMMA RowsBeginInType == RowInit => RowTypeOK
<1>1. Created(TRUE) \in Rows
  BY MaxCursorAssumption DEF Created, Rows
<1>2. StopRun(Created(TRUE)) \in Rows
  BY <1>1, VerbsMakeRows
<1> QED
  BY <1>1, <1>2 DEF RowInit, RowTypeOK

\* The tail's own variables beside the stream and the log. Nothing is left to
\* append before the drain has been resolved.
TailRest ==
    /\ unlisted \subseteq Emitted /\ excused \subseteq Emitted
    /\ finished \subseteq Workflows
    /\ chatRows \in [EventIds -> Nat]
    /\ drain.batch \subseteq Emitted /\ drain.todo \subseteq drain.batch
    /\ drain.at \in {"idle", "drain", "list"} => drain.todo = {}
    /\ upsets \in 0..MaxUpsets

\* The steps of a drain. (hcom_tail)
LEMMA DrainKeepsTypes ==
  ASSUME TailInv, TailRest,
         TailStep \/ TailAppends(FALSE) \/ TailAppendFails
  PROVE  TailRest'
<1> USE DEF TailInv, TailRest, LogInType, DrainShape
<1>d. /\ NoDrain.at = "idle" /\ NoDrain.batch = {} /\ NoDrain.todo = {}
      /\ \A p, X : /\ [drain EXCEPT !.at = p, !.left = X].at = p
                   /\ [drain EXCEPT !.at = p, !.left = X].batch = drain.batch
                   /\ [drain EXCEPT !.at = p, !.left = X].todo = drain.todo
                   /\ [drain EXCEPT !.left = X].at = drain.at
                   /\ [drain EXCEPT !.left = X].batch = drain.batch
                   /\ [drain EXCEPT !.left = X].todo = drain.todo
  BY DEF NoDrain
<1>e. UNCHANGED stream => Emitted' = Emitted
  BY DEF Emitted
<1>m. drain.todo # {} => Min(drain.todo) \in drain.todo /\ drain.todo \subseteq Emitted
  <2>1. drain.todo \subseteq Emitted /\ Emitted \subseteq Nat
    BY DEF Emitted
  <2> QED
    BY <2>1, LeastThereIs
<1>1. CASE TailBegins
  <2>1. drain'.batch = {} /\ drain'.todo = {}
    BY <1>1 DEF TailBegins, NoDrain
  <2> QED
    BY <1>1, <1>e, <2>1 DEF TailBegins
<1>2. CASE TailDrains
  <2>1. Newest(Newer) \subseteq Emitted /\ Newer \subseteq Emitted
    BY DEF Newest, Newer
  <2>2. drain.todo = {}
    BY <1>2 DEF TailDrains, DrainAt
  <2>3. \/ drain' = NoDrain
        \/ drain'.at = "list" /\ drain'.batch = Newest(Newer) /\ drain'.todo = drain.todo
    BY <1>2 DEF TailDrains
  <2> QED
    BY <1>2, <1>d, <1>e, <2>1, <2>2, <2>3 DEF TailDrains
<1>3. CASE TailResolves
  <2> DEFINE known == drain.batch \ unlisted
             mine == {e \in known : stream[e] \in Listed /\ HasRow(stream[e])}
             orphans == {e \in known : ~HasRow(stream[e])}
  <2>1. /\ drain' = [drain EXCEPT !.at = "append", !.todo = mine]
        /\ excused' = excused \cup (drain.batch \cap unlisted) \cup orphans
    BY <1>3 DEF TailResolves
  <2>2. mine \subseteq drain.batch /\ orphans \subseteq Emitted
    OBVIOUS
  <2> HIDE DEF mine, orphans
  <2>3. drain'.at = "append" /\ drain'.batch = drain.batch /\ drain'.todo = mine
    BY <2>1
  <2> QED
    BY <1>3, <1>e, <2>1, <2>2, <2>3 DEF TailResolves
<1>4. ASSUME NEW mirrors \in BOOLEAN, TailAppends(mirrors) PROVE TailRest'
  <2> DEFINE e == Min(drain.todo)
  <2>1. /\ drain' = [drain EXCEPT !.todo = @ \ {e}, !.touched = Touches(stream[e], e)]
        /\ chatRows' \in {chatRows, AppendsOnce(chatRows, e)}
        /\ upsets' = upsets \/ (upsets < MaxUpsets /\ upsets' = upsets + 1)
        /\ drain.at = "append"
    BY <1>4 DEF TailAppends, MirrorsChat, Upset, DrainAt
  <2>2. AppendsOnce(chatRows, e) \in [EventIds -> Nat]
    BY DEF AppendsOnce
  <2> HIDE DEF e
  <2>3. drain'.at = "append" /\ drain'.batch = drain.batch /\ drain'.todo = drain.todo \ {e}
    BY <2>1
  <2> QED
    BY <1>4, <1>e, <2>1, <2>2, <2>3, MaxUpsetsAssumption DEF TailAppends
<1>5. CASE TailAppendFails
  <2>1. /\ drain'.at = "append" /\ drain'.batch = drain.batch /\ drain'.todo \subseteq drain.todo
        /\ upsets' \in 0..MaxUpsets
    BY <1>5, MaxUpsetsAssumption DEF TailAppendFails, DrainAt
  <2> QED
    BY <1>5, <1>e, <1>m, <2>1 DEF TailAppendFails
<1>6. CASE TailWritten \/ TailAdvanced \/ TailEnds
  <2>1. \/ drain' = NoDrain
        \/ \E p \in {"advance", "forward"} : \E X : drain' = [drain EXCEPT !.at = p, !.left = X]
    BY <1>6 DEF TailWritten, TailAdvanced, TailEnds
  <2> QED
    BY <1>6, <1>d, <1>e, <2>1 DEF TailWritten, TailAdvanced, TailEnds
<1>7. ASSUME NEW r \in Workflows, TailAdvances(r) \/ TailForwards(r) PROVE TailRest'
  <2>1. \E X : drain' = [drain EXCEPT !.left = X]
    BY <1>7 DEF TailAdvances, TailForwards, Advances
  <2> QED
    BY <1>7, <1>d, <1>e, <2>1 DEF TailAdvances, TailForwards
<1>8. CASE SupervisorWrites
  BY <1>8 DEF SupervisorWrites, tailVars, Emitted
<1> QED
  BY <1>1, <1>2, <1>3, <1>4, <1>5, <1>6, <1>7, <1>8 DEF TailStep

\* What befalls the tail from outside.
LEMMA TailWorldKeepsTypes ==
  ASSUME TailInv, TailRest,
         \/ TailDies \/ OperatorsWriteRows
         \/ \E r \in Workflows : AgentEmits(r) \/ AgentsLeave(r) \/ TasksSettle(r)
  PROVE  TailRest'
<1> USE DEF TailInv, TailRest, LogInType
<1>u. Upset => upsets' \in 0..MaxUpsets
  BY MaxUpsetsAssumption DEF Upset
<1>1. CASE TailDies
  BY <1>1, <1>u DEF TailDies, NoDrain, Emitted
<1>2. CASE OperatorsWriteRows
  BY <1>2, <1>u DEF OperatorsWriteRows, Emitted
<1>3. ASSUME NEW r \in Workflows, AgentEmits(r) PROVE TailRest'
  <2>1. Emitted \subseteq Emitted'
    BY <1>3 DEF AgentEmits, Emitted
  <2> QED
    BY <1>3, <2>1 DEF AgentEmits
<1>4. ASSUME NEW r \in Workflows, AgentsLeave(r) PROVE TailRest'
  BY <1>4, <1>u DEF AgentsLeave, EventsOf, Emitted
<1>5. ASSUME NEW r \in Workflows, TasksSettle(r) PROVE TailRest'
  BY <1>5, <1>u DEF TasksSettle, Emitted
<1> QED
  BY <1>1, <1>2, <1>3, <1>4, <1>5

\* The types of the tail and of the run rows under it are kept.
LEMMA TailTypesInductive ==
  /\ TailInit => TailInv /\ TailRest
  /\ TailInv /\ TailRest /\ [TailNext]_<<rowVars, tailVars>> => TailInv' /\ TailRest'
  /\ TailInv /\ TailRest => TailTypeOK
<1>1. TailInit => TailRest
  BY MaxUpsetsAssumption DEF TailInit, TailRest, NoDrain, Emitted
<1>2. ASSUME TailInv, TailRest, [TailNext]_<<rowVars, tailVars>> PROVE TailRest'
  <2>1. CASE TailNext
    BY <1>2, <2>1, DrainKeepsTypes, TailWorldKeepsTypes DEF TailNext
  <2>2. CASE UNCHANGED <<rowVars, tailVars>>
    BY <1>2, <2>2 DEF tailVars, TailRest, Emitted
  <2> QED
    BY <1>2, <2>1, <2>2
<1>3. TailInv /\ TailRest => TailTypeOK
  BY DEF TailInv, TailRest, LogInType, RowsSafe, TailTypeOK
<1> QED
  BY <1>1, <1>2, <1>3, TailBeginsSafe, TailInductive

\* The pull requests' variables, the row the pass is at included.
PrRest ==
    /\ RowTypeOK
    /\ allDone \subseteq Workflows /\ ahead \subseteq Workflows
    /\ remotePr \in [Workflows -> {"none", "open", "merged"}]
    /\ prUpsets \in 0..MaxPrUpsets

LEMMA PrStepKeepsTypes ==
  ASSUME SwarmInv, PrRest, PrStep
  PROVE  PrRest'
<1> USE DEF SwarmInv, PrRest
<1>s. Supervisor \in Writers
  BY DEF Writers
<1>r. UNCHANGED rowVars => RowTypeOK'
  BY <1>s, RowsKeepType
<1>u. PrUpset \/ UNCHANGED prUpsets => prUpsets' \in 0..MaxPrUpsets
  BY MaxPrUpsetsAssumption DEF PrUpset
<1>1. ASSUME UNCHANGED <<rowVars, allDone, ahead, remotePr>>, PrUpset \/ UNCHANGED prUpsets
      PROVE  PrRest'
  BY <1>1, <1>r, <1>u
<1>2. CASE CreatesPr
  <2>1. prPass.run \in Workflows
    BY <1>2 DEF CreatesPr, At
  <2>2. remotePr' \in [Workflows -> {"none", "open", "merged"}]
    BY <1>2, <2>1 DEF CreatesPr
  <2>3. PrUpset \/ UNCHANGED prUpsets
    BY <1>2 DEF CreatesPr
  <2> QED
    BY <1>2, <1>r, <1>u, <2>2, <2>3 DEF CreatesPr
<1>3. CASE RecordsPr
  <2>1. prPass.run \in Workflows
    BY <1>3 DEF RecordsPr, At
  <2>2. HasRow(prPass.run) => SetPrUrl(runRow[prPass.run]) \in Rows
    BY <1>s, <2>1, VerbsMakeRows, RowsKeepType
  <2>3. RowTypeOK'
    BY <1>3, <1>s, <1>r, <2>1, <2>2, RowsKeepType DEF RecordsPr
  <2> QED
    BY <1>3, <2>3 DEF RecordsPr
<1>4. CASE WritesPrUrl
  BY <1>4, <1>s, RowsKeepType DEF WritesPrUrl, prVars
<1> QED
  BY <1>1, <1>2, <1>3, <1>4
     DEF PrStep, PassBegins, PassEnds, PassTakes, LooksForPr, LooksAgain, ReapsSummarizer,
         SpawnsSummarizer, KillsSummarizer, AwaitsSummary, Kills

LEMMA PrWorldKeepsTypes ==
  ASSUME PrRest, PrWorld
  PROVE  PrRest'
<1> USE DEF PrRest
<1>s. Supervisor \in Writers
  BY DEF Writers
<1>r. UNCHANGED rowVars => RowTypeOK'
  BY <1>s, RowsKeepType
<1>u. PrUpset \/ UNCHANGED prUpsets => prUpsets' \in 0..MaxPrUpsets
  BY MaxPrUpsetsAssumption DEF PrUpset
<1>1. ASSUME NEW r \in Workflows,
             WorkflowCompletes(r) \/ WorkflowReset(r) \/ PersonOpensPr(r) \/ PersonMergesPr(r)
      PROVE  PrRest'
  BY <1>1, <1>r, <1>u DEF WorkflowCompletes, WorkflowReset, PersonOpensPr, PersonMergesPr
<1>2. ASSUME NEW r \in Workflows, RunComesAndGoes(r) PROVE PrRest'
  <2>1. RowTypeOK'
    BY <1>2, <1>s, RowsKeepType DEF RunComesAndGoes
  <2> QED
    BY <1>2, <1>u, <2>1 DEF RunComesAndGoes
<1>3. CASE OperatorsMeanwhile
  <2>1. RowTypeOK'
    BY <1>3, OperatorsKeepRows DEF OperatorsMeanwhile
  <2> QED
    BY <1>3, <1>u, <2>1 DEF OperatorsMeanwhile
<1>4. CASE PrDies
  <2>1. RowTypeOK'
    BY <1>4, <1>s, RowsKeepType DEF PrDies
  <2> QED
    BY <1>4, <1>u, <2>1 DEF PrDies
<1> QED
  BY <1>1, <1>2, <1>3, <1>4 DEF PrWorld

\* The types of the pull requests and of their summarizers are kept.
LEMMA PrTypesInductive ==
  /\ PrInit => SwarmInv /\ PrRest
  /\ SwarmInv /\ PrRest /\ [PrNext]_<<rowVars, prVars>> => SwarmInv' /\ PrRest'
  /\ SwarmInv /\ PrRest => PrTypeOK
<1>1. PrInit => PrRest
  BY RowsBeginInType, MaxPrUpsetsAssumption DEF PrInit, PrRest
<1>2. ASSUME SwarmInv, PrRest, [PrNext]_<<rowVars, prVars>> PROVE PrRest'
  <2>1. CASE PrNext
    BY <1>2, <2>1, PrStepKeepsTypes, PrWorldKeepsTypes DEF PrNext
  <2>2. CASE UNCHANGED <<rowVars, prVars>>
    BY <1>2, <2>2 DEF prVars, rowVars, PrRest, RowTypeOK
  <2> QED
    BY <1>2, <2>1, <2>2
<1>3. SwarmInv /\ PrRest => PrTypeOK
  BY DEF SwarmInv, PassShape, PrRest, PrTypeOK
<1> QED
  BY <1>1, <1>2, <1>3, SwarmInductive

-----------------------------------------------------------------------------
(***************************************************************************)
(* The issue desk's bound, and the services together.                      *)
(***************************************************************************)
DeskInv ==
    \E d \in IssueDesks :
        issueToCome \in [UpsetKinds -> Nat] /\ \A kind \in UpsetKinds : issueToCome[kind] \in 0..d[kind]

LEMMA UpsetsRunOut ==
  ASSUME DeskInv, NEW kind \in UpsetKinds, IssueUpset(kind)
  PROVE  DeskInv'
<1>1. PICK d \in IssueDesks : /\ issueToCome \in [UpsetKinds -> Nat]
                              /\ \A k \in UpsetKinds : issueToCome[k] \in 0..d[k]
  BY DEF DeskInv
<1>2. d \in [UpsetKinds -> Nat]
  BY <1>1, IssueConstants
<1>3. issueToCome' \in [UpsetKinds -> Nat] /\ \A k \in UpsetKinds : issueToCome'[k] \in 0..d[k]
  BY <1>1, <1>2 DEF IssueUpset
<1> QED
  BY <1>1, <1>3 DEF DeskInv

\* The types of the linked task and of its issue are kept.
LEMMA IssueTypesInductive ==
  /\ IssueInit => BounceInv /\ DeskInv
  /\ BounceInv /\ DeskInv /\ [IssueNext]_issueVars => BounceInv' /\ DeskInv'
  /\ BounceInv /\ DeskInv => IssueTypeOK
<1>1. ASSUME IssueInit PROVE DeskInv
  BY <1>1, IssueConstants DEF IssueInit, DeskInv
<1>2. ASSUME BounceInv, DeskInv, [IssueNext]_issueVars PROVE DeskInv'
  <2>1. UNCHANGED issueToCome => DeskInv'
    BY <1>2 DEF DeskInv
  <2>2. UNCHANGED issueToCome \/ \E kind \in UpsetKinds : IssueUpset(kind)
    <3> USE DEF UpsetKinds
    <3>1. PollStep \/ Promotes => UNCHANGED issueToCome \/ IssueUpset("gh")
      BY DEF PollStep, Promotes, PollLists, PollViews, PollActs, RecordsState, PollSaves, ActorWrites
    <3>2. LoopStep => UNCHANGED issueToCome \/ IssueUpset("gh")
      BY DEF LoopStep, LoopClaims, LoopGates, LoopLands, LoopBlocks, ClosesOnDone, RecordsClose,
             ActorWrites
    <3>3. ASSUME NEW c \in Linkers, OperatorStep(c)
          PROVE  UNCHANGED issueToCome \/ IssueUpset("link") \/ IssueUpset("task")
      BY <3>3 DEF OperatorStep, BeginsLink, UnlinksIssue, SavesLink, MovesTask, SetsCloseOnDone,
                  CreatesIssue, LinksIssue, ActorWrites
    <3>4. DeletesTask => IssueUpset("task")
      BY DEF DeletesTask
    <3>5. \A i \in Issues : PersonCloses(i) \/ PersonReopens(i) => IssueUpset("people")
      BY DEF PersonCloses, PersonReopens
    <3> QED
      BY <1>2, <3>1, <3>2, <3>3, <3>4, <3>5 DEF IssueNext, issueVars
  <2> QED
    BY <1>2, <2>1, <2>2, UpsetsRunOut
<1>3. BounceInv /\ DeskInv => IssueTypeOK
  BY DEF BounceInv, IssueFrame, DeskInv, IssueTypeOK, Writes
<1> QED
  BY <1>1, <1>2, <1>3, BounceInductive

LEMMA GraphTyped == GraphInv => GraphTypeOK
<1> SUFFICES ASSUME GraphInv PROVE GraphTypeOK
  OBVIOUS
<1>1. GraphFrame
  BY DEF GraphInv
<1>2. \A c \in Callers : gCall[c] \in CallRecords
  BY <1>1 DEF GraphFrame
<1>3. \A c \in Callers : gCall[c].verb \in Verbs \cup {Tick} /\ gCall[c].todo \subseteq GTasks
  BY <1>2 DEF CallRecords
<1> QED
  BY <1>1, <1>3 DEF GraphFrame, GraphTypeOK

ServicesInv ==
    /\ part \in Parts
    /\ part \in {"registry", "gates", "events"} => DispatchInv
    /\ part = "tail" => TailInv /\ TailRest
    /\ part = "pr" => SwarmInv /\ PrRest
    /\ part = "issue" => BounceInv /\ DeskInv
    /\ part = "graph" => GraphInv

\* Every service keeps to the types of its variables, however many extensions,
\* workflows, issues, tasks and requests there are: no field is written that
\* the stored row or the record does not have, and no counter leaves its range.
\* (the registry's and the breakers' records, the workflow rows the tail and the
\* pull requests write, the linkage of a task, the rows and edges of the graph)
THEOREM ServicesKeepType == Spec => []ServicesTypeOK
<1>1. Init => ServicesInv
  BY DispatchInductive, TailTypesInductive, PrTypesInductive, IssueTypesInductive, GraphBegins
     DEF Init, ServicesInv
<1>2. ServicesInv /\ [Next]_vars => ServicesInv'
  <2> SUFFICES ASSUME ServicesInv, [Next]_vars PROVE ServicesInv'
    OBVIOUS
  <2>1. UNCHANGED part
    BY DEF Next, vars
  <2>2. CASE part \in {"registry", "gates", "events"}
    <3>1. [GateNext \/ EventNext \/ (RegistryNext /\ UNCHANGED <<gateVars, eventVars>>)]_dispatchVars
      BY <2>2 DEF Next, vars, ExtStep, RowStep, dispatchVars, registryPart, extPart
    <3>2. DispatchInv'
      BY <2>2, <3>1, DispatchInductive DEF ServicesInv
    <3> QED
      BY <2>1, <2>2, <3>2 DEF ServicesInv
  <2>3. CASE part = "tail"
    <3>1. [TailNext]_<<rowVars, tailVars>>
      BY <2>3 DEF Next, vars, ExtStep, RowStep, tailPart
    <3> QED
      BY <2>1, <2>3, <3>1, TailTypesInductive DEF ServicesInv
  <2>4. CASE part = "pr"
    <3>1. [PrNext]_<<rowVars, prVars>>
      BY <2>4 DEF Next, vars, ExtStep, RowStep, prPart
    <3> QED
      BY <2>1, <2>4, <3>1, PrTypesInductive DEF ServicesInv
  <2>5. CASE part = "issue"
    <3>1. [IssueNext]_issueVars
      BY <2>5 DEF Next, vars, ExtStep, RowStep, issuePart
    <3> QED
      BY <2>1, <2>5, <3>1, IssueTypesInductive DEF ServicesInv
  <2>6. CASE part = "graph"
    <3>1. [GraphNext]_gVars
      BY <2>6 DEF Next, vars, ExtStep, RowStep, graphPart
    <3> QED
      BY <2>1, <2>6, <3>1, GraphInductive DEF ServicesInv
  <2>7. CASE part \notin {"registry", "gates", "events", "tail", "pr", "issue", "graph"}
    BY <2>1, <2>7 DEF ServicesInv
  <2> QED
    BY <2>2, <2>3, <2>4, <2>5, <2>6, <2>7
<1>3. ServicesInv => ServicesTypeOK
  BY DispatchTyped, TailTypesInductive, PrTypesInductive, IssueTypesInductive, GraphTyped
     DEF ServicesInv, ServicesTypeOK
<1> QED
  BY <1>1, <1>2, <1>3, PTL DEF Spec
=============================================================================
