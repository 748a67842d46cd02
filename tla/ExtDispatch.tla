----------------------------- MODULE ExtDispatch -----------------------------
(***************************************************************************)
(* Running the enabled extensions: the gate checks of the drive loops,     *)
(* which fail closed, and the reactions to the events of the bus, which    *)
(* fail open, with the circuit breaker both feed and the guard that keeps  *)
(* reactions to reactions finite.                                          *)
(*                                                                         *)
(* A dispatch takes its set of extensions once and holds it to its end. A  *)
(* guest may return what it likes, or fault; one whose bytes are gone      *)
(* always faults.                                                          *)
(***************************************************************************)
EXTENDS Extensions, Sequences

CONSTANTS
    Admins,             \* the clients that act while extensions run
    Checkers,           \* drive loops that may be at their gate at once
    Threshold,          \* faults in a row that trip a breaker
    MaxDepth,           \* emissions along one chain of events
    MaxSelfReentry,
    EmitsPerWindow,
    MaxEvents           \* events one dispatch processes

ASSUME AdminsAssumption == Admins \subseteq ExtClients
ASSUME ThresholdAssumption == Threshold \in Nat \ {0}
ASSUME CheckersAssumption == IsFiniteSet(Checkers)
ASSUME GuardAssumption == MaxDepth \in Nat /\ EmitsPerWindow \in Nat /\ MaxEvents \in Nat \ {0}

VARIABLES
    breaker,            \* per extension, its streak of faults and whether it tripped
    alerts,             \* per extension, how often its trip was reported
    gateRun,            \* per drive loop, its gate check
    evQueue,            \* the events of the dispatch under way, oldest first
    evTargets,          \* the reactors the oldest event has still to visit
    evSet,              \* the reactors the dispatch took at its start
    evCount,            \* the events the dispatch has begun
    emitted             \* per reactor, its emissions in the present window

gateVars == <<breaker, alerts, gateRun>>
eventVars == <<evQueue, evTargets, evSet, evCount, emitted>>
dispatchVars == <<registryVars, gateVars, eventVars>>

Host == "host"
Origins == [by : ReactIds \cup {Host}, depth : 0..MaxDepth]

(***************************************************************************)
(* The breaker. streak is one past every streak of interest at most.       *)
(***************************************************************************)
StreakCap == Threshold + Cardinality(Checkers) + 1
Closed == [streak |-> 0, tripped |-> FALSE]

TripsNow(b, streak) == ~b.tripped /\ streak >= Threshold

Saturated(n) == IF n < StreakCap THEN n + 1 ELSE StreakCap

RecordFault(id) ==
    LET streak == Saturated(breaker[id].streak)
        trips == TripsNow(breaker[id], streak)
    IN  /\ breaker' = [breaker EXCEPT ![id] =
                           [streak |-> streak, tripped |-> @.tripped \/ trips]]
        /\ alerts' = [alerts EXCEPT ![id] = @ + IF trips THEN 1 ELSE 0]
        \* The trip disables the record; the row stays as it is.
        /\ IF trips THEN RegistrySet(id, "on", FALSE) ELSE UNCHANGED extReg

RecordSuccess(id) ==
    /\ breaker' = [breaker EXCEPT ![id].streak = 0]
    /\ UNCHANGED <<alerts, extReg>>

\* A mutant: a tripped extension is taken whenever it is enabled.
DispatchSetUnfiltered(ids) == FindByExport(ids)

DispatchSet(ids) == {id \in FindByExport(ids) : ~breaker[id].tripped}

\* The bytes are loaded from the blob store at every call.
MayAnswer(id) == BytesOf[id] \in extBlobs

(***************************************************************************)
(* Gate checks. "took" remembers the gates a check took up and "heard"     *)
(* those that gave a verdict; the two are kept for the properties only.    *)
(***************************************************************************)
GateStates == {"idle", "run", "passed", "blocked"}
NoCheck == [at |-> "idle", left |-> {}, failed |-> FALSE, took |-> {}, heard |-> {}]
GateRuns == [at : GateStates, left : SUBSET GateIds, failed : BOOLEAN,
             took : SUBSET GateIds, heard : SUBSET GateIds]

GateBegins(l) ==
    /\ gateRun[l].at = "idle"
    /\ gateRun' = [gateRun EXCEPT ![l] =
           [NoCheck EXCEPT !.at = "run", !.left = DispatchSet(GateIds),
                           !.took = DispatchSet(GateIds)]]
    /\ UNCHANGED <<registryVars, breaker, alerts, eventVars>>

\* A verdict of pass, of skip or of fail is a clean run.
GateAnswers(l, id, fails) ==
    /\ gateRun[l].at = "run" /\ id \in gateRun[l].left
    /\ MayAnswer(id)
    /\ RecordSuccess(id)
    /\ gateRun' = [gateRun EXCEPT ![l].left = @ \ {id}, ![l].heard = @ \cup {id},
                                  ![l].failed = @ \/ fails]
    /\ UNCHANGED <<extRow, extBlobs, extReq, eventVars>>

\* A mutant: a gate that faults is skipped.
VerdictOfFaultSkips == FALSE

\* Fail closed: a fault is a verdict of fail.
VerdictOfFault == TRUE

GateFaults(l, id) ==
    /\ gateRun[l].at = "run" /\ id \in gateRun[l].left
    /\ RecordFault(id)
    /\ gateRun' = [gateRun EXCEPT ![l].left = @ \ {id},
                                  ![l].failed = @ \/ VerdictOfFault]
    /\ UNCHANGED <<extRow, extBlobs, extReq, eventVars>>

GateDecides(l) ==
    /\ gateRun[l].at = "run" /\ gateRun[l].left = {}
    /\ gateRun' = [gateRun EXCEPT ![l].at = IF gateRun[l].failed THEN "blocked" ELSE "passed"]
    /\ UNCHANGED <<registryVars, breaker, alerts, eventVars>>

\* The loop lands or blocks, and comes back with its next task.
GateLeaves(l) ==
    /\ gateRun[l].at \in {"passed", "blocked"}
    /\ gateRun' = [gateRun EXCEPT ![l] = NoCheck]
    /\ UNCHANGED <<registryVars, breaker, alerts, eventVars>>

(***************************************************************************)
(* Event reactions: one loop, one event of the bus at a time. The events a *)
(* slow loop misses are never dispatched.                                  *)
(***************************************************************************)
HostOrigin == [by |-> Host, depth |-> 0]
Descend(origin, id) == [by |-> id, depth |-> origin.depth + 1]

Admits(id, origin) ==
    /\ origin.depth < MaxDepth
    /\ ~(origin.by = id /\ origin.depth >= MaxSelfReentry)

\* A mutant: one emission more than the window allows.
AllowsOneMore(id) == emitted[id] <= EmitsPerWindow

AllowsEmit(id) == emitted[id] < EmitsPerWindow

EventArrives ==
    /\ evQueue = <<>>
    /\ evSet' = DispatchSet(ReactIds)
    /\ evSet' # {}
    /\ evQueue' = <<HostOrigin>>
    /\ evTargets' = evSet'
    /\ evCount' = 1
    /\ UNCHANGED <<registryVars, gateVars, emitted>>

\* The reactor is not asked.
EventDropped(id) ==
    /\ id \in evTargets
    /\ ~Admits(id, Head(evQueue))
    /\ evTargets' = evTargets \ {id}
    /\ UNCHANGED <<registryVars, gateVars, evQueue, evSet, evCount, emitted>>

\* The guest reacts and may emit one event of its own.
EventReacted(id, emits) ==
    /\ id \in evTargets
    /\ Admits(id, Head(evQueue))
    /\ RecordSuccess(id)
    /\ evTargets' = evTargets \ {id}
    /\ IF emits /\ AllowsEmit(id)
       THEN /\ evQueue' = Append(evQueue, Descend(Head(evQueue), id))
            /\ emitted' = [emitted EXCEPT ![id] = @ + 1]
       ELSE UNCHANGED <<evQueue, emitted>>
    /\ UNCHANGED <<extRow, extBlobs, extReq, gateRun, evSet, evCount>>

EventFaults(id) ==
    /\ id \in evTargets
    /\ Admits(id, Head(evQueue))
    /\ RecordFault(id)
    /\ evTargets' = evTargets \ {id}
    /\ UNCHANGED <<extRow, extBlobs, extReq, gateRun, evQueue, evSet, evCount, emitted>>

\* The next event, or the end: none is left, or the ceiling is reached and
\* the rest is dropped.
EventAdvances ==
    /\ evQueue # <<>> /\ evTargets = {}
    /\ IF Len(evQueue) > 1 /\ evCount < MaxEvents
       THEN /\ evQueue' = Tail(evQueue)
            /\ evTargets' = evSet
            /\ evCount' = evCount + 1
            /\ UNCHANGED evSet
       ELSE /\ evQueue' = <<>>
            /\ evSet' = {}
            /\ evCount' = 0
            /\ UNCHANGED evTargets
    /\ UNCHANGED <<registryVars, gateVars, emitted>>

\* Ten seconds have passed since a reactor's window began.
WindowRolls(id) ==
    /\ emitted[id] > 0
    /\ emitted' = [emitted EXCEPT ![id] = 0]
    /\ UNCHANGED <<registryVars, gateVars, evQueue, evTargets, evSet, evCount>>

(***************************************************************************)
(* The breakers and every dispatch are gone with the daemon.               *)
(***************************************************************************)
DispatchBoots ==
    /\ RegistryBoots
    /\ breaker' = [id \in ExtIds |-> Closed]
    /\ alerts' = [id \in ExtIds |-> 0]
    /\ gateRun' = [l \in Checkers |-> NoCheck]
    /\ evQueue' = <<>> /\ evTargets' = {} /\ evSet' = {} /\ evCount' = 0
    /\ emitted' = [id \in ReactIds |-> 0]

DispatchInit ==
    /\ RegistryInit
    /\ breaker = [id \in ExtIds |-> Closed]
    /\ alerts = [id \in ExtIds |-> 0]
    /\ gateRun = [l \in Checkers |-> NoCheck]
    /\ evQueue = <<>> /\ evTargets = {} /\ evSet = {} /\ evCount = 0
    /\ emitted = [id \in ReactIds |-> 0]

GateChecks ==
    \E l \in Checkers :
        \/ GateBegins(l) \/ GateDecides(l) \/ GateLeaves(l)
        \/ \E id \in GateIds : GateFaults(l, id) \/ \E b \in BOOLEAN : GateAnswers(l, id, b)

Reactions ==
    \/ EventArrives \/ EventAdvances
    \/ \E id \in ReactIds :
          \/ EventDropped(id) \/ EventFaults(id) \/ WindowRolls(id)
          \/ \E b \in BOOLEAN : EventReacted(id, b)

\* An operator's requests while gates are checked. A grant is not among
\* them: neither dispatch reads it.
Administration ==
    /\ \E c \in Admins :
          \/ RegistryHandlers(c)
          \/ \E id \in GateIds :
                \/ RouteInstall(c, id) \/ RouteDelete(c, id)
                \/ \E on \in BOOLEAN : RouteSetEnabled(c, id, on)
    /\ UNCHANGED <<gateVars, eventVars>>

\* An operator brings a reactor back.
ReactorsReturn ==
    /\ \E c \in Admins :
          \/ ChangeWrites(c) \/ ChangeMirrors(c)
          \/ \E id \in ReactIds : RouteSetEnabled(c, id, TRUE)
    /\ UNCHANGED <<gateVars, eventVars>>

GateNext == GateChecks \/ Administration \/ DispatchBoots
EventNext == Reactions \/ ReactorsReturn

GateSpec == DispatchInit /\ [][GateNext]_dispatchVars

-----------------------------------------------------------------------------

DispatchTypeOK ==
    /\ RegistryTypeOK
    /\ breaker \in [ExtIds -> [streak : 0..StreakCap, tripped : BOOLEAN]]
    /\ alerts \in [ExtIds -> Nat]
    /\ gateRun \in [Checkers -> GateRuns]
    /\ evQueue \in Seq(Origins)
    /\ evTargets \subseteq evSet /\ evSet \subseteq ReactIds
    /\ evCount \in 0..MaxEvents
    /\ emitted \in [ReactIds -> 0..EmitsPerWindow]

\* A gate that faults every time stops being asked, and the operator is told
\* once: past the threshold only the checks that had already taken it can still
\* fault on it, and over any interleaving of checks that fault, and whatever an
\* operator enables meanwhile, its breaker has raised one alert if it tripped
\* and none if it did not. (The breaker with concurrent drive loops.)
FaultingGateIsShed ==
    \A id \in GateIds :
        /\ breaker[id].streak < Threshold + Cardinality(Checkers)
        /\ alerts[id] = IF breaker[id].tripped THEN 1 ELSE 0

\* A check that passed heard a verdict of every gate it took up: a fault, a
\* trip, a disable or the loss of the bytes on the way is never passed over.
\* (run_gate_checks fails closed.)
FaultNeverPasses ==
    \A l \in Checkers : gateRun[l].at = "passed" => gateRun[l].took \subseteq gateRun[l].heard
=============================================================================
