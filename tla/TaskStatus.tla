---------------------------- MODULE TaskStatus ----------------------------
(***************************************************************************)
(* The lifecycle state machine every write of a task's status goes         *)
(* through: lazybones-store/src/task/status.rs and transition.rs.          *)
(*                                                                         *)
(* A transition is judged by the status it TARGETS, not by the status its  *)
(* name suggests it leaves: Ready, Reclaim and Revive all target "ready",  *)
(* so each of them is legal from pending, running, gating and blocked.     *)
(***************************************************************************)

\* The six states a task moves through.
Status == {"pending", "ready", "running", "gating", "done", "blocked"}

\* The legal edges.
Edges == { <<"pending", "ready">>,
           <<"ready",   "running">>,
           <<"running", "gating">>,
           <<"running", "ready">>,
           <<"gating",  "done">>,
           <<"gating",  "ready">>,
           <<"blocked", "ready">> }
         \cup ({"pending", "ready", "running", "gating"} \X {"blocked"})

CanTransition(from, to) == <<from, to>> \in Edges

\* A terminal status rests there unless a human intervenes.
IsTerminal(s) == s \in {"done", "blocked"}

\* The transitions a caller may ask for ...
Kind == {"Ready", "Claim", "Gate", "Done", "Block", "Reclaim", "Revive",
         "ExternalDone"}

\* ... and the status each of them targets.
Target == [k \in Kind |->
             CASE k \in {"Ready", "Reclaim", "Revive"} -> "ready"
               [] k = "Claim"                          -> "running"
               [] k = "Gate"                           -> "gating"
               [] k \in {"Done", "ExternalDone"}       -> "done"
               [] k = "Block"                          -> "blocked"]

\* ExternalDone is the one move outside the edge graph: it is accepted from
\* every status that is not terminal.
Legal(from, kind) ==
  IF kind = "ExternalDone" THEN ~IsTerminal(from)
                           ELSE CanTransition(from, Target[kind])

\* The statuses that occupy a concurrency slot.
InFlightStatus == {"running", "gating"}
===========================================================================
