-------------------------------- MODULE Plan --------------------------------
(***************************************************************************)
(* What the scheduler promises whoever wrote the board, with the ticks,    *)
(* loops, agents and crashes left out: work on a task begins only when the *)
(* branches of all its dependencies have landed and a slot is free, a task *)
(* that is done has landed, and done is final.                             *)
(***************************************************************************)
EXTENDS Naturals, FiniteSets

CONSTANTS Tasks, Deps, Concurrency

VARIABLES
  phase,   \* what each task is doing
  landed   \* the tasks whose branch is in the base branch

Phase == {"waiting", "underway", "stuck", "done"}

Init ==
  /\ phase = [t \in Tasks |-> "waiting"]
  /\ landed = {}

Becomes(t, p) == phase' = [phase EXCEPT ![t] = p] /\ UNCHANGED landed

Begin(t) ==
  /\ phase[t] = "waiting"
  /\ Deps[t] \subseteq landed
  /\ Cardinality({u \in Tasks : phase[u] = "underway"}) < Concurrency
  /\ Becomes(t, "underway")

\* A branch may land after its task went back to waiting or got stuck, never
\* before its dependencies did.
Land(t) ==
  /\ Deps[t] \subseteq landed
  /\ landed' = landed \cup {t}
  /\ UNCHANGED phase

Finish(t) == phase[t] = "underway" /\ t \in landed /\ Becomes(t, "done")

\* A reclaim.
Return(t) == phase[t] = "underway" /\ Becomes(t, "waiting")

Fail(t) == phase[t] \in {"waiting", "underway"} /\ Becomes(t, "stuck")

\* A retry, with nothing left undone that the task depends on.
Retry(t) == phase[t] = "stuck" /\ Deps[t] \subseteq landed /\ Becomes(t, "waiting")

Next == \E t \in Tasks :
          Begin(t) \/ Land(t) \/ Finish(t) \/ Return(t) \/ Fail(t) \/ Retry(t)

Spec == Init /\ [][Next]_<<phase, landed>>
=============================================================================
