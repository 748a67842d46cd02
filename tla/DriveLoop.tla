----------------------------- MODULE DriveLoop -----------------------------
(***************************************************************************)
(* The drive loop of one claimed task (scheduler/finish.rs), from waiting  *)
(* for its agent to landing its branch, and the block() every failure of   *)
(* it ends in (scheduler/block.rs).                                        *)
(*                                                                         *)
(* A loop holds the row it was spawned with and never reads it again: what *)
(* the operator or the tick did to the task meanwhile it learns only from  *)
(* a transition that is refused.                                           *)
(***************************************************************************)
EXTENDS Board

LoopActive(t, k) == loop[t][k].pc # "off"
LoopAt(t, k, pc) == loop[t][k].pc = pc

\* What the loop has seen of its agent matters only while it awaits it.
LoopGoes(t, k, pc) == loop' = [loop EXCEPT ![t][k] = [pc |-> pc, seen |-> FALSE]]

\* The loop is the only actor that moves, and it touches nothing else.
LoopAlone == UNCHANGED <<run, agents, beating, tick, oper, crashes>>

\* Mutant: whether the id was there already is not looked at.
SpawnResumeAgain(t, status) ==
  /\ driving' = driving \cup {t}
  /\ loop' = LET k == IF LoopActive(t, 1) THEN 2 ELSE 1
                 pc == IF status = "gating" THEN "gate" ELSE "await"
             IN [loop EXCEPT ![t][k] = [pc |-> pc, seen |-> FALSE]]

\* Mutant: every loop starts by awaiting its agent.
SpawnResumeAwaits(t, status) ==
  /\ driving' = driving \cup {t}
  /\ loop' = IF t \in driving THEN loop
             ELSE [loop EXCEPT ![t][1] = [pc |-> "await", seen |-> FALSE]]

\* spawn_resume: a no-op when the task has a loop, else the id is reserved
\* and a loop starts where the LISTED status says it should.
SpawnResume(t, status) ==
  /\ driving' = driving \cup {t}
  /\ loop' = IF t \in driving THEN loop
             ELSE LET k == IF LoopActive(t, 1) THEN 2 ELSE 1
                      pc == IF status = "gating" THEN "gate" ELSE "await"
                  IN [loop EXCEPT ![t][k] = [pc |-> pc, seen |-> FALSE]]
----------------------------------------------------------------------------
(* await_signal.                                                           *)

\* hcom list shows an agent that works: note that it was seen.
PollWorking(t, k) ==
  /\ agents[t]["working"] > 0
  /\ loop' = [loop EXCEPT ![t][k].seen = TRUE]

\* It shows one that is not working: after IDLE_DONE_SECS of this the work is
\* taken for finished.
PollIdle(t, k) ==
  /\ Has(t, {"parked", "wedged"})
  /\ \/ loop' = [loop EXCEPT ![t][k].seen = TRUE]
     \/ LoopGoes(t, k, "signalled")

\* It shows none at all: an exit if the loop ever saw one, else not there yet.
PollGone(t, k) ==
  /\ ~Has(t, Registered)
  /\ loop[t][k].seen
  /\ LoopGoes(t, k, "signalled")

LoopPolls(t, k) ==
  /\ LoopAt(t, k, "await")
  /\ PollWorking(t, k) \/ PollIdle(t, k) \/ PollGone(t, k)
  /\ UNCHANGED <<task, driving, merged>>
  /\ LoopAlone

\* AWAIT_SECS is up, or hcom's wait failed.
LoopGivesUp(t, k) ==
  /\ LoopAt(t, k, "await")
  /\ LoopGoes(t, k, "block")
  /\ UNCHANGED <<task, driving, merged>>
  /\ LoopAlone
----------------------------------------------------------------------------
(* gate_and_land.                                                          *)

\* The Gate transition; a refusal ends the loop.
LoopGates(t, k) ==
  /\ LoopAt(t, k, "signalled")
  /\ Transition(t, "Gate")
  /\ LoopGoes(t, k, IF CanMove(t, "Gate") THEN "gate" ELSE "exit")
  /\ UNCHANGED <<driving, merged>>
  /\ LoopAlone

\* Preflight, gate commands, gate-check extensions and auto-commit. Any of
\* them may turn the task down.
LoopChecks(t, k) ==
  /\ LoopAt(t, k, "gate")
  /\ \E pc \in {"land", "block"} : LoopGoes(t, k, pc)
  /\ UNCHANGED <<task, driving, merged>>
  /\ LoopAlone

\* Mutant: a failed landing is taken for a good one.
LoopLandsRegardless(t, k) ==
  /\ LoopAt(t, k, "land")
  /\ LoopGoes(t, k, "record")
  /\ merged' \in {merged, merged \cup {t}}
  /\ UNCHANGED <<task, driving>>
  /\ LoopAlone

\* merge::land.
LoopLands(t, k) ==
  /\ LoopAt(t, k, "land")
  /\ \/ LoopGoes(t, k, "record") /\ merged' = merged \cup {t}
     \/ LoopGoes(t, k, "block") /\ UNCHANGED merged
  /\ UNCHANGED <<task, driving>>
  /\ LoopAlone

\* Mutant: Done is taken from any state that is not terminal.
LoopRecordsRegardless(t, k) ==
  /\ LoopAt(t, k, "record")
  /\ Transition(t, "ExternalDone")
  /\ LoopGoes(t, k, "exit")
  /\ UNCHANGED <<driving, merged>>
  /\ LoopAlone

\* The Done transition; a refusal is only logged.
LoopRecords(t, k) ==
  /\ LoopAt(t, k, "record")
  /\ Transition(t, "Done")
  /\ LoopGoes(t, k, "exit")
  /\ UNCHANGED <<driving, merged>>
  /\ LoopAlone
----------------------------------------------------------------------------
(* block(), and the end of the loop.                                       *)

LoopBlocks(t, k) ==
  /\ LoopAt(t, k, "block")
  /\ Transition(t, "Block")
  /\ LoopGoes(t, k, BlockThen(t, "exit"))
  /\ UNCHANGED <<driving, merged>>
  /\ LoopAlone

LoopBumps(t, k) ==
  /\ LoopAt(t, k, "bump")
  /\ BumpRetries(t)
  /\ LoopGoes(t, k, "revive")
  /\ UNCHANGED <<driving, merged>>
  /\ LoopAlone

\* The Revive is refused when somebody moved the task on first.
LoopRevives(t, k) ==
  /\ LoopAt(t, k, "revive")
  /\ Transition(t, "Revive")
  /\ LoopGoes(t, k, "exit")
  /\ UNCHANGED <<driving, merged>>
  /\ LoopAlone

\* Mutant: there is no DriveGuard.
LoopExitsUnguarded(t, k) ==
  /\ LoopAt(t, k, "exit")
  /\ loop' = [loop EXCEPT ![t][k] = NoLoop]
  /\ UNCHANGED <<task, driving, merged>>
  /\ LoopAlone

\* DriveGuard frees the task.
LoopExits(t, k) ==
  /\ LoopAt(t, k, "exit")
  /\ driving' = driving \ {t}
  /\ loop' = [loop EXCEPT ![t][k] = NoLoop]
  /\ UNCHANGED <<task, merged>>
  /\ LoopAlone

LoopStep(t, k) ==
  \/ LoopPolls(t, k)
  \/ LoopGivesUp(t, k)
  \/ LoopGates(t, k)
  \/ LoopChecks(t, k)
  \/ LoopLands(t, k)
  \/ LoopRecords(t, k)
  \/ LoopBlocks(t, k)
  \/ LoopBumps(t, k)
  \/ LoopRevives(t, k)
  \/ LoopExits(t, k)
============================================================================
