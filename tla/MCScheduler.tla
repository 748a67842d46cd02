---------------------------- MODULE MCScheduler ----------------------------
(***************************************************************************)
(* Small boards to check the scheduler on: one task, or two of them that   *)
(* depend on each other, share a workflow or do not. A listing names t1    *)
(* before t2.                                                              *)
(***************************************************************************)
EXTENDS Scheduler, TLC

CONSTANTS t1, t2, r1, r2

One == {t1}
OneRank == t1 :> 1
OneRun == t1 :> r1
OneDeps == t1 :> {}
OneRetry == t1 :> 1

Pair == {t1, t2}
PairRank == t1 :> 1 @@ t2 :> 2
PairNoRetry == t1 :> 0 @@ t2 :> 0

\* t2 waits for t1, or neither waits.
Chain == t1 :> {} @@ t2 :> {t1}
Loose == t1 :> {} @@ t2 :> {}

\* One workflow, two, or one and a standalone task.
SameRun == t1 :> r1 @@ t2 :> r1
TwoRuns == t1 :> r1 @@ t2 :> r2
Standalone == t1 :> r1 @@ t2 :> NoRun
============================================================================
