----------------------------- MODULE SyncProofs -----------------------------
(***************************************************************************)
(* Theorems about the content, for every choice of the constants. In turn: *)
(* the sync between machines (workflows keep the lifecycle of their        *)
(* machine, the remote only advances, whoever arrives and has pulled has   *)
(* the newest of everything), the tree of a checkout, the documents        *)
(* published from it, the documents in the store and the records of the    *)
(* catalogue; and the types of each.                                       *)
(*                                                                         *)
(* First what holds of the rows, files, logs and jobs as types.            *)
(***************************************************************************)
EXTENDS ContentSync, FileTree, Publishing, Book, Shelf, FiniteSetTheorems,
        WellFoundedInduction, TLAPS

SyncStores == [Records -> Record]
SyncJob == [at : JobStates, pass : Nat, read : SyncStores, todo : SUBSET Records, since : BOOLEAN]
Operators == [at : Machines, pulled : BOOLEAN, saved : BOOLEAN]

PullShape(j) ==
    /\ j.at \in {"open", "pull"} => j.pass = 1
    /\ j.at = "read" => j.pass \in 1..4
    /\ j.at = "write" => j.pass \in 1..3 /\ j.todo \subseteq Passes[j.pass]
PushShape(j) ==
    /\ j.at = "open" => j.pass = 1
    /\ j.at = "export" => j.pass \in 1..3

AtCheckout(m) ==
    pulls[m].at \in {"pull", "read", "write"} \/ pushes[m].at \in {"export", "commit", "push"}

SyncFrame ==
    /\ regime \in Regimes
    /\ rows \in [Machines -> SyncStores] /\ files \in [Machines -> SyncStores]
    /\ head = [m \in Machines |-> head[m]]
    /\ \A m \in Machines : CheckedOut(m) => head[m] \in Seq(Commits)
    /\ cloud \in Seq(Commits)
    /\ pulls \in [Machines -> SyncJob] /\ pushes \in [Machines -> SyncJob]
    /\ \A m \in Machines : PullShape(pulls[m]) /\ PushShape(pushes[m])
    /\ \A m \in Machines : AtCheckout(m) => CheckedOut(m)
    /\ operator \in Operators
    /\ owned \in [Machines -> [Records -> BOOLEAN]]
    /\ lags \subseteq Machines

\* What a commit holds, an empty log, a longer one.
LEMMA LogsHoldFiles ==
    /\ Absent \in Record /\ Nothing \in SyncStores
    /\ \A log \in Seq(Commits) : FilesAt(log) \in SyncStores
    /\ FilesAt(<<>>) = Nothing
<1>1. Absent \in Record /\ Nothing \in SyncStores
  BY SyncBoundsAssumption DEF Absent, Record, Nothing, SyncStores
<1>2. ASSUME NEW log \in Seq(Commits)
      PROVE  FilesAt(log) \in SyncStores
  <2>1. CASE log = <<>>
    BY <1>1, <2>1 DEF FilesAt
  <2>2. CASE log # <<>>
    <3>1. Len(log) \in 1..Len(log)
      BY <2>2
    <3>2. log[Len(log)] \in Commits
      BY <3>1
    <3> QED BY <2>2, <3>2 DEF FilesAt, Last, Commits, SyncStores
  <2> QED BY <2>1, <2>2
<1> QED BY <1>1, <1>2 DEF FilesAt

\* A log of commits is never taken for a missing checkout.
LEMMA LogIsCheckout == \A log \in Seq(Commits) : log # NoCheckout
<1> SUFFICES ASSUME NEW log \in Seq(Commits), log = NoCheckout
             PROVE  FALSE
  OBVIOUS
<1>1. Len(log) = 1 /\ log[1].by = "nobody"
  BY DEF NoCheckout
<1>2. log[1] \in Commits
  BY <1>1
<1> QED BY <1>1, <1>2, HomeAssumption DEF Commits

\* One machine's entry of a table changes.
LEMMA JobMoves ==
    ASSUME NEW jobs \in [Machines -> SyncJob], NEW m \in Machines, NEW p \in JobStates
    PROVE  LET js == [jobs EXCEPT ![m].at = p]
           IN  /\ js \in [Machines -> SyncJob]
               /\ \A k \in Machines \ {m} : js[k] = jobs[k]
               /\ js[m].at = p /\ js[m].pass = jobs[m].pass /\ js[m].read = jobs[m].read
               /\ js[m].todo = jobs[m].todo /\ js[m].since = jobs[m].since
BY DEF SyncJob

\* Jobs, begun and moved.
LEMMA NoJobIsJob == NoJob \in SyncJob
BY LogsHoldFiles DEF NoJob, SyncJob, JobStates

\* A job gets another entry.
LEMMA JobIsSet ==
    ASSUME NEW jobs \in [Machines -> SyncJob], NEW m \in Machines, NEW j \in SyncJob
    PROVE  LET js == [jobs EXCEPT ![m] = j]
           IN  /\ js \in [Machines -> SyncJob] /\ js[m] = j
               /\ \A k \in Machines \ {m} : js[k] = jobs[k]
OBVIOUS

\* A job begun.
LEMMA JobBegun ==
    ASSUME NEW since \in BOOLEAN
    PROVE  LET j == [NoJob EXCEPT !.at = "open", !.since = since]
           IN  j \in SyncJob /\ j.at = "open" /\ j.pass = 1 /\ j.since = since
BY NoJobIsJob DEF NoJob, SyncJob, JobStates

\* The checkout taken up, cloned or made.
LEMMA CheckoutIsTyped ==
    ASSUME SyncFrame, NEW m \in Machines, ChecksOut(m)
    PROVE  /\ head' = [k \in Machines |-> head'[k]] /\ files' \in [Machines -> SyncStores]
           /\ head'[m] \in Seq(Commits)
           /\ \A k \in Machines \ {m} : head'[k] = head[k] /\ files'[k] = files[k]
<1>1. CASE UsesCheckout(m)
  BY <1>1 DEF UsesCheckout, SyncFrame
<1>2. CASE Clones(m)
  BY <1>2, LogsHoldFiles DEF Clones, SyncFrame
<1>3. CASE InitsEmpty(m)
  <2>1. head' = [head EXCEPT ![m] = <<>>] /\ files' = files /\ <<>> \in Seq(Commits)
    BY <1>3 DEF InitsEmpty
  <2>2. head = [k \in Machines |-> head[k]] /\ files \in [Machines -> SyncStores]
    BY DEF SyncFrame
  <2> QED BY <2>1, <2>2
<1> QED BY <1>1, <1>2, <1>3 DEF ChecksOut

\* The types hold at first.
LEMMA SyncFrameAtFirst == SyncInit => SyncFrame
<1> SUFFICES ASSUME SyncInit PROVE SyncFrame
  OBVIOUS
<1>1. /\ rows \in [Machines -> SyncStores] /\ files \in [Machines -> SyncStores]
  BY LogsHoldFiles DEF SyncInit
<1>2. pulls \in [Machines -> SyncJob] /\ pushes \in [Machines -> SyncJob]
      /\ \A m \in Machines : pulls[m].at = "idle" /\ pushes[m].at = "idle"
  BY NoJobIsJob DEF SyncInit, NoJob
<1>4. \A m \in Machines : PullShape(pulls[m]) /\ PushShape(pushes[m]) /\ ~AtCheckout(m)
  BY <1>2 DEF PullShape, PushShape, AtCheckout
<1>3. /\ head = [m \in Machines |-> head[m]] /\ \A m \in Machines : ~CheckedOut(m)
      /\ cloud \in Seq(Commits) /\ operator \in Operators /\ lags \subseteq Machines
      /\ owned \in [Machines -> [Records -> BOOLEAN]] /\ regime \in Regimes
  BY HomeAssumption DEF SyncInit, CheckedOut, Operators
<1> QED BY <1>1, <1>2, <1>3, <1>4 DEF SyncFrame

\* The parts of the frame that a step of a pull, or of a push, leaves.
LEMMA PullInFrame ==
    ASSUME SyncFrame, NEW m \in Machines, NEW j \in SyncJob, PullShape(j),
           pulls' = [pulls EXCEPT ![m] = j]
    PROVE  /\ pulls' \in [Machines -> SyncJob] /\ pulls'[m] = j
           /\ \A k \in Machines \ {m} : pulls'[k] = pulls[k]
           /\ \A k \in Machines : PullShape(pulls'[k])
<1>1. pulls \in [Machines -> SyncJob] /\ \A k \in Machines : PullShape(pulls[k])
  BY DEF SyncFrame
<1>2. /\ pulls' \in [Machines -> SyncJob] /\ pulls'[m] = j
      /\ \A k \in Machines \ {m} : pulls'[k] = pulls[k]
  BY <1>1
<1> QED BY <1>1, <1>2

\* A job of a machine changed, and no other.
LEMMA PushInFrame ==
    ASSUME SyncFrame, NEW m \in Machines, NEW j \in SyncJob, PushShape(j),
           pushes' = [pushes EXCEPT ![m] = j]
    PROVE  /\ pushes' \in [Machines -> SyncJob] /\ pushes'[m] = j
           /\ \A k \in Machines \ {m} : pushes'[k] = pushes[k]
           /\ \A k \in Machines : PushShape(pushes'[k])
<1>1. pushes \in [Machines -> SyncJob] /\ \A k \in Machines : PushShape(pushes[k])
  BY DEF SyncFrame
<1>2. /\ pushes' \in [Machines -> SyncJob] /\ pushes'[m] = j
      /\ \A k \in Machines \ {m} : pushes'[k] = pushes[k]
  BY <1>1
<1> QED BY <1>1, <1>2

\* What is left when nothing but the jobs, the stores and the logs moves.
LEMMA FrameMoves ==
    ASSUME SyncFrame, regime' = regime, NEW m \in Machines,
           rows' \in [Machines -> SyncStores], files' \in [Machines -> SyncStores],
           head' = [k \in Machines |-> head'[k]], head'[m] = head[m] \/ head'[m] \in Seq(Commits),
           \A k \in Machines \ {m} : head'[k] = head[k],
           cloud' \in Seq(Commits),
           pulls' \in [Machines -> SyncJob], \A k \in Machines : PullShape(pulls'[k]),
           pushes' \in [Machines -> SyncJob], \A k \in Machines : PushShape(pushes'[k]),
           \A k \in Machines \ {m} : pulls'[k] = pulls[k] /\ pushes'[k] = pushes[k],
           AtCheckout(m)' => AtCheckout(m) \/ CheckedOut(m)',
           operator' \in Operators, owned' \in [Machines -> [Records -> BOOLEAN]],
           lags' \subseteq Machines
    PROVE  SyncFrame'
<1>1. \A k \in Machines : CheckedOut(k)' => head'[k] \in Seq(Commits)
  BY DEF SyncFrame, CheckedOut
<1>3. \A k \in Machines : AtCheckout(k)' => CheckedOut(k)'
  <2>1. AtCheckout(m)' => CheckedOut(m)'
    BY LogIsCheckout DEF SyncFrame, CheckedOut
  <2>2. ASSUME NEW k \in Machines \ {m}, AtCheckout(k)'
        PROVE  CheckedOut(k)'
    <3>1. AtCheckout(k) /\ head'[k] = head[k]
      BY <2>2 DEF AtCheckout
    <3> QED BY <3>1 DEF SyncFrame, CheckedOut
  <2> QED BY <2>1, <2>2
<1>2. regime' \in Regimes
  BY DEF SyncFrame
<1> QED BY <1>1, <1>2, <1>3 DEF SyncFrame

\* The pull's steps.
LEMMA PullFrame ==
    ASSUME SyncFrame, NEW m \in Machines, regime' = regime,
           \/ PullStarts(m) \/ PullOpens(m) \/ PullForwards(m) \/ PullReads(m) \/ PullEnds(m)
           \/ \E r \in Records : PullWrites(m, r)
    PROVE  SyncFrame'
<1>1. /\ rows \in [Machines -> SyncStores] /\ files \in [Machines -> SyncStores]
      /\ head = [k \in Machines |-> head[k]] /\ cloud \in Seq(Commits)
      /\ pulls \in [Machines -> SyncJob] /\ pushes \in [Machines -> SyncJob]
      /\ \A k \in Machines : PullShape(pulls[k]) /\ PushShape(pushes[k])
      /\ operator \in Operators /\ owned \in [Machines -> [Records -> BOOLEAN]]
      /\ lags \subseteq Machines
  BY DEF SyncFrame
<1>2. pulls[m] \in SyncJob /\ PullShape(pulls[m])
  BY <1>1
<1>3. NoJob \in SyncJob /\ NoJob.at = "idle" /\ PullShape(NoJob)
  BY NoJobIsJob DEF NoJob, PullShape
<1>4. CASE PullStarts(m)
  <2> DEFINE j == [NoJob EXCEPT !.at = "open", !.since = Working(m)]
  <2>1. j \in SyncJob /\ j.at = "open" /\ j.pass = 1
    BY JobBegun DEF Working
  <2>2. pulls' = [pulls EXCEPT ![m] = j]
    BY <1>4 DEF PullStarts
  <2> HIDE DEF j
  <2>3. PullShape(j)
    BY <2>1 DEF PullShape
  <2>4. /\ pulls' \in [Machines -> SyncJob] /\ (\A k \in Machines : PullShape(pulls'[k]))
        /\ pulls'[m].at = "open" /\ \A k \in Machines \ {m} : pulls'[k] = pulls[k]
    BY <2>1, <2>2, <2>3, PullInFrame
  <2> QED BY <1>1, <1>4, <2>4, FrameMoves DEF PullStarts, AtCheckout
<1>5. CASE PullOpens(m)
  <2> DEFINE j == [pulls[m] EXCEPT !.at = "pull"]
  <2>1. j \in SyncJob /\ j.at = "pull" /\ j.pass = pulls[m].pass /\ pulls[m].at = "open"
    <3>1. pulls[m].at = "open"
      BY <1>5 DEF PullOpens
    <3> QED BY <1>2, <3>1 DEF SyncJob, JobStates
  <2>2. pulls' = [pulls EXCEPT ![m] = j]
    BY <1>1, <1>5 DEF PullOpens, PullGoes
  <2> HIDE DEF j
  <2>3. PullShape(j)
    BY <1>2, <2>1 DEF PullShape
  <2>4. /\ pulls' \in [Machines -> SyncJob] /\ (\A k \in Machines : PullShape(pulls'[k]))
        /\ \A k \in Machines \ {m} : pulls'[k] = pulls[k]
    BY <2>1, <2>2, <2>3, PullInFrame
  <2>5. lags' \subseteq Machines
    BY <1>1, <1>5 DEF PullOpens, LagsAfter
  <2>6. ChecksOut(m)
    BY <1>5 DEF PullOpens
  <2>7. CheckedOut(m)'
    BY <2>6, CheckoutIsTyped, LogIsCheckout DEF CheckedOut
  <2> QED BY <1>1, <1>5, <2>4, <2>5, <2>6, <2>7, CheckoutIsTyped, FrameMoves DEF PullOpens
<1>6. CASE PullForwards(m)
  <2>1. /\ pulls' \in [Machines -> SyncJob] /\ (\A k \in Machines : PullShape(pulls'[k]))
        /\ \A k \in Machines \ {m} : pulls'[k] = pulls[k]
    <3>1. CASE PullGoes(m, "read")
      <4> DEFINE j == [pulls[m] EXCEPT !.at = "read"]
      <4>1. j \in SyncJob /\ j.at = "read" /\ j.pass = pulls[m].pass /\ pulls[m].at = "pull"
        <5>1. pulls[m].at = "pull"
          BY <1>6 DEF PullForwards
        <5> QED BY <1>2, <5>1 DEF SyncJob, JobStates
      <4>2. pulls' = [pulls EXCEPT ![m] = j]
        BY <1>1, <3>1 DEF PullGoes
      <4> HIDE DEF j
      <4>3. PullShape(j)
        BY <1>2, <4>1 DEF PullShape
      <4> QED BY <4>1, <4>2, <4>3, PullInFrame
    <3>2. CASE PullFails(m)
      BY <1>3, <3>2, PullInFrame DEF PullFails
    <3> QED BY <1>6, <3>1, <3>2 DEF PullForwards
  <2>2. /\ head' = [k \in Machines |-> head'[k]] /\ files' \in [Machines -> SyncStores]
        /\ head'[m] = head[m] \/ head'[m] \in Seq(Commits)
        /\ \A k \in Machines \ {m} : head'[k] = head[k]
        /\ lags' \subseteq Machines
    <3>1. CASE head' = [head EXCEPT ![m] = cloud] /\ files' = [files EXCEPT ![m] = FilesAt(cloud)]
               /\ lags' = lags \cup {m}
      BY <1>1, <3>1, LogsHoldFiles
    <3>2. CASE head' = head /\ files' = files /\ lags' = lags
      BY <1>1, <3>2
    <3> QED BY <1>6, <3>1, <3>2 DEF PullForwards
  <2> QED BY <1>1, <1>6, <2>1, <2>2, FrameMoves DEF PullForwards, AtCheckout
<1>7. CASE PullReads(m)
  <2> DEFINE found == {r \in Passes[pulls[m].pass] : files[m][r] # Absent}
             read == [r \in Records |-> IF r \in found THEN files[m][r] ELSE Absent]
             j == [pulls[m] EXCEPT !.at = "write", !.todo = found, !.read = read]
             n == [pulls[m] EXCEPT !.pass = @ + 1]
  <2>1. pulls[m].at = "read" /\ pulls[m].pass \in 1..3
    <3>1. pulls[m].at = "read" /\ pulls[m].pass <= Len(Passes)
      BY <1>7 DEF PullReads
    <3>2. Len(Passes) = 3
      BY DEF Passes
    <3>3. pulls[m].pass \in 1..4
      BY <1>2, <3>1 DEF PullShape
    <3> QED BY <3>1, <3>2, <3>3
  <2>2. found \subseteq Passes[pulls[m].pass] /\ found \subseteq Records
    BY <2>1 DEF Passes, Records
  <2>3. read \in SyncStores
    BY <1>1, LogsHoldFiles DEF SyncStores
  <2>4. pulls' = [pulls EXCEPT ![m] = j] \/ pulls' = [pulls EXCEPT ![m] = n]
    BY <1>1, <1>7 DEF PullReads
  <2> HIDE DEF found, read
  <2>5. j \in SyncJob /\ j.at = "write" /\ j.pass = pulls[m].pass /\ j.todo = found
    BY <1>2, <2>2, <2>3 DEF SyncJob, JobStates
  <2>6. n \in SyncJob /\ n.at = pulls[m].at /\ n.pass = pulls[m].pass + 1
    BY <1>2 DEF SyncJob
  <2> HIDE DEF j, n
  <2>7. PullShape(j) /\ PullShape(n)
    BY <2>1, <2>2, <2>5, <2>6 DEF PullShape
  <2>8. /\ pulls' \in [Machines -> SyncJob] /\ (\A k \in Machines : PullShape(pulls'[k]))
        /\ \A k \in Machines \ {m} : pulls'[k] = pulls[k]
    BY <2>4, <2>5, <2>6, <2>7, PullInFrame
  <2> QED BY <1>1, <1>7, <2>8, FrameMoves DEF PullReads, AtCheckout
<1>8. ASSUME NEW r \in Records, PullWrites(m, r)
      PROVE  SyncFrame'
  <2> DEFINE got == Imported(r, rows[m][r], pulls[m].read[r])
             j == [pulls[m] EXCEPT !.todo = @ \ {r}]
             n == [NoJob EXCEPT !.at = "read", !.pass = pulls[m].pass + 1,
                                !.since = pulls[m].since]
  <2>1. /\ pulls[m].read[r] \in Record /\ rows[m][r] \in Record
    BY <1>1, <1>2 DEF SyncJob, SyncStores
  <2>2. got \in Record
    BY <2>1 DEF Imported, ImportsContent, ImportsTask, ImportsRun, Record
  <2>3. pulls[m].at = "write" /\ pulls[m].pass \in 1..3
        /\ pulls[m].todo \subseteq Passes[pulls[m].pass]
    BY <1>2, <1>8 DEF PullWrites, PullShape
  <2>4. j \in SyncJob /\ j.at = "write" /\ j.pass = pulls[m].pass /\ j.todo = pulls[m].todo \ {r}
    BY <1>2, <2>3 DEF SyncJob, JobStates
  <2>5. n \in SyncJob /\ n.at = "read" /\ n.pass = pulls[m].pass + 1
    <3>1. pulls[m].pass + 1 \in Nat /\ pulls[m].since \in BOOLEAN /\ "read" \in JobStates
      BY <1>2 DEF SyncJob, JobStates
    <3> QED BY <1>3, <3>1 DEF SyncJob
  <2>6. \/ pulls' = [pulls EXCEPT ![m] = j] \/ pulls' = [pulls EXCEPT ![m] = n]
        \/ pulls' = [pulls EXCEPT ![m] = NoJob]
    BY <1>1, <1>8 DEF PullWrites, PullFails
  <2> HIDE DEF j, n
  <2>7. PullShape(j) /\ PullShape(n)
    BY <2>3, <2>4, <2>5 DEF PullShape
  <2>8. /\ pulls' \in [Machines -> SyncJob] /\ (\A k \in Machines : PullShape(pulls'[k]))
        /\ \A k \in Machines \ {m} : pulls'[k] = pulls[k]
    BY <1>3, <2>4, <2>5, <2>6, <2>7, PullInFrame
  <2>9. rows' = [rows EXCEPT ![m][r] = got] \/ rows' = rows
    BY <1>1, <1>8 DEF PullWrites, SyncStores
  <2> HIDE DEF got
  <2>10. rows' \in [Machines -> SyncStores]
    <3>1. CASE rows' = rows
      BY <1>1, <3>1
    <3>2. CASE rows' = [rows EXCEPT ![m][r] = got]
      <4>1. rows[m] \in SyncStores
        BY <1>1
      <4>2. [rows[m] EXCEPT ![r] = got] \in SyncStores
        BY <2>2, <4>1 DEF SyncStores
      <4>3. rows' = [rows EXCEPT ![m] = [rows[m] EXCEPT ![r] = got]]
        BY <1>1, <3>2
      <4> QED BY <1>1, <4>2, <4>3
    <3> QED BY <2>9, <3>1, <3>2
  <2>11. owned' = [owned EXCEPT ![m][r] = pulls[m].read[r].active] \/ owned' = owned
    BY <1>8 DEF PullWrites
  <2>12. owned' \in [Machines -> [Records -> BOOLEAN]]
    <3>1. pulls[m].read[r].active \in BOOLEAN
      BY <2>1 DEF Record
    <3>2. owned[m] \in [Records -> BOOLEAN]
      BY <1>1
    <3>3. [owned[m] EXCEPT ![r] = pulls[m].read[r].active] \in [Records -> BOOLEAN]
      BY <3>1, <3>2
    <3>4. owned' = [owned EXCEPT ![m] = [owned[m] EXCEPT ![r] = pulls[m].read[r].active]]
          \/ owned' = owned
      BY <1>1, <2>11
    <3> QED BY <1>1, <3>3, <3>4
  <2> QED BY <1>1, <1>8, <2>8, <2>10, <2>12, FrameMoves DEF PullWrites, AtCheckout
<1>9. CASE PullEnds(m)
  <2>1. /\ pulls' \in [Machines -> SyncJob] /\ (\A k \in Machines : PullShape(pulls'[k]))
        /\ \A k \in Machines \ {m} : pulls'[k] = pulls[k]
    BY <1>3, <1>9, PullInFrame DEF PullEnds
  <2>2. operator' \in Operators /\ lags' \subseteq Machines
    BY <1>1, <1>9 DEF PullEnds, Operators
  <2> QED BY <1>1, <1>9, <2>1, <2>2, FrameMoves DEF PullEnds, AtCheckout
<1> QED BY <1>4, <1>5, <1>6, <1>7, <1>8, <1>9

\* The push's steps.
LEMMA PushFrame ==
    ASSUME SyncFrame, NEW m \in Machines, regime' = regime,
           \/ PushStarts(m) \/ PushOpens(m) \/ PushExports(m) \/ PushCommits(m) \/ PushSends(m)
    PROVE  SyncFrame'
<1>1. /\ rows \in [Machines -> SyncStores] /\ files \in [Machines -> SyncStores]
      /\ head = [k \in Machines |-> head[k]] /\ cloud \in Seq(Commits)
      /\ pulls \in [Machines -> SyncJob] /\ pushes \in [Machines -> SyncJob]
      /\ \A k \in Machines : PullShape(pulls[k]) /\ PushShape(pushes[k])
      /\ operator \in Operators /\ owned \in [Machines -> [Records -> BOOLEAN]]
      /\ lags \subseteq Machines /\ \A k \in Machines : CheckedOut(k) => head[k] \in Seq(Commits)
      /\ AtCheckout(m) => CheckedOut(m)
  BY DEF SyncFrame
<1>2. pushes[m] \in SyncJob /\ PushShape(pushes[m])
  BY <1>1
<1>3. NoJob \in SyncJob /\ NoJob.at = "idle" /\ PushShape(NoJob)
  BY NoJobIsJob DEF NoJob, PushShape
<1>4. [operator EXCEPT !.saved = TRUE] \in Operators
  BY <1>1 DEF Operators
<1>5. CASE PushStarts(m)
  <2> DEFINE j == [NoJob EXCEPT !.at = "open", !.since = TRUE]
  <2>1. j \in SyncJob /\ j.at = "open" /\ j.pass = 1
    BY JobBegun
  <2>2. pushes' = [pushes EXCEPT ![m] = j]
    BY <1>5 DEF PushStarts
  <2> HIDE DEF j
  <2>3. PushShape(j)
    BY <2>1 DEF PushShape
  <2>4. /\ pushes' \in [Machines -> SyncJob] /\ (\A k \in Machines : PushShape(pushes'[k]))
        /\ pushes'[m].at = "open" /\ \A k \in Machines \ {m} : pushes'[k] = pushes[k]
    BY <2>1, <2>2, <2>3, PushInFrame
  <2> QED BY <1>1, <1>5, <2>4, FrameMoves DEF PushStarts, AtCheckout
<1>6. CASE PushOpens(m)
  <2> DEFINE j == [pushes[m] EXCEPT !.at = "export"]
  <2>1. j \in SyncJob /\ j.at = "export" /\ j.pass = pushes[m].pass /\ pushes[m].at = "open"
    <3>1. pushes[m].at = "open"
      BY <1>6 DEF PushOpens
    <3> QED BY <1>2, <3>1 DEF SyncJob, JobStates
  <2>2. pushes' = [pushes EXCEPT ![m] = j]
    BY <1>1, <1>6 DEF PushOpens, PushGoes
  <2> HIDE DEF j
  <2>3. PushShape(j)
    BY <1>2, <2>1 DEF PushShape
  <2>4. /\ pushes' \in [Machines -> SyncJob] /\ (\A k \in Machines : PushShape(pushes'[k]))
        /\ \A k \in Machines \ {m} : pushes'[k] = pushes[k]
    BY <2>1, <2>2, <2>3, PushInFrame
  <2>5. lags' \subseteq Machines
    BY <1>1, <1>6 DEF PushOpens, LagsAfter
  <2>6. ChecksOut(m)
    BY <1>6 DEF PushOpens
  <2>7. CheckedOut(m)'
    BY <2>6, CheckoutIsTyped, LogIsCheckout DEF CheckedOut
  <2> QED BY <1>1, <1>6, <2>4, <2>5, <2>6, <2>7, CheckoutIsTyped, FrameMoves DEF PushOpens
<1>7. CASE PushExports(m)
  <2> DEFINE j == [pushes[m] EXCEPT !.at = "commit"]
             n == [pushes[m] EXCEPT !.pass = @ + 1]
             kept == [r \in Records |-> IF r \in Passes[pushes[m].pass] /\ rows[m][r] # Absent
                                        THEN rows[m][r] ELSE files[m][r]]
  <2>1. pushes[m].at = "export" /\ pushes[m].pass \in 1..3
    BY <1>2, <1>7 DEF PushExports, PushShape
  <2>2. \/ pushes[m].pass = 3 /\ pushes' = [pushes EXCEPT ![m] = j]
        \/ pushes[m].pass # 3 /\ pushes' = [pushes EXCEPT ![m] = n]
    <3>1. Len(Passes) = 3
      BY DEF Passes
    <3>2. \/ pushes[m].pass = Len(Passes) /\ pushes' = [pushes EXCEPT ![m].at = "commit"]
          \/ pushes[m].pass # Len(Passes) /\ pushes' = [pushes EXCEPT ![m].pass = @ + 1]
      BY <1>7 DEF PushExports
    <3>3. CASE pushes[m].pass = 3 /\ pushes' = [pushes EXCEPT ![m].at = "commit"]
      <4>1. pushes' = [pushes EXCEPT ![m] = j]
        BY <1>1, <3>3
      <4> QED BY <3>3, <4>1, Zenon
    <3>4. CASE pushes[m].pass # 3 /\ pushes' = [pushes EXCEPT ![m].pass = @ + 1]
      BY <1>1, <3>4
    <3> QED BY <3>1, <3>2, <3>3, <3>4
  <2>3. j \in SyncJob /\ j.at = "commit"
    BY <1>2 DEF SyncJob, JobStates
  <2>4. n \in SyncJob /\ n.at = "export" /\ n.pass = pushes[m].pass + 1
    BY <1>2, <2>1 DEF SyncJob, JobStates
  <2> HIDE DEF j, n
  <2>5. PushShape(j) /\ (pushes[m].pass # 3 => PushShape(n))
    BY <2>1, <2>3, <2>4 DEF PushShape
  <2>6. /\ pushes' \in [Machines -> SyncJob] /\ (\A k \in Machines : PushShape(pushes'[k]))
        /\ \A k \in Machines \ {m} : pushes'[k] = pushes[k]
    BY <2>2, <2>3, <2>4, <2>5, PushInFrame
  <2>7. kept \in SyncStores
    BY <1>1 DEF SyncStores
  <2>8. files' = [files EXCEPT ![m] = kept]
    BY <1>1, <1>7 DEF PushExports
  <2> HIDE DEF kept
  <2>9. files' \in [Machines -> SyncStores]
    BY <1>1, <2>7, <2>8
  <2> QED BY <1>1, <1>7, <2>6, <2>9, FrameMoves DEF PushExports, AtCheckout
<1>8. ASSUME PushReports(m)
      PROVE  /\ pushes' \in [Machines -> SyncJob] /\ operator' \in Operators
             /\ \A k \in Machines : PushShape(pushes'[k])
             /\ pushes'[m].at = "idle" /\ \A k \in Machines \ {m} : pushes'[k] = pushes[k]
  BY <1>1, <1>3, <1>4, <1>8, PushInFrame DEF PushReports
<1>11. PushCommits(m) \/ PushSends(m) => head[m] \in Seq(Commits) /\ CheckedOut(m)
  BY <1>1 DEF PushCommits, PushSends, AtCheckout
<1>9. CASE PushCommits(m)
  <2>1. CASE PushReports(m) /\ head' = head
    BY <1>1, <1>8, <1>9, <2>1, FrameMoves DEF PushCommits, AtCheckout
  <2>2. CASE /\ head' = [head EXCEPT ![m] = Append(@, [by |-> m, files |-> files[m]])]
             /\ PushGoes(m, "push") /\ operator' = operator
    <3> DEFINE j == [pushes[m] EXCEPT !.at = "push"]
    <3>1. j \in SyncJob /\ j.at = "push"
      BY <1>2 DEF SyncJob, JobStates
    <3>2. pushes' = [pushes EXCEPT ![m] = j]
      BY <1>1, <2>2 DEF PushGoes
    <3> HIDE DEF j
    <3>3. PushShape(j)
      BY <3>1 DEF PushShape
    <3>4. /\ pushes' \in [Machines -> SyncJob] /\ (\A k \in Machines : PushShape(pushes'[k]))
          /\ \A k \in Machines \ {m} : pushes'[k] = pushes[k]
      BY <3>1, <3>2, <3>3, PushInFrame
    <3>5. [by |-> m, files |-> files[m]] \in Commits
      BY <1>1 DEF Commits, SyncStores
    <3>6. head[m] \in Seq(Commits)
      BY <1>9, <1>11
    <3>7. /\ head' = [k \in Machines |-> head'[k]] /\ head'[m] \in Seq(Commits)
          /\ \A k \in Machines \ {m} : head'[k] = head[k]
      <4> DEFINE e == [by |-> m, files |-> files[m]]
      <4>1. e \in Commits
        BY <3>5
      <4>2. head' = [head EXCEPT ![m] = Append(@, e)]
        BY <2>2
      <4> HIDE DEF e
      <4>3. Append(head[m], e) \in Seq(Commits)
        BY <3>6, <4>1
      <4> QED BY <1>1, <4>2, <4>3
    <3> QED BY <1>1, <1>9, <2>2, <3>4, <3>7, FrameMoves DEF PushCommits, AtCheckout
  <2> QED BY <1>9, <2>1, <2>2 DEF PushCommits
<1>10. CASE PushSends(m)
  <2>1. CASE PushReports(m) /\ cloud' = head[m]
    BY <1>1, <1>8, <1>10, <1>11, <2>1, FrameMoves DEF PushSends, AtCheckout
  <2>2. CASE SyncPushFails(m) /\ cloud' = cloud /\ operator' = operator
    <3>1. /\ pushes' \in [Machines -> SyncJob] /\ (\A k \in Machines : PushShape(pushes'[k]))
          /\ \A k \in Machines \ {m} : pushes'[k] = pushes[k]
      BY <1>3, <2>2, PushInFrame DEF SyncPushFails
    <3> QED BY <1>1, <1>10, <2>2, <3>1, FrameMoves DEF PushSends, AtCheckout
  <2> QED BY <1>10, <2>1, <2>2 DEF PushSends
<1> QED BY <1>5, <1>6, <1>7, <1>9, <1>10

\* The other steps.
LEMMA OtherSyncFrame ==
    ASSUME SyncFrame, NEW m \in Machines, regime' = regime,
           \/ \E b \in BOOLEAN : Boots(m, b)
           \/ \E r \in regime.records : Edits(m, r)
           \/ \E r \in SyncRuns : LifecycleMoves(m, r)
           \/ \E n \in Machines : Leaves(m, n)
    PROVE  SyncFrame'
<1>1. /\ rows \in [Machines -> SyncStores] /\ files \in [Machines -> SyncStores]
      /\ head = [k \in Machines |-> head[k]] /\ cloud \in Seq(Commits)
      /\ pulls \in [Machines -> SyncJob] /\ pushes \in [Machines -> SyncJob]
      /\ \A k \in Machines : PullShape(pulls[k]) /\ PushShape(pushes[k])
      /\ operator \in Operators /\ owned \in [Machines -> [Records -> BOOLEAN]]
      /\ lags \subseteq Machines
  BY DEF SyncFrame
<1>2. /\ pulls[m] \in SyncJob /\ PullShape(pulls[m])
      /\ pushes[m] \in SyncJob /\ PushShape(pushes[m])
  BY <1>1
<1>3. NoJob \in SyncJob /\ NoJob.at = "idle" /\ PullShape(NoJob) /\ PushShape(NoJob)
  BY NoJobIsJob DEF NoJob, PullShape, PushShape
<1>4. ASSUME NEW b \in BOOLEAN, Boots(m, b)
      PROVE  SyncFrame'
  <2> DEFINE j == [NoJob EXCEPT !.at = "open", !.since = Working(m)]
             n == IF b THEN j ELSE NoJob
  <2>1. j \in SyncJob /\ j.at = "open" /\ j.pass = 1
    BY JobBegun DEF Working
  <2>2. pulls' = [pulls EXCEPT ![m] = n] /\ pushes' = [pushes EXCEPT ![m] = NoJob]
    BY <1>4 DEF Boots
  <2> HIDE DEF j
  <2>3. n \in SyncJob /\ n.at \in {"idle", "open"} /\ PullShape(n)
    BY <1>3, <2>1 DEF PullShape
  <2> HIDE DEF n
  <2>4. /\ pulls' \in [Machines -> SyncJob] /\ (\A k \in Machines : PullShape(pulls'[k]))
        /\ pulls'[m] = n /\ \A k \in Machines \ {m} : pulls'[k] = pulls[k]
    BY <2>2, <2>3, PullInFrame
  <2>5. /\ pushes' \in [Machines -> SyncJob] /\ (\A k \in Machines : PushShape(pushes'[k]))
        /\ pushes'[m] = NoJob /\ \A k \in Machines \ {m} : pushes'[k] = pushes[k]
    BY <1>3, <2>2, PushInFrame
  <2>6. ~AtCheckout(m)'
    BY <1>3, <2>3, <2>4, <2>5 DEF AtCheckout
  <2> QED BY <1>1, <1>4, <2>4, <2>5, <2>6, FrameMoves DEF Boots
<1>5. ASSUME NEW r \in regime.records, Edits(m, r)
      PROVE  SyncFrame'
  <2> DEFINE j == [pushes[m] EXCEPT !.since = FALSE]
             e == [rows[m][r] EXCEPT !.version = @ + 1]
  <2>1. j \in SyncJob /\ j.at = pushes[m].at /\ j.pass = pushes[m].pass
    BY <1>2 DEF SyncJob
  <2>2. pushes' = [pushes EXCEPT ![m] = j]
    BY <1>1, <1>5 DEF Edits
  <2> HIDE DEF j
  <2>3. PushShape(j)
    BY <1>2, <2>1 DEF PushShape
  <2>4. /\ pushes' \in [Machines -> SyncJob] /\ (\A k \in Machines : PushShape(pushes'[k]))
        /\ pushes'[m] = j /\ \A k \in Machines \ {m} : pushes'[k] = pushes[k]
    BY <2>1, <2>2, <2>3, PushInFrame
  <2>5. r \in Records /\ rows[m] \in SyncStores /\ rows[m][r] \in Record
    <3>1. r \in Records
      <4>1. regime \in Regimes
        BY DEF SyncFrame
      <4> QED BY <4>1, SyncBoundsAssumption DEF Records
    <3> QED BY <1>1, <3>1 DEF SyncStores
  <2>6. rows[m][r].version < MaxVersion \/ rows[m][r].version < 1
    BY <1>5 DEF Edits
  <2>7. e \in Record
    BY <2>5, <2>6, SyncBoundsAssumption DEF Record
  <2>8. rows' = [rows EXCEPT ![m] = [rows[m] EXCEPT ![r] = e]]
    BY <1>1, <1>5 DEF Edits
  <2> HIDE DEF e
  <2>9. [rows[m] EXCEPT ![r] = e] \in SyncStores
    BY <2>5, <2>7 DEF SyncStores
  <2>10. rows' \in [Machines -> SyncStores]
    BY <1>1, <2>8, <2>9
  <2>11. operator' \in Operators
    BY <1>1, <1>5 DEF Edits, Operators
  <2>12. AtCheckout(m)' => AtCheckout(m)
    BY <1>5, <2>1, <2>4 DEF AtCheckout, Edits
  <2> QED BY <1>1, <1>5, <2>4, <2>10, <2>11, <2>12, FrameMoves DEF Edits
<1>6. ASSUME NEW r \in SyncRuns, LifecycleMoves(m, r)
      PROVE  SyncFrame'
  <2> DEFINE e == [rows[m][r] EXCEPT !.active = ~@]
             mine == ~rows[m][r].active
  <2>1. r \in Records /\ rows[m] \in SyncStores /\ rows[m][r] \in Record
        /\ owned[m] \in [Records -> BOOLEAN]
    BY <1>1 DEF Records, SyncStores
  <2>2. e \in Record /\ mine \in BOOLEAN
    BY <2>1 DEF Record
  <2>3. /\ rows' = [rows EXCEPT ![m] = [rows[m] EXCEPT ![r] = e]]
        /\ owned' = [owned EXCEPT ![m] = [owned[m] EXCEPT ![r] = mine]]
    BY <1>1, <1>6 DEF LifecycleMoves
  <2> HIDE DEF e, mine
  <2>4. [rows[m] EXCEPT ![r] = e] \in SyncStores
    BY <2>1, <2>2 DEF SyncStores
  <2>5. [owned[m] EXCEPT ![r] = mine] \in [Records -> BOOLEAN]
    BY <2>1, <2>2
  <2>6. rows' \in [Machines -> SyncStores] /\ owned' \in [Machines -> [Records -> BOOLEAN]]
    BY <1>1, <2>3, <2>4, <2>5
  <2> QED BY <1>1, <1>6, <2>6, FrameMoves DEF LifecycleMoves, AtCheckout
<1>7. ASSUME NEW n \in Machines, Leaves(m, n)
      PROVE  SyncFrame'
  <2> DEFINE j == [pulls[m] EXCEPT !.since = FALSE]
  <2>1. j \in SyncJob /\ j.at = pulls[m].at /\ j.pass = pulls[m].pass /\ j.todo = pulls[m].todo
    BY <1>2 DEF SyncJob
  <2>2. pulls' = [pulls EXCEPT ![m] = j]
    BY <1>1, <1>7 DEF Leaves
  <2> HIDE DEF j
  <2>3. PullShape(j)
    BY <1>2, <2>1 DEF PullShape
  <2>4. /\ pulls' \in [Machines -> SyncJob] /\ (\A k \in Machines : PullShape(pulls'[k]))
        /\ pulls'[m] = j /\ \A k \in Machines \ {m} : pulls'[k] = pulls[k]
    BY <2>1, <2>2, <2>3, PullInFrame
  <2>5. operator' \in Operators
    BY <1>7 DEF Leaves, Operators
  <2>6. AtCheckout(m)' => AtCheckout(m)
    BY <1>7, <2>1, <2>4 DEF AtCheckout, Leaves
  <2> QED BY <1>1, <1>7, <2>4, <2>5, <2>6, FrameMoves DEF Leaves
<1> QED BY <1>4, <1>5, <1>6, <1>7

\* A step of the sync is a step of a machine, or none.
LEMMA SyncStepIs ==
    ASSUME [SyncNext]_syncVars
    PROVE  \/ UNCHANGED syncVars
           \/ /\ regime' = regime
              /\ \E m \in Machines :
                    \/ \/ PullStarts(m) \/ PullOpens(m) \/ PullForwards(m) \/ PullReads(m)
                       \/ PullEnds(m) \/ \E r \in Records : PullWrites(m, r)
                    \/ \/ PushStarts(m) \/ PushOpens(m) \/ PushExports(m) \/ PushCommits(m)
                       \/ PushSends(m)
                    \/ \/ \E b \in BOOLEAN : Boots(m, b)
                       \/ \E r \in regime.records : Edits(m, r)
                       \/ \E r \in SyncRuns : LifecycleMoves(m, r)
                       \/ \E n \in Machines : Leaves(m, n)
BY DEF SyncNext, SyncJobs, PostPull, PostPush, AutoPush, RunNow

\* The types hold on.
LEMMA SyncFrameOn == SyncFrame /\ [SyncNext]_syncVars => SyncFrame'
<1> SUFFICES ASSUME SyncFrame, [SyncNext]_syncVars PROVE SyncFrame'
  OBVIOUS
<1>1. CASE UNCHANGED syncVars
  BY <1>1 DEF syncVars, SyncFrame, CheckedOut, AtCheckout
<1> QED BY <1>1, SyncStepIs, PullFrame, PushFrame, OtherSyncFrame

\* The lifecycle of a workflow is the last this machine gave it.
RunsAreOwn == \A m \in Machines, r \in SyncRuns : rows[m][r].active = owned[m][r]

\* No import of whatever snapshot changes that.
LEMMA RunsStayOwn == SyncFrame /\ RunsAreOwn /\ [SyncNext]_syncVars => RunsAreOwn'
<1> SUFFICES ASSUME SyncFrame, RunsAreOwn, [SyncNext]_syncVars PROVE RunsAreOwn'
  OBVIOUS
<1>1. /\ rows \in [Machines -> [Records -> Record]] /\ owned \in [Machines -> [Records -> BOOLEAN]]
      /\ SyncRuns \subseteq Records
  BY DEF SyncFrame, SyncStores, Records
<1>2. CASE rows' = rows /\ owned' = owned
  BY <1>2 DEF RunsAreOwn
<1>3. ASSUME NEW m \in Machines, NEW r \in Records, PullWrites(m, r)
      PROVE  RunsAreOwn'
  <2> DEFINE got == Imported(r, rows[m][r], pulls[m].read[r])
  <2>1. CASE rows' = [rows EXCEPT ![m][r] = got]
             /\ owned' = IF rows[m][r] = Absent
                         THEN [owned EXCEPT ![m][r] = pulls[m].read[r].active] ELSE owned
    <3>1. rows'[m][r] = got /\ \A k \in Machines, q \in Records : (k # m \/ q # r) =>
               rows'[k][q] = rows[k][q] /\ owned'[k][q] = owned[k][q]
      BY <1>1, <2>1
    <3>2. CASE r \in SyncRuns /\ rows[m][r] = Absent
      <4>1. got = pulls[m].read[r]
        BY <3>2, KindsAssumption DEF Imported, ImportsRun
      <4>2. owned'[m][r] = pulls[m].read[r].active
        BY <1>1, <2>1, <3>2
      <4> HIDE DEF got
      <4>3. rows'[m][r].active = owned'[m][r]
        BY <3>1, <4>1, <4>2
      <4> QED BY <1>1, <3>1, <4>3 DEF RunsAreOwn
    <3>3. CASE r \in SyncRuns /\ rows[m][r] # Absent
      <4>1. got = rows[m][r]
        BY <3>3, KindsAssumption DEF Imported, ImportsRun
      <4>2. owned' = owned
        BY <2>1, <3>3
      <4> HIDE DEF got
      <4> QED BY <1>1, <3>1, <4>1, <4>2 DEF RunsAreOwn
    <3>4. CASE r \notin SyncRuns
      <4> HIDE DEF got
      <4> QED BY <1>1, <3>1, <3>4 DEF RunsAreOwn
    <3> QED BY <3>2, <3>3, <3>4
  <2> QED BY <1>2, <1>3, <2>1 DEF PullWrites
<1>4. ASSUME NEW m \in Machines, NEW r \in regime.records, Edits(m, r)
      PROVE  RunsAreOwn'
  <2>1. owned' = owned /\ \A k \in Machines, q \in Records : rows'[k][q].active = rows[k][q].active
    <3>1. rows' = [rows EXCEPT ![m][r].version = @ + 1]
      BY <1>4 DEF Edits
    <3> QED BY <1>1, <1>4, <3>1 DEF Record, Edits
  <2> QED BY <1>1, <2>1 DEF RunsAreOwn
<1>5. ASSUME NEW m \in Machines, NEW r \in SyncRuns, LifecycleMoves(m, r)
      PROVE  RunsAreOwn'
  <2>1. /\ rows'[m][r].active = ~rows[m][r].active /\ owned'[m][r] = ~rows[m][r].active
    BY <1>1, <1>5 DEF LifecycleMoves, Record
  <2>2. \A k \in Machines, q \in Records : (k # m \/ q # r) =>
            rows'[k][q] = rows[k][q] /\ owned'[k][q] = owned[k][q]
    BY <1>1, <1>5 DEF LifecycleMoves
  <2> QED BY <1>1, <2>1, <2>2 DEF RunsAreOwn
<1>6. ASSUME NEW m \in Machines,
             \/ PullStarts(m) \/ PullOpens(m) \/ PullForwards(m) \/ PullReads(m) \/ PullEnds(m)
      PROVE  rows' = rows /\ owned' = owned
  BY <1>6 DEF PullStarts, PullOpens, PullForwards, PullReads, PullEnds
<1>7. ASSUME NEW m \in Machines,
             \/ PushStarts(m) \/ PushOpens(m) \/ PushExports(m) \/ PushCommits(m) \/ PushSends(m)
      PROVE  rows' = rows /\ owned' = owned
  BY <1>7 DEF PushStarts, PushOpens, PushExports, PushCommits, PushSends
<1>8. ASSUME NEW m \in Machines,
             (\E b \in BOOLEAN : Boots(m, b)) \/ (\E n \in Machines : Leaves(m, n))
      PROVE  rows' = rows /\ owned' = owned
  BY <1>8 DEF Boots, Leaves
<1>9. CASE UNCHANGED syncVars
  BY <1>2, <1>9 DEF syncVars
<1> QED BY <1>2, <1>3, <1>4, <1>5, <1>6, <1>7, <1>8, <1>9, SyncStepIs

(***************************************************************************)
(* No import, by whatever pull of whatever snapshot, touches the lifecycle *)
(* of a workflow that the store has: it is what this machine made it last. *)
(* (import_all)                                                            *)
(***************************************************************************)
THEOREM WorkflowsStayLocal == SyncSpec => []LifecycleIsLocal
<1>1. SyncInit => RunsAreOwn
  <2> SUFFICES ASSUME SyncInit, NEW m \in Machines, NEW r \in SyncRuns
               PROVE  rows[m][r].active = owned[m][r]
    BY DEF RunsAreOwn
  <2>1. r \in Records
    BY DEF Records
  <2>2. rows[m][r] = Absent /\ owned[m][r] = FALSE
    BY <2>1 DEF SyncInit, Nothing
  <2>3. Absent.active = FALSE
    BY DEF Absent
  <2> QED BY <2>2, <2>3, Zenon
<1>2. RunsAreOwn => LifecycleIsLocal
  BY DEF RunsAreOwn, LifecycleIsLocal
<1> QED BY <1>1, <1>2, SyncFrameAtFirst, SyncFrameOn, RunsStayOwn, PTL DEF SyncSpec

(***************************************************************************)
(* The versions of what is imported over what is there, compared: logs     *)
(* only add, files are no older than the log and no newer than the store,  *)
(* and where no edit is unsaved the remote has everything.                 *)
(***************************************************************************)
Content == Docs \cup SyncTasks
Older(f, g) == \A r \in Content : f[r].version <= g[r].version
Grows(log) == \A i, j \in 1..Len(log) : i <= j => Older(log[i].files, log[j].files)

\* The kinds a job has been through.
Past(pass) == {r \in Content : \E i \in 1..Len(Passes) : i < pass /\ r \in Passes[i]}
Importing(m) == pulls[m].at \in {"read", "write"}
Imports(m) == pulls[m].at = "write"
Exports(m) == pushes[m].at \in {"export", "commit", "push"}
Exported(m) == IF pushes[m].at = "export" THEN Past(pushes[m].pass) ELSE Content

\* Logs only add to what they hold, and the files to the log.
LogsGrow(m) ==
    /\ CheckedOut(m) => Grows(head[m]) /\ Older(FilesAt(head[m]), files[m])
    /\ ~CheckedOut(m) => files[m] = Nothing

\* A store has what its files have, but for what a pull is still to import.
RowsAhead(m) ==
    /\ m \notin lags => Older(files[m], rows[m])
    /\ m \in lags /\ Importing(m) =>
          \A r \in Past(pulls[m].pass) : files[m][r].version <= rows[m][r].version
    /\ m \in lags /\ Imports(m) =>
          \A r \in Content \cap Passes[pulls[m].pass] :
              IF r \in pulls[m].todo THEN files[m][r].version <= pulls[m].read[r].version
              ELSE files[m][r].version <= rows[m][r].version

\* What is being imported is no older than the row.
ReadIsNewer(m) ==
    Imports(m) =>
        \A r \in Content \cap pulls[m].todo :
            /\ rows[m][r].version <= pulls[m].read[r].version
            /\ pulls[m].read[r].version <= files[m][r].version

\* Without unsaved edits, the files have what the store has, and the remote has it too.
SavedIsSent(m) == ~HasUnsaved(m) => Older(rows[m], files[m]) /\ Older(files[m], FilesAt(cloud))

\* A push that began after the edits has them.
PushTakes(m) ==
    /\ Exports(m) /\ pushes[m].since =>
          \A r \in Exported(m) : rows[m][r].version <= files[m][r].version
    /\ pushes[m].at = "push" => Older(files[m], FilesAt(head[m]))

\* A pull that began after the arrival brings what the remote has.
PullBrings(m) ==
    /\ pulls[m].since => Working(m)
    /\ pulls[m].since /\ Importing(m) => Older(FilesAt(cloud), files[m])

MachineSafe(m) ==
    /\ LogsGrow(m) /\ RowsAhead(m) /\ ReadIsNewer(m)
    /\ SavedIsSent(m) /\ PushTakes(m) /\ PullBrings(m)

Arrived ==
    /\ operator.pulled => Older(FilesAt(cloud), rows[operator.at])
    /\ operator.pulled => Older(files[operator.at], rows[operator.at])
    /\ ~operator.pulled => operator.saved

SyncSound == Grows(cloud) /\ Arrived /\ \A m \in Machines : MachineSafe(m)
SyncSafe == spoiled = {} => SyncSound

\* What is compared below.
LEMMA VersionsAreNat ==
    ASSUME SyncFrame, NEW r \in Content
    PROVE  /\ FilesAt(cloud)[r].version \in Nat
           /\ \A m \in Machines :
                 /\ rows[m][r].version \in Nat /\ files[m][r].version \in Nat
                 /\ pulls[m].read[r].version \in Nat
                 /\ CheckedOut(m) => FilesAt(head[m])[r].version \in Nat
<1>1. r \in Records /\ \A f \in SyncStores : f[r].version \in Nat
  BY SyncBoundsAssumption DEF Content, Records, SyncStores, Record
<1>2. FilesAt(cloud) \in SyncStores
  BY LogsHoldFiles DEF SyncFrame
<1>3. ASSUME NEW m \in Machines
      PROVE  /\ rows[m] \in SyncStores /\ files[m] \in SyncStores /\ pulls[m].read \in SyncStores
             /\ CheckedOut(m) => FilesAt(head[m]) \in SyncStores
  BY LogsHoldFiles DEF SyncFrame, SyncJob
<1> QED BY <1>1, <1>2, <1>3

\* Versions are compared as numbers are.
LEMMA OlderIsOrder ==
    /\ \A f \in SyncStores : Older(f, f) /\ Older(Nothing, f)
    /\ \A f, g, h \in SyncStores : Older(f, g) /\ Older(g, h) => Older(f, h)
<1>1. \A f \in SyncStores, r \in Content : f[r].version \in Nat
  BY SyncBoundsAssumption DEF Content, Records, SyncStores, Record
<1>2. \A r \in Content : Nothing[r].version = 0
  BY DEF Nothing, Absent, Content, Records
<1>3. \A f \in SyncStores : Older(f, f) /\ Older(Nothing, f)
  BY <1>1, <1>2 DEF Older
<1>4. \A f, g, h \in SyncStores : Older(f, g) /\ Older(g, h) => Older(f, h)
  <2> SUFFICES ASSUME NEW f \in SyncStores, NEW g \in SyncStores, NEW h \in SyncStores,
                      Older(f, g), Older(g, h), NEW r \in Content
               PROVE  f[r].version <= h[r].version
    BY DEF Older
  <2>1. f[r].version \in Nat /\ g[r].version \in Nat /\ h[r].version \in Nat
    BY <1>1
  <2> QED BY <2>1 DEF Older
<1> QED BY <1>3, <1>4

\* A log that another continues is older, and one that grows grows by what is newer.
LEMMA PrefixIsOlder ==
    ASSUME NEW s \in Seq(Commits), NEW t \in Seq(Commits), IsPrefix(s, t), Grows(t)
    PROVE  Older(FilesAt(s), FilesAt(t))
<1>1. Len(s) <= Len(t) /\ SubSeq(s, 1, Len(s)) = SubSeq(t, 1, Len(s))
  BY DEF IsPrefix
<1>2. CASE s = <<>>
  BY <1>2, LogsHoldFiles, OlderIsOrder
<1>3. CASE s # <<>>
  <2>1. Len(s) \in 1..Len(s) /\ Len(s) \in 1..Len(t) /\ Len(t) \in 1..Len(t) /\ t # <<>>
    BY <1>1, <1>3
  <2>2. SubSeq(s, 1, Len(s))[Len(s)] = s[Len(s)]
    BY <2>1
  <2>3. SubSeq(t, 1, Len(s))[Len(s)] = t[Len(s)]
    BY <2>1
  <2>4. s[Len(s)] = t[Len(s)]
    BY <1>1, <2>2, <2>3
  <2>5. Older(t[Len(s)].files, t[Len(t)].files)
    BY <1>1, <2>1 DEF Grows
  <2> QED BY <1>3, <2>1, <2>4, <2>5 DEF FilesAt, Last
<1> QED BY <1>2, <1>3

\* A commit of files no older than the log's adds to it.
LEMMA AppendGrows ==
    ASSUME NEW s \in Seq(Commits), Grows(s), NEW c \in Commits, Older(FilesAt(s), c.files)
    PROVE  Grows(Append(s, c)) /\ FilesAt(Append(s, c)) = c.files
<1> DEFINE t == Append(s, c)
<1>1. /\ t \in Seq(Commits) /\ Len(t) = Len(s) + 1 /\ t[Len(t)] = c /\ t # <<>>
      /\ \A i \in 1..Len(s) : t[i] = s[i]
  OBVIOUS
<1> HIDE DEF t
<1>2. FilesAt(t) = c.files
  BY <1>1 DEF FilesAt, Last
<1>3. ASSUME NEW i \in 1..Len(t), NEW j \in 1..Len(t), i <= j
      PROVE  Older(t[i].files, t[j].files)
  <2>1. CASE j \in 1..Len(s)
    BY <1>1, <1>3, <2>1 DEF Grows
  <2>2. CASE j \notin 1..Len(s) /\ i \in 1..Len(s)
    <3>1. j = Len(t) /\ s # <<>> /\ Len(s) \in 1..Len(s) /\ i <= Len(s)
      BY <1>1, <2>2
    <3>2. Older(s[i].files, s[Len(s)].files)
      BY <2>2, <3>1 DEF Grows
    <3>3. Older(s[Len(s)].files, c.files)
      BY <3>1 DEF FilesAt, Last
    <3>4. s[i] \in Commits /\ s[Len(s)] \in Commits
      BY <2>2, <3>1
    <3>5. Older(s[i].files, c.files)
      BY <3>2, <3>3, <3>4, OlderIsOrder DEF Commits, SyncStores
    <3> QED BY <1>1, <2>2, <3>1, <3>5
  <2>3. CASE i \notin 1..Len(s)
    <3>1. i = Len(t) /\ j = Len(t)
      BY <1>1, <1>3, <2>3
    <3> QED BY <1>1, <3>1, OlderIsOrder DEF Commits, SyncStores
  <2> QED BY <2>1, <2>2, <2>3
<1>4. Grows(t)
  BY <1>3 DEF Grows
<1> QED BY <1>2, <1>4 DEF t

\* The kinds that are behind a job.
LEMMA PassesAdd ==
    /\ Past(1) = {} /\ Past(4) = Content
    /\ \A p \in 1..3 : Past(p + 1) = Past(p) \cup (Content \cap Passes[p])
    /\ \A p : Past(p) \subseteq Content
<1>1. Len(Passes) = 3 /\ Passes[1] = Docs /\ Passes[2] = SyncTasks /\ Passes[3] = SyncRuns
  BY DEF Passes
<1>2. \A p \in 1..4, r \in Content : r \in Past(p) <=> \E i \in 1..3 : i < p /\ r \in Passes[i]
  BY <1>1 DEF Past
<1>3. Past(1) = {}
  BY <1>2 DEF Past
<1>4. Past(4) = Content
  BY <1>1, <1>2 DEF Past, Content
<1>5. ASSUME NEW p \in 1..3
      PROVE  Past(p + 1) = Past(p) \cup (Content \cap Passes[p])
  <2>1. p \in 1..4 /\ p + 1 \in 1..4
    OBVIOUS
  <2>2. Past(p) \subseteq Content /\ Past(p + 1) \subseteq Content
    BY DEF Past
  <2>3. \A i \in 1..3 : i < p + 1 <=> i < p \/ i = p
    OBVIOUS
  <2> QED BY <1>2, <2>1, <2>2, <2>3
<1> QED BY <1>3, <1>4, <1>5 DEF Past

\* A machine that a step leaves alone, with the remote no older afterwards.
LEMMA OtherMachineStays ==
    ASSUME SyncFrame, SyncFrame', NEW k \in Machines, MachineSafe(k),
           \A r \in Content : rows'[k][r].version = rows[k][r].version,
           files'[k] = files[k], head'[k] = head[k],
           pulls'[k] = pulls[k], pushes'[k] = pushes[k], k \in lags' <=> k \in lags,
           HasUnsaved(k) => HasUnsaved(k)',
           Older(FilesAt(cloud), FilesAt(cloud')),
           pulls[k].since => Working(k)',
           pulls[k].since /\ Importing(k) => Older(FilesAt(cloud'), files[k])
    PROVE  MachineSafe(k)'
<1>1. LogsGrow(k)'
  BY DEF MachineSafe, LogsGrow, CheckedOut
<1>2. RowsAhead(k)'
  BY DEF MachineSafe, RowsAhead, Importing, Imports, Older, Past
<1>3. ReadIsNewer(k)'
  BY DEF MachineSafe, ReadIsNewer, Imports
<1>4. SavedIsSent(k)'
  <2> SUFFICES ASSUME ~HasUnsaved(k)'
               PROVE  Older(rows'[k], files'[k]) /\ Older(files'[k], FilesAt(cloud'))
    BY DEF SavedIsSent
  <2>1. Older(rows[k], files[k]) /\ Older(files[k], FilesAt(cloud))
    BY DEF MachineSafe, SavedIsSent
  <2>2. files[k] \in SyncStores /\ FilesAt(cloud) \in SyncStores /\ FilesAt(cloud') \in SyncStores
    BY LogsHoldFiles DEF SyncFrame
  <2>3. Older(files[k], FilesAt(cloud'))
    BY <2>1, <2>2, OlderIsOrder
  <2> QED BY <2>1, <2>3 DEF Older
<1>5. PushTakes(k)'
  BY DEF MachineSafe, PushTakes, Exports, Exported, Past
<1>6. PullBrings(k)'
  BY DEF MachineSafe, PullBrings, Importing
<1> QED BY <1>1, <1>2, <1>3, <1>4, <1>5, <1>6 DEF MachineSafe

\* Steps that begin or end a job, or move a lifecycle.
LEMMA QuietSyncStep ==
    ASSUME SyncFrame, SyncFrame', SyncSound, NEW m \in Machines,
           \A k \in Machines, r \in Content : rows'[k][r].version = rows[k][r].version,
           files' = files, head' = head, cloud' = cloud, lags' = lags, operator' = operator,
           \A k \in Machines \ {m} : pulls'[k] = pulls[k] /\ pushes'[k] = pushes[k],
           \/ pulls'[m] = pulls[m]
           \/ pulls'[m].at \in {"idle", "open"} /\ (pulls'[m].since => Working(m)),
           \/ pushes'[m] = pushes[m]
           \/ pushes'[m].at \in {"idle", "open"}
    PROVE  SyncSound'
<1>1. Older(FilesAt(cloud), FilesAt(cloud'))
  BY LogsHoldFiles, OlderIsOrder DEF SyncFrame
<1>2. \A k \in Machines : (HasUnsaved(k) <=> HasUnsaved(k)') /\ (Working(k) <=> Working(k)')
  BY DEF HasUnsaved, Working
<1>3. ASSUME NEW k \in Machines \ {m}
      PROVE  MachineSafe(k)'
  BY <1>1, <1>2, OtherMachineStays DEF SyncSound, MachineSafe, PullBrings
<1>4. MachineSafe(m)'
  <2>1. MachineSafe(m)
    BY DEF SyncSound
  <2>2. LogsGrow(m)'
    BY <2>1 DEF MachineSafe, LogsGrow, CheckedOut
  <2>3. RowsAhead(m)'
    <3>1. CASE pulls'[m] = pulls[m]
      BY <2>1, <3>1 DEF MachineSafe, RowsAhead, Importing, Imports, Older, Past
    <3>2. CASE pulls'[m].at \in {"idle", "open"}
      BY <2>1, <3>2 DEF MachineSafe, RowsAhead, Importing, Imports, Older
    <3> QED BY <3>1, <3>2
  <2>4. ReadIsNewer(m)'
    BY <2>1 DEF MachineSafe, ReadIsNewer, Imports
  <2>5. SavedIsSent(m)'
    BY <1>2, <2>1 DEF MachineSafe, SavedIsSent, Older
  <2>6. PushTakes(m)'
    <3>1. CASE pushes'[m] = pushes[m]
      BY <2>1, <3>1 DEF MachineSafe, PushTakes, Exports, Exported, Past
    <3>2. CASE pushes'[m].at \in {"idle", "open"}
      BY <3>2 DEF PushTakes, Exports
    <3> QED BY <3>1, <3>2
  <2>7. PullBrings(m)'
    BY <1>2, <2>1 DEF MachineSafe, PullBrings, Importing
  <2> QED BY <2>2, <2>3, <2>4, <2>5, <2>6, <2>7 DEF MachineSafe
<1>5. Arrived'
  <2>1. operator.at \in Machines
    BY DEF SyncFrame, Operators
  <2> QED BY <2>1 DEF SyncSound, Arrived, Older
<1> QED BY <1>3, <1>4, <1>5 DEF SyncSound

\* A checkout is opened, by either job.
LEMMA OpeningKeepsSound ==
    ASSUME SyncFrame, SyncFrame', SyncSound, NEW m \in Machines, ChecksOut(m),
           rows' = rows, cloud' = cloud, operator' = operator,
           lags' = LagsAfter(m),
           \A k \in Machines \ {m} : pulls'[k] = pulls[k] /\ pushes'[k] = pushes[k],
           \/ /\ pulls[m].at = "open" /\ pulls'[m].at = "pull"
              /\ pulls'[m].since = pulls[m].since /\ pushes'[m] = pushes[m]
           \/ /\ pushes[m].at = "open" /\ pushes'[m].at = "export" /\ pushes'[m].pass = 1
              /\ pulls'[m] = pulls[m]
    PROVE  SyncSound'
<1>1. Older(FilesAt(cloud), FilesAt(cloud'))
  BY LogsHoldFiles, OlderIsOrder DEF SyncFrame
<1>2. \A k \in Machines : (HasUnsaved(k) <=> HasUnsaved(k)') /\ (Working(k) <=> Working(k)')
  BY DEF HasUnsaved, Working
<1>3. ASSUME NEW k \in Machines \ {m}
      PROVE  MachineSafe(k)'
  <2>1. head'[k] = head[k] /\ files'[k] = files[k]
    BY CheckoutIsTyped
  <2>2. k \in lags' <=> k \in lags
    BY DEF LagsAfter
  <2>3. MachineSafe(k)
    BY DEF SyncSound
  <2>4. pulls[k].since /\ Importing(k) => Older(FilesAt(cloud'), files[k])
    BY <2>3 DEF MachineSafe, PullBrings
  <2>5. pulls[k].since => Working(k)'
    BY <1>2, <2>3 DEF MachineSafe, PullBrings
  <2> QED BY <1>1, <1>2, <2>1, <2>2, <2>3, <2>4, <2>5, OtherMachineStays
<1> DEFINE same == head'[m] = head[m] /\ files'[m] = files[m] /\ (m \in lags' <=> m \in lags)
<1>4. /\ CheckedOut(m)'
      /\ \/ same /\ CheckedOut(m)
         \/ ~CheckedOut(m) /\ head'[m] = cloud /\ files'[m] = FilesAt(cloud) /\ m \in lags'
         \/ ~CheckedOut(m) /\ head'[m] = <<>> /\ files'[m] = files[m] /\ (m \in lags' <=> m \in lags)
  <2>1. CheckedOut(m)'
    BY CheckoutIsTyped, LogIsCheckout DEF CheckedOut
  <2>2. CASE UsesCheckout(m)
    BY <2>1, <2>2 DEF UsesCheckout, LagsAfter
  <2>3. CASE Clones(m)
    <3>1. head'[m] = cloud /\ files'[m] = FilesAt(cloud) /\ cloud # <<>> /\ ~CheckedOut(m)
      BY <2>3 DEF Clones, SyncFrame
    <3>2. head'[m] # head[m]
      BY <2>1, <3>1 DEF CheckedOut
    <3> QED BY <2>1, <3>1, <3>2 DEF LagsAfter
  <2>4. CASE InitsEmpty(m)
    <3>1. head'[m] = <<>> /\ files' = files /\ ~CheckedOut(m)
      BY <2>4 DEF InitsEmpty, SyncFrame
    <3> QED BY <2>1, <3>1 DEF LagsAfter
  <2> QED BY <2>2, <2>3, <2>4 DEF ChecksOut
<1>5. /\ MachineSafe(m) /\ Grows(cloud) /\ (~CheckedOut(m) => files[m] = Nothing)
      /\ files[m] \in SyncStores /\ files'[m] \in SyncStores /\ rows[m] \in SyncStores
      /\ FilesAt(cloud) \in SyncStores
  BY LogsHoldFiles DEF SyncSound, MachineSafe, LogsGrow, SyncFrame
<1>6. Older(files[m], files'[m])
  BY <1>4, <1>5, OlderIsOrder
<1>7. LogsGrow(m)'
  <2>1. CASE same /\ CheckedOut(m)
    BY <1>4, <1>5, <2>1 DEF MachineSafe, LogsGrow
  <2>2. CASE head'[m] = cloud /\ files'[m] = FilesAt(cloud)
    BY <1>4, <1>5, <2>2, OlderIsOrder DEF LogsGrow
  <2>3. CASE head'[m] = <<>>
    <3>1. Grows(<<>>)
      BY DEF Grows
    <3> QED BY <1>4, <1>5, <2>3, <3>1, LogsHoldFiles, OlderIsOrder DEF LogsGrow
  <2> QED BY <1>4, <2>1, <2>2, <2>3
<1>8. ~CheckedOut(m) => ~Importing(m) /\ ~Exports(m)
  BY DEF SyncFrame, AtCheckout, Importing, Exports
<1>9. RowsAhead(m)'
  <2>1. CASE same
    <3>1. Importing(m)' => pulls'[m] = pulls[m]
      BY DEF Importing
    <3> QED BY <1>5, <2>1, <3>1 DEF MachineSafe, RowsAhead, Importing, Imports, Older, Past
  <2>2. CASE ~CheckedOut(m)
    <3>1. ~Importing(m)'
      BY <1>8, <2>2 DEF Importing
    <3>2. m \notin lags' => files'[m] = files[m] /\ m \notin lags
      BY <1>4, <2>2 DEF LagsAfter
    <3> QED BY <1>5, <3>1, <3>2 DEF MachineSafe, RowsAhead, Importing, Imports
  <2> QED BY <1>4, <2>1, <2>2
<1>10. ReadIsNewer(m)'
  <2>1. Imports(m)' => pulls'[m] = pulls[m] /\ Imports(m) /\ CheckedOut(m)
    BY <1>8 DEF Imports, Importing
  <2>2. Imports(m)' => files'[m] = files[m]
    BY <1>4, <2>1
  <2> QED BY <1>5, <2>1, <2>2 DEF MachineSafe, ReadIsNewer, Imports
<1>11. SavedIsSent(m)'
  <2> SUFFICES ASSUME ~HasUnsaved(m)'
               PROVE  Older(rows'[m], files'[m]) /\ Older(files'[m], FilesAt(cloud'))
    BY DEF SavedIsSent
  <2>1. Older(rows[m], files[m]) /\ Older(files[m], FilesAt(cloud))
    BY <1>2, <1>5 DEF MachineSafe, SavedIsSent
  <2>2. Older(rows[m], files'[m])
    BY <1>5, <1>6, <2>1, OlderIsOrder
  <2>3. Older(files'[m], FilesAt(cloud))
    BY <1>4, <1>5, <2>1, OlderIsOrder
  <2> QED BY <2>2, <2>3
<1>12. PushTakes(m)'
  <2>1. CASE pushes'[m] = pushes[m]
    <3>1. Exports(m) => files'[m] = files[m] /\ head'[m] = head[m]
      BY <1>4, <1>8
    <3> QED BY <1>5, <2>1, <3>1 DEF MachineSafe, PushTakes, Exports, Exported, Past
  <2>2. CASE pushes'[m].at = "export" /\ pushes'[m].pass = 1
    <3>1. Exported(m)' = {}
      BY <2>2, PassesAdd DEF Exported, Past
    <3> QED BY <2>2, <3>1 DEF PushTakes
  <2> QED BY <2>1, <2>2
<1>13. PullBrings(m)'
  <2>1. Importing(m)' => Importing(m) /\ files'[m] = files[m]
    BY <1>4, <1>8 DEF Importing
  <2>2. pulls'[m].since = pulls[m].since
    OBVIOUS
  <2> QED BY <1>2, <1>5, <2>1, <2>2 DEF MachineSafe, PullBrings
<1>14. Arrived'
  <2>1. CASE operator.at = m /\ operator.pulled
    <3>1. Older(FilesAt(cloud), rows[m]) /\ Older(files[m], rows[m])
      BY <2>1 DEF SyncSound, Arrived
    <3>2. Older(files'[m], rows[m])
      BY <1>4, <3>1
    <3> QED BY <2>1, <3>1, <3>2 DEF Arrived
  <2>2. CASE operator.at # m /\ operator.pulled
    <3>1. files'[operator.at] = files[operator.at]
      BY <2>2, CheckoutIsTyped DEF SyncFrame, Operators
    <3> QED BY <2>2, <3>1 DEF SyncSound, Arrived
  <2>3. CASE ~operator.pulled
    BY <2>3 DEF SyncSound, Arrived
  <2> QED BY <2>1, <2>2, <2>3
<1>15. \A k \in Machines : MachineSafe(k)'
  BY <1>3, <1>7, <1>9, <1>10, <1>11, <1>12, <1>13 DEF MachineSafe
<1> QED BY <1>5, <1>14, <1>15 DEF SyncSound

\* The checkout is forwarded, or has what there is.
LEMMA ForwardKeepsSound ==
    ASSUME SyncFrame, SyncFrame', SyncSound, NEW m \in Machines,
           pulls[m].at = "pull", pulls'[m].at = "read", pulls'[m].pass = 1,
           pulls'[m].since = pulls[m].since,
           rows' = rows, cloud' = cloud, operator' = operator, pushes' = pushes,
           \A k \in Machines \ {m} : /\ pulls'[k] = pulls[k] /\ head'[k] = head[k]
                                     /\ files'[k] = files[k] /\ (k \in lags' <=> k \in lags),
           \/ /\ IsPrefix(head[m], cloud) /\ files[m] = FilesAt(head[m])
              /\ head'[m] = cloud /\ files'[m] = FilesAt(cloud) /\ m \in lags'
           \/ /\ IsPrefix(cloud, head[m])
              /\ head'[m] = head[m] /\ files'[m] = files[m] /\ (m \in lags' <=> m \in lags)
    PROVE  SyncSound'
<1>1. Older(FilesAt(cloud), FilesAt(cloud'))
  BY LogsHoldFiles, OlderIsOrder DEF SyncFrame
<1>2. \A k \in Machines : (HasUnsaved(k) <=> HasUnsaved(k)') /\ (Working(k) <=> Working(k)')
  BY DEF HasUnsaved, Working
<1>3. ASSUME NEW k \in Machines \ {m}
      PROVE  MachineSafe(k)'
  <2>1. MachineSafe(k)
    BY DEF SyncSound
  <2>2. pulls[k].since /\ Importing(k) => Older(FilesAt(cloud'), files[k])
    BY <2>1 DEF MachineSafe, PullBrings
  <2>3. pulls[k].since => Working(k)'
    BY <1>2, <2>1 DEF MachineSafe, PullBrings
  <2> QED BY <1>1, <1>2, <2>1, <2>2, <2>3, OtherMachineStays
<1>4. /\ MachineSafe(m) /\ Grows(cloud) /\ CheckedOut(m) /\ head[m] \in Seq(Commits)
      /\ cloud \in Seq(Commits)
      /\ files[m] \in SyncStores /\ files'[m] \in SyncStores /\ rows[m] \in SyncStores
      /\ FilesAt(cloud) \in SyncStores /\ FilesAt(head[m]) \in SyncStores
  BY LogsHoldFiles DEF SyncSound, SyncFrame, AtCheckout
<1>5. Older(files[m], files'[m]) /\ Older(FilesAt(cloud), files'[m])
  <2>1. CASE IsPrefix(head[m], cloud) /\ files[m] = FilesAt(head[m]) /\ files'[m] = FilesAt(cloud)
    BY <1>4, <2>1, PrefixIsOlder, OlderIsOrder
  <2>2. CASE IsPrefix(cloud, head[m]) /\ files'[m] = files[m]
    <3>1. Grows(head[m]) /\ Older(FilesAt(head[m]), files[m])
      BY <1>4 DEF MachineSafe, LogsGrow
    <3>2. Older(FilesAt(cloud), FilesAt(head[m]))
      BY <1>4, <2>2, <3>1, PrefixIsOlder
    <3> QED BY <1>4, <2>2, <3>1, <3>2, OlderIsOrder
  <2> QED BY <2>1, <2>2
<1>6. LogsGrow(m)'
  <2>1. CheckedOut(m)'
    BY <1>4, LogIsCheckout DEF CheckedOut
  <2>2. CASE head'[m] = cloud /\ files'[m] = FilesAt(cloud)
    BY <1>4, <2>1, <2>2, OlderIsOrder DEF LogsGrow
  <2>3. CASE head'[m] = head[m] /\ files'[m] = files[m]
    BY <1>4, <2>1, <2>3 DEF MachineSafe, LogsGrow
  <2> QED BY <2>2, <2>3
<1>7. RowsAhead(m)'
  <2>1. m \notin lags' => m \notin lags /\ files'[m] = files[m]
    OBVIOUS
  <2>2. Past(1)' = {}
    BY PassesAdd DEF Past
  <2>3. ~Imports(m)'
    BY DEF Imports
  <2> QED BY <1>4, <2>1, <2>2, <2>3 DEF MachineSafe, RowsAhead
<1>8. ReadIsNewer(m)'
  BY DEF ReadIsNewer, Imports
<1>9. SavedIsSent(m)'
  <2> SUFFICES ASSUME ~HasUnsaved(m)'
               PROVE  Older(rows'[m], files'[m]) /\ Older(files'[m], FilesAt(cloud'))
    BY DEF SavedIsSent
  <2>1. Older(rows[m], files[m]) /\ Older(files[m], FilesAt(cloud))
    BY <1>2, <1>4 DEF MachineSafe, SavedIsSent
  <2>2. Older(rows[m], files'[m])
    BY <1>4, <1>5, <2>1, OlderIsOrder
  <2>3. Older(files'[m], FilesAt(cloud))
    BY <1>4, <2>1, OlderIsOrder
  <2> QED BY <2>2, <2>3
<1>10. PushTakes(m)'
  <2>1. Exports(m)' /\ pushes[m].since =>
            \A r \in Exported(m)' : rows[m][r].version <= files'[m][r].version
    <3>1. Exports(m)' /\ pushes[m].since =>
              \A r \in Exported(m) : rows[m][r].version <= files[m][r].version
      BY <1>4 DEF MachineSafe, PushTakes, Exports
    <3>2. Exported(m)' = Exported(m) /\ Exported(m) \subseteq Content
      BY PassesAdd DEF Exported, Past
    <3>3. \A r \in Content : /\ rows[m][r].version \in Nat /\ files[m][r].version \in Nat
                             /\ files'[m][r].version \in Nat
                             /\ files[m][r].version <= files'[m][r].version
      BY <1>5, VersionsAreNat DEF Older
    <3> QED BY <3>1, <3>2, <3>3
  <2>2. pushes[m].at = "push" => Older(files'[m], FilesAt(head'[m]))
    BY <1>4, OlderIsOrder DEF MachineSafe, PushTakes
  <2> QED BY <2>1, <2>2 DEF PushTakes
<1>11. PullBrings(m)'
  BY <1>2, <1>4, <1>5 DEF MachineSafe, PullBrings
<1>12. Arrived'
  <2>1. operator.at \in Machines
    BY DEF SyncFrame, Operators
  <2>2. CASE operator.at = m /\ operator.pulled
    <3>1. Older(FilesAt(cloud), rows[m]) /\ Older(files[m], rows[m])
      BY <2>2 DEF SyncSound, Arrived
    <3>2. Older(files'[m], rows[m])
      BY <3>1
    <3> QED BY <2>2, <3>1, <3>2 DEF Arrived
  <2>3. CASE ~(operator.at = m /\ operator.pulled)
    BY <2>1, <2>3 DEF SyncSound, Arrived
  <2> QED BY <2>2, <2>3
<1>13. \A k \in Machines : MachineSafe(k)'
  BY <1>3, <1>6, <1>7, <1>8, <1>9, <1>10, <1>11 DEF MachineSafe
<1> QED BY <1>4, <1>12, <1>13 DEF SyncSound

\* The files of a kind are read; where there are none the next kind comes.
LEMMA ReadKeepsSound ==
    ASSUME SyncFrame, SyncFrame', SyncSound, NEW m \in Machines, pulls[m].at = "read",
           pulls[m].pass \in 1..3, ~HasUnsaved(m), NEW found,
           found = {r \in Passes[pulls[m].pass] : files[m][r] # Absent},
           rows' = rows, files' = files, head' = head, cloud' = cloud, operator' = operator,
           pushes' = pushes, lags' = lags,
           \A k \in Machines \ {m} : pulls'[k] = pulls[k],
           pulls'[m].since = pulls[m].since,
           \/ pulls'[m].at = "read" /\ pulls'[m].pass = pulls[m].pass + 1 /\ found = {}
           \/ /\ pulls'[m].at = "write" /\ pulls'[m].pass = pulls[m].pass /\ pulls'[m].todo = found
              /\ \A r \in found : pulls'[m].read[r] = files[m][r]
    PROVE  SyncSound'
<1>1. Older(FilesAt(cloud), FilesAt(cloud'))
  BY LogsHoldFiles, OlderIsOrder DEF SyncFrame
<1>2. \A k \in Machines : (HasUnsaved(k) <=> HasUnsaved(k)') /\ (Working(k) <=> Working(k)')
  BY DEF HasUnsaved, Working
<1>3. ASSUME NEW k \in Machines \ {m}
      PROVE  MachineSafe(k)'
  <2>1. MachineSafe(k)
    BY DEF SyncSound
  <2>2. pulls[k].since /\ Importing(k) => Older(FilesAt(cloud'), files[k])
    BY <2>1 DEF MachineSafe, PullBrings
  <2>3. pulls[k].since => Working(k)'
    BY <1>2, <2>1 DEF MachineSafe, PullBrings
  <2> QED BY <1>1, <1>2, <2>1, <2>2, <2>3, OtherMachineStays
<1>4. MachineSafe(m) /\ Importing(m) /\ ~Imports(m)
  BY DEF SyncSound, Importing, Imports
<1>5. \A r \in Content : /\ rows[m][r].version \in Nat /\ files[m][r].version \in Nat
                         /\ rows[m][r].version <= files[m][r].version
  BY <1>4, VersionsAreNat DEF MachineSafe, SavedIsSent, Older
<1>6. \A r \in Content \cap Passes[pulls[m].pass] :
          r \notin found => files[m][r].version <= rows[m][r].version
  <2> SUFFICES ASSUME NEW r \in Content \cap Passes[pulls[m].pass], r \notin found
               PROVE  files[m][r].version <= rows[m][r].version
    OBVIOUS
  <2>1. files[m][r] = Absent
    OBVIOUS
  <2>2. files[m][r].version = 0
    BY <2>1 DEF Absent
  <2> QED BY <1>5, <2>2
<1>7. LogsGrow(m)'
  BY <1>4 DEF MachineSafe, LogsGrow, CheckedOut
<1>8. RowsAhead(m)'
  <2>1. m \in lags => \A r \in Past(pulls[m].pass) : files[m][r].version <= rows[m][r].version
    BY <1>4 DEF MachineSafe, RowsAhead
  <2>2. CASE pulls'[m].at = "read" /\ pulls'[m].pass = pulls[m].pass + 1 /\ found = {}
    <3>1. Past(pulls'[m].pass) = Past(pulls[m].pass) \cup (Content \cap Passes[pulls[m].pass])
      BY <2>2, PassesAdd
    <3>2. m \in lags => \A r \in Past(pulls'[m].pass) : files[m][r].version <= rows[m][r].version
      BY <1>6, <2>1, <2>2, <3>1
    <3>3. ~Imports(m)'
      BY <2>2 DEF Imports
    <3> QED BY <1>4, <3>2, <3>3 DEF MachineSafe, RowsAhead, Past
  <2>3. CASE /\ pulls'[m].at = "write" /\ pulls'[m].pass = pulls[m].pass /\ pulls'[m].todo = found
             /\ \A r \in found : pulls'[m].read[r] = files[m][r]
    <3>1. \A r \in Content \cap Passes[pulls[m].pass] :
             IF r \in pulls'[m].todo THEN files[m][r].version <= pulls'[m].read[r].version
             ELSE files[m][r].version <= rows[m][r].version
      BY <1>5, <1>6, <2>3
    <3> QED BY <1>4, <2>1, <2>3, <3>1 DEF MachineSafe, RowsAhead, Past
  <2> QED BY <2>2, <2>3
<1>9. ReadIsNewer(m)'
  BY <1>5 DEF ReadIsNewer, Imports
<1>10. SavedIsSent(m)'
  BY <1>2, <1>4 DEF MachineSafe, SavedIsSent
<1>11. PushTakes(m)'
  BY <1>4 DEF MachineSafe, PushTakes, Exports, Exported, Past
<1>12. PullBrings(m)'
  BY <1>2, <1>4 DEF MachineSafe, PullBrings
<1>13. Arrived'
  BY DEF SyncSound, Arrived
<1>14. \A k \in Machines : MachineSafe(k)'
  BY <1>3, <1>7, <1>8, <1>9, <1>10, <1>11, <1>12 DEF MachineSafe
<1> QED BY <1>13, <1>14 DEF SyncSound

\* What was read of a record is written over its row.
LEMMA WriteKeepsSound ==
    ASSUME SyncFrame, SyncFrame', SyncSound, NEW m \in Machines, NEW r \in Records,
           pulls[m].at = "write", r \in pulls[m].todo, pulls[m].pass \in 1..3,
           pulls[m].todo \subseteq Passes[pulls[m].pass],
           \A q \in Content : rows'[m][q].version =
               IF q = r THEN pulls[m].read[q].version ELSE rows[m][q].version,
           \A k \in Machines \ {m} : rows'[k] = rows[k] /\ pulls'[k] = pulls[k],
           files' = files, head' = head, cloud' = cloud, operator' = operator,
           pushes' = pushes, lags' = lags,
           pulls'[m].since = pulls[m].since,
           \/ /\ pulls'[m].at = "write" /\ pulls'[m].pass = pulls[m].pass
              /\ pulls'[m].todo = pulls[m].todo \ {r} /\ pulls'[m].read = pulls[m].read
           \/ /\ pulls'[m].at = "read" /\ pulls'[m].pass = pulls[m].pass + 1
              /\ pulls[m].todo = {r}
    PROVE  SyncSound'
<1>1. Older(FilesAt(cloud), FilesAt(cloud'))
  BY LogsHoldFiles, OlderIsOrder DEF SyncFrame
<1>2. \A k \in Machines : (HasUnsaved(k) <=> HasUnsaved(k)') /\ (Working(k) <=> Working(k)')
  BY DEF HasUnsaved, Working
<1>3. ASSUME NEW k \in Machines \ {m}
      PROVE  MachineSafe(k)'
  <2>1. MachineSafe(k)
    BY DEF SyncSound
  <2>2. pulls[k].since /\ Importing(k) => Older(FilesAt(cloud'), files[k])
    BY <2>1 DEF MachineSafe, PullBrings
  <2>3. pulls[k].since => Working(k)'
    BY <1>2, <2>1 DEF MachineSafe, PullBrings
  <2> QED BY <1>1, <1>2, <2>1, <2>2, <2>3, OtherMachineStays
<1>4. MachineSafe(m) /\ Importing(m) /\ Imports(m)
  BY DEF SyncSound, Importing, Imports
<1>5. \A q \in Content : /\ rows[m][q].version \in Nat /\ files[m][q].version \in Nat
                         /\ pulls[m].read[q].version \in Nat /\ rows'[m][q].version \in Nat
                         /\ rows[m][q].version <= rows'[m][q].version
                         /\ FilesAt(cloud)[q].version \in Nat
  <2>1. \A q \in Content \cap {r} : rows[m][q].version <= pulls[m].read[q].version
    BY <1>4 DEF MachineSafe, ReadIsNewer
  <2>2. \A q \in Content : /\ rows[m][q].version \in Nat /\ files[m][q].version \in Nat
                           /\ pulls[m].read[q].version \in Nat
                           /\ FilesAt(cloud)[q].version \in Nat
    BY VersionsAreNat
  <2> QED BY <2>1, <2>2
<1>6. \A q \in Content : q = r => rows'[m][q].version <= files[m][q].version
  BY <1>4 DEF MachineSafe, ReadIsNewer
<1>7. LogsGrow(m)'
  BY <1>4 DEF MachineSafe, LogsGrow, CheckedOut
<1>8. RowsAhead(m)'
  <2>1. m \notin lags => Older(files[m], rows'[m])
    BY <1>4, <1>5 DEF MachineSafe, RowsAhead, Older
  <2>2. m \in lags => \A q \in Past(pulls[m].pass) : files[m][q].version <= rows'[m][q].version
    <3>1. m \in lags => \A q \in Past(pulls[m].pass) : files[m][q].version <= rows[m][q].version
      BY <1>4 DEF MachineSafe, RowsAhead
    <3>2. Past(pulls[m].pass) \subseteq Content
      BY PassesAdd
    <3> QED BY <1>5, <3>1, <3>2
  <2>3. m \in lags => \A q \in Content \cap Passes[pulls[m].pass] :
            IF q \in pulls[m].todo /\ q # r THEN files[m][q].version <= pulls[m].read[q].version
            ELSE files[m][q].version <= rows'[m][q].version
    <3>1. m \in lags => \A q \in Content \cap Passes[pulls[m].pass] :
             IF q \in pulls[m].todo THEN files[m][q].version <= pulls[m].read[q].version
             ELSE files[m][q].version <= rows[m][q].version
      BY <1>4 DEF MachineSafe, RowsAhead
    <3> QED BY <1>5, <3>1
  <2>4. CASE /\ pulls'[m].at = "write" /\ pulls'[m].pass = pulls[m].pass
             /\ pulls'[m].todo = pulls[m].todo \ {r} /\ pulls'[m].read = pulls[m].read
    BY <2>1, <2>2, <2>3, <2>4 DEF RowsAhead, Past
  <2>5. CASE /\ pulls'[m].at = "read" /\ pulls'[m].pass = pulls[m].pass + 1
             /\ pulls[m].todo = {r}
    <3>1. Past(pulls'[m].pass) = Past(pulls[m].pass) \cup (Content \cap Passes[pulls[m].pass])
      BY <2>5, PassesAdd
    <3>2. m \in lags => \A q \in Past(pulls'[m].pass) : files[m][q].version <= rows'[m][q].version
      BY <2>2, <2>3, <2>5, <3>1
    <3>3. ~Imports(m)'
      BY <2>5 DEF Imports
    <3> QED BY <2>1, <3>2, <3>3 DEF RowsAhead, Past
  <2> QED BY <2>4, <2>5
<1>9. ReadIsNewer(m)'
  BY <1>4 DEF MachineSafe, ReadIsNewer, Imports
<1>10. SavedIsSent(m)'
  BY <1>2, <1>4, <1>6 DEF MachineSafe, SavedIsSent, Older
<1>11. PushTakes(m)'
  <2>1. Exported(m)' = Exported(m) /\ Exported(m) \subseteq Content
    BY PassesAdd DEF Exported, Past
  <2>2. Exports(m) /\ pushes[m].since =>
            \A q \in Exported(m) : rows'[m][q].version <= files[m][q].version
    BY <1>4, <1>6, <2>1 DEF MachineSafe, PushTakes
  <2> QED BY <1>4, <2>1, <2>2 DEF MachineSafe, PushTakes, Exports
<1>12. PullBrings(m)'
  BY <1>2, <1>4 DEF MachineSafe, PullBrings
<1>13. Arrived'
  <2>1. CASE operator.at = m
    BY <1>5, <2>1 DEF SyncSound, Arrived, Older
  <2>2. CASE operator.at # m
    <3>1. rows'[operator.at] = rows[operator.at]
      BY <2>2 DEF SyncFrame, Operators
    <3> QED BY <3>1 DEF SyncSound, Arrived
  <2> QED BY <2>1, <2>2
<1>14. \A k \in Machines : MachineSafe(k)'
  BY <1>3, <1>7, <1>8, <1>9, <1>10, <1>11, <1>12 DEF MachineSafe
<1> QED BY <1>13, <1>14 DEF SyncSound

\* A pull has ended: all it brought is in the store.
LEMMA EndKeepsSound ==
    ASSUME SyncFrame, SyncFrame', SyncSound, NEW m \in Machines, PullEnds(m)
    PROVE  SyncSound'
<1>1. Older(FilesAt(cloud), FilesAt(cloud'))
  BY LogsHoldFiles, OlderIsOrder DEF SyncFrame, PullEnds
<1>2. /\ pulls[m].at = "read" /\ pulls[m].pass = 4 /\ pulls'[m] = NoJob
      /\ \A k \in Machines \ {m} : pulls'[k] = pulls[k]
      /\ lags' = lags \ {m}
      /\ rows' = rows /\ files' = files /\ head' = head /\ cloud' = cloud /\ pushes' = pushes
  <2>1. Len(Passes) = 3
    BY DEF Passes
  <2> QED BY <2>1 DEF PullEnds, SyncFrame, PullShape
<1>3. /\ operator'.at = operator.at /\ operator'.saved = operator.saved
      /\ operator'.pulled = (operator.pulled \/ (Working(m) /\ pulls[m].since))
      /\ operator.at \in Machines /\ operator.pulled \in BOOLEAN
  <2>1. operator \in Operators
    BY DEF SyncFrame
  <2>2. operator.at \in Machines /\ operator.pulled \in BOOLEAN /\ operator.saved \in BOOLEAN
    BY <2>1 DEF Operators
  <2>3. CASE Working(m) /\ pulls[m].since
    <3>1. operator' = [operator EXCEPT !.pulled = TRUE]
      BY <2>3 DEF PullEnds
    <3>2. operator'.at = operator.at /\ operator'.saved = operator.saved /\ operator'.pulled = TRUE
      BY <2>1, <3>1 DEF Operators
    <3> QED BY <2>2, <2>3, <3>2
  <2>4. CASE ~(Working(m) /\ pulls[m].since)
    <3>1. operator' = operator
      BY <2>4 DEF PullEnds
    <3> QED BY <2>2, <2>4, <3>1, Zenon
  <2> QED BY <2>3, <2>4
<1>4. \A k \in Machines : (HasUnsaved(k) => HasUnsaved(k)') /\ (Working(k) <=> Working(k)')
  BY <1>3 DEF HasUnsaved, Working
<1>5. ASSUME NEW k \in Machines \ {m}
      PROVE  MachineSafe(k)'
  <2>1. MachineSafe(k)
    BY DEF SyncSound
  <2>2. pulls[k].since /\ Importing(k) => Older(FilesAt(cloud'), files[k])
    BY <1>2, <2>1 DEF MachineSafe, PullBrings
  <2>3. pulls[k].since => Working(k)'
    BY <1>4, <2>1 DEF MachineSafe, PullBrings
  <2> QED BY <1>1, <1>2, <1>4, <2>1, <2>2, <2>3, OtherMachineStays
<1>6. MachineSafe(m)
  BY DEF SyncSound
<1>7. Older(files[m], rows[m])
  <2>1. CASE m \notin lags
    BY <1>6, <2>1 DEF MachineSafe, RowsAhead
  <2>2. CASE m \in lags
    BY <1>2, <1>6, <2>2, PassesAdd DEF MachineSafe, RowsAhead, Importing, Older
  <2> QED BY <2>1, <2>2
<1>8. pulls[m].since => Older(FilesAt(cloud), files[m])
  BY <1>2, <1>6 DEF MachineSafe, PullBrings, Importing
<1>9. LogsGrow(m)'
  BY <1>2, <1>6 DEF MachineSafe, LogsGrow, CheckedOut
<1>10. RowsAhead(m)'
  BY <1>2, <1>7 DEF RowsAhead
<1>11. ReadIsNewer(m)' /\ PullBrings(m)'
  BY <1>2 DEF ReadIsNewer, PullBrings, Imports, Importing, NoJob
<1>12. SavedIsSent(m)'
  BY <1>2, <1>4, <1>6 DEF MachineSafe, SavedIsSent
<1>13. PushTakes(m)'
  BY <1>2, <1>6 DEF MachineSafe, PushTakes, Exports, Exported, Past
<1>14. Arrived'
  <2>1. CASE operator.pulled
    BY <1>2, <1>3, <2>1 DEF SyncSound, Arrived
  <2>2. CASE ~operator.pulled
    <3>1. operator'.pulled => operator.at = m /\ pulls[m].since
      BY <1>3, <2>2 DEF Working
    <3>2. FilesAt(cloud) \in SyncStores /\ files[m] \in SyncStores /\ rows[m] \in SyncStores
      BY LogsHoldFiles DEF SyncFrame
    <3>3. operator'.pulled => Older(FilesAt(cloud), rows[m])
      BY <1>7, <1>8, <3>1, <3>2, OlderIsOrder
    <3>4. operator.saved
      BY <2>2 DEF SyncSound, Arrived
    <3> QED BY <1>2, <1>3, <1>7, <3>1, <3>3, <3>4 DEF Arrived
  <2> QED BY <2>1, <2>2
<1>15. \A k \in Machines : MachineSafe(k)'
  BY <1>5, <1>6, <1>9, <1>10, <1>11, <1>12, <1>13 DEF MachineSafe
<1> QED BY <1>2, <1>14, <1>15 DEF SyncSound

\* A kind is exported, over files that the store has taken in.
LEMMA ExportKeepsSound ==
    ASSUME SyncFrame, SyncFrame', SyncSound, NEW m \in Machines, PushExports(m), m \notin lags
    PROVE  SyncSound'
<1>1. Older(FilesAt(cloud), FilesAt(cloud'))
  BY LogsHoldFiles, OlderIsOrder DEF SyncFrame, PushExports
<1> DEFINE kind == Passes[pushes[m].pass]
<1>2. /\ pushes[m].at = "export" /\ pushes[m].pass \in 1..3
      /\ \A k \in Machines \ {m} : pushes'[k] = pushes[k] /\ files'[k] = files[k]
      /\ pushes'[m].since = pushes[m].since
      /\ \/ pushes'[m].at = "export" /\ pushes'[m].pass = pushes[m].pass + 1
         \/ pushes[m].pass = 3 /\ pushes'[m].at = "commit"
      /\ rows' = rows /\ head' = head /\ cloud' = cloud /\ pulls' = pulls
      /\ operator' = operator /\ lags' = lags
  <2>1. Len(Passes) = 3
    BY DEF Passes
  <2>2. pushes[m] \in SyncJob /\ pushes \in [Machines -> SyncJob]
    BY DEF SyncFrame
  <2>3. pushes[m].at = "export" /\ pushes[m].pass \in 1..3
    BY DEF SyncFrame, PushShape, PushExports
  <2>4. CASE pushes[m].pass = 3
    <3>1. pushes' = [pushes EXCEPT ![m].at = "commit"]
      BY <2>1, <2>4 DEF PushExports
    <3>2. pushes'[m].at = "commit" /\ pushes'[m].since = pushes[m].since
      BY <2>2, <3>1 DEF SyncJob
    <3> QED BY <2>3, <2>4, <3>1, <3>2 DEF PushExports, SyncFrame
  <2>5. CASE pushes[m].pass # 3
    <3>1. pushes' = [pushes EXCEPT ![m].pass = @ + 1]
      BY <2>1, <2>5 DEF PushExports
    <3>2. /\ pushes'[m].at = "export" /\ pushes'[m].since = pushes[m].since
          /\ pushes'[m].pass = pushes[m].pass + 1
      BY <2>2, <2>3, <3>1 DEF SyncJob
    <3> QED BY <2>3, <3>1, <3>2 DEF PushExports, SyncFrame
  <2> QED BY <2>4, <2>5
<1>3. \A r \in Records : files'[m][r] =
          IF r \in kind /\ rows[m][r] # Absent THEN rows[m][r] ELSE files[m][r]
  BY DEF PushExports, SyncFrame
<1> HIDE DEF kind
<1>4. \A k \in Machines : (HasUnsaved(k) <=> HasUnsaved(k)') /\ (Working(k) <=> Working(k)')
  BY <1>2 DEF HasUnsaved, Working
<1>5. ASSUME NEW k \in Machines \ {m}
      PROVE  MachineSafe(k)'
  <2>1. MachineSafe(k)
    BY DEF SyncSound
  <2>2. pulls[k].since /\ Importing(k) => Older(FilesAt(cloud'), files[k])
    BY <1>2, <2>1 DEF MachineSafe, PullBrings
  <2>3. pulls[k].since => Working(k)'
    BY <1>4, <2>1 DEF MachineSafe, PullBrings
  <2> QED BY <1>1, <1>2, <1>4, <2>1, <2>2, <2>3, OtherMachineStays
<1>6. MachineSafe(m) /\ Older(files[m], rows[m]) /\ CheckedOut(m)
  BY <1>2 DEF SyncSound, MachineSafe, RowsAhead, SyncFrame, AtCheckout
<1>7. \A r \in Content :
          /\ rows[m][r].version \in Nat /\ files[m][r].version \in Nat /\ files'[m][r].version \in Nat
          /\ files[m][r].version <= files'[m][r].version
          /\ files'[m][r].version <= rows[m][r].version
          /\ r \in kind => files'[m][r].version = rows[m][r].version
  <2> SUFFICES ASSUME NEW r \in Content
               PROVE  /\ rows[m][r].version \in Nat /\ files[m][r].version \in Nat
                      /\ files'[m][r].version \in Nat
                      /\ files[m][r].version <= files'[m][r].version
                      /\ files'[m][r].version <= rows[m][r].version
                      /\ r \in kind => files'[m][r].version = rows[m][r].version
    OBVIOUS
  <2>1. /\ rows[m][r].version \in Nat /\ files[m][r].version \in Nat
        /\ files[m][r].version <= rows[m][r].version /\ r \in Records
    BY <1>6, VersionsAreNat DEF Older, Content, Records
  <2>2. CASE r \in kind /\ rows[m][r] # Absent
    BY <1>3, <2>1, <2>2
  <2>3. CASE r \notin kind
    BY <1>3, <2>1, <2>3
  <2>4. CASE rows[m][r] = Absent
    <3>1. rows[m][r].version = 0
      BY <2>4 DEF Absent
    <3> QED BY <1>3, <2>1, <2>4, <3>1
  <2> QED BY <2>2, <2>3, <2>4
<1>8. Older(files[m], files'[m]) /\ Older(files'[m], rows[m])
  BY <1>7 DEF Older
<1>9. /\ files[m] \in SyncStores /\ files'[m] \in SyncStores /\ rows[m] \in SyncStores
      /\ FilesAt(cloud) \in SyncStores /\ FilesAt(head[m]) \in SyncStores
  BY <1>6, LogsHoldFiles DEF SyncFrame
<1>10. LogsGrow(m)'
  <2>1. Grows(head[m]) /\ Older(FilesAt(head[m]), files[m])
    BY <1>6 DEF MachineSafe, LogsGrow
  <2>2. Older(FilesAt(head[m]), files'[m])
    BY <1>8, <1>9, <2>1, OlderIsOrder
  <2> QED BY <1>2, <1>6, <2>1, <2>2 DEF LogsGrow, CheckedOut
<1>11. RowsAhead(m)'
  BY <1>2, <1>8 DEF RowsAhead
<1>12. ReadIsNewer(m)'
  <2> SUFFICES ASSUME Imports(m), NEW r \in Content \cap pulls[m].todo
               PROVE  /\ rows[m][r].version <= pulls[m].read[r].version
                      /\ pulls[m].read[r].version <= files'[m][r].version
    BY <1>2 DEF ReadIsNewer, Imports
  <2>1. /\ rows[m][r].version <= pulls[m].read[r].version
        /\ pulls[m].read[r].version <= files[m][r].version
    BY <1>6 DEF MachineSafe, ReadIsNewer
  <2>2. pulls[m].read[r].version \in Nat /\ files'[m][r].version \in Nat
    BY <1>7, VersionsAreNat
  <2> QED BY <1>7, <2>1, <2>2
<1>13. SavedIsSent(m)'
  <2> SUFFICES ASSUME ~HasUnsaved(m)'
               PROVE  Older(rows'[m], files'[m]) /\ Older(files'[m], FilesAt(cloud'))
    BY DEF SavedIsSent
  <2>1. Older(rows[m], files[m]) /\ Older(files[m], FilesAt(cloud))
    BY <1>4, <1>6 DEF MachineSafe, SavedIsSent
  <2>2. Older(rows[m], files'[m]) /\ Older(rows[m], FilesAt(cloud))
    BY <1>8, <1>9, <2>1, OlderIsOrder
  <2>3. Older(files'[m], FilesAt(cloud))
    BY <1>8, <1>9, <2>2, OlderIsOrder
  <2> QED BY <1>2, <2>2, <2>3
<1>14. PushTakes(m)'
  <2>1. ASSUME pushes[m].since, NEW r \in Exported(m)'
        PROVE  rows'[m][r].version <= files'[m][r].version
    <3>1. r \in Content
      BY PassesAdd DEF Exported, Past
    <3>2. r \in Past(pushes[m].pass) \cup (Content \cap kind)
      <4>1. Past(pushes[m].pass + 1) = Past(pushes[m].pass) \cup (Content \cap kind)
        BY <1>2, PassesAdd DEF kind
      <4>2. CASE pushes'[m].at = "export" /\ pushes'[m].pass = pushes[m].pass + 1
        BY <2>1, <4>1, <4>2 DEF Exported, Past
      <4>3. CASE pushes[m].pass = 3 /\ pushes'[m].at = "commit"
        <5>1. Past(4) = Content
          BY PassesAdd
        <5>2. pushes[m].pass + 1 = 4
          BY <4>3
        <5> QED BY <3>1, <4>1, <5>1, <5>2
      <4> QED BY <1>2, <4>2, <4>3
    <3>3. CASE r \in kind
      BY <1>2, <1>7, <3>1, <3>3
    <3>4. CASE r \in Past(pushes[m].pass)
      <4>1. rows[m][r].version <= files[m][r].version
        BY <1>2, <1>6, <2>1, <3>4 DEF MachineSafe, PushTakes, Exports, Exported
      <4>2. files'[m][r].version \in Nat
        BY <1>7, <3>1
      <4> QED BY <1>2, <1>7, <3>1, <4>1, <4>2
    <3> QED BY <3>2, <3>3, <3>4
  <2>2. pushes'[m].at # "push"
    BY <1>2
  <2> QED BY <1>2, <2>1, <2>2 DEF PushTakes
<1>15. PullBrings(m)'
  <2>1. Older(FilesAt(cloud), files[m]) => Older(FilesAt(cloud), files'[m])
    BY <1>8, <1>9, OlderIsOrder
  <2> QED BY <1>2, <1>4, <1>6, <2>1 DEF MachineSafe, PullBrings, Importing
<1>16. Arrived'
  <2>1. operator.at \in Machines
    BY DEF SyncFrame, Operators
  <2>2. CASE operator.at = m
    BY <1>2, <1>8, <2>2 DEF SyncSound, Arrived
  <2>3. CASE operator.at # m
    BY <1>2, <2>1, <2>3 DEF SyncSound, Arrived
  <2> QED BY <2>2, <2>3
<1>17. \A k \in Machines : MachineSafe(k)'
  BY <1>5, <1>10, <1>11, <1>12, <1>13, <1>14, <1>15 DEF MachineSafe
<1> QED BY <1>2, <1>16, <1>17 DEF SyncSound

\* What the operator hears of a push.
LEMMA ReportIs ==
    ASSUME SyncFrame, NEW m \in Machines, PushReports(m)
    PROVE  /\ operator'.at = operator.at /\ operator'.pulled = operator.pulled
           /\ operator'.saved = (operator.saved \/ (Working(m) /\ pushes[m].since))
           /\ operator.at \in Machines /\ pushes'[m] = NoJob
           /\ \A k \in Machines \ {m} : pushes'[k] = pushes[k]
           /\ \A k \in Machines : /\ Working(k) <=> Working(k)'
                                  /\ k # m => (HasUnsaved(k) <=> HasUnsaved(k)')
           /\ HasUnsaved(m) /\ ~HasUnsaved(m)' => Working(m) /\ pushes[m].since
<1>1. operator \in Operators
  BY DEF SyncFrame
<1>2. operator.at \in Machines /\ operator.pulled \in BOOLEAN /\ operator.saved \in BOOLEAN
  BY <1>1 DEF Operators
<1>3. /\ operator'.at = operator.at /\ operator'.pulled = operator.pulled
      /\ operator'.saved = (operator.saved \/ (Working(m) /\ pushes[m].since))
  <2>1. CASE Working(m) /\ pushes[m].since
    <3>1. operator' = [operator EXCEPT !.saved = TRUE]
      BY <2>1 DEF PushReports
    <3>2. operator'.at = operator.at /\ operator'.pulled = operator.pulled /\ operator'.saved = TRUE
      BY <1>1, <3>1 DEF Operators
    <3> QED BY <1>2, <2>1, <3>2
  <2>2. CASE ~(Working(m) /\ pushes[m].since)
    <3>1. operator' = operator
      BY <2>2 DEF PushReports
    <3> QED BY <1>2, <2>2, <3>1, Zenon
  <2> QED BY <2>1, <2>2
<1>4. pushes'[m] = NoJob /\ \A k \in Machines \ {m} : pushes'[k] = pushes[k]
  BY DEF PushReports, SyncFrame
<1>5. \A k \in Machines : /\ Working(k) <=> Working(k)'
                          /\ k # m => (HasUnsaved(k) <=> HasUnsaved(k)')
  BY <1>3 DEF Working, HasUnsaved
<1>6. HasUnsaved(m) /\ ~HasUnsaved(m)' => Working(m) /\ pushes[m].since
  BY <1>3 DEF Working, HasUnsaved
<1> QED BY <1>2, <1>3, <1>4, <1>5, <1>6

\* Nothing to commit, and the remote has what there is if edits are reported sent.
LEMMA NothingStagedKeepsSound ==
    ASSUME SyncFrame, SyncFrame', SyncSound, NEW m \in Machines, pushes[m].at = "commit",
           files[m] = FilesAt(head[m]), PushReports(m),
           ~(HasUnsaved(m) /\ pushes[m].since /\ Unpushed(m)),
           rows' = rows, files' = files, head' = head, cloud' = cloud, pulls' = pulls, lags' = lags
    PROVE  SyncSound'
<1>1. Older(FilesAt(cloud), FilesAt(cloud'))
  BY LogsHoldFiles, OlderIsOrder DEF SyncFrame
<1>2. ASSUME NEW k \in Machines \ {m}
      PROVE  MachineSafe(k)'
  <2>1. MachineSafe(k)
    BY DEF SyncSound
  <2>2. pulls[k].since /\ Importing(k) => Older(FilesAt(cloud'), files[k])
    BY <2>1 DEF MachineSafe, PullBrings
  <2>3. pulls[k].since => Working(k)'
    BY <2>1, ReportIs DEF MachineSafe, PullBrings
  <2> QED BY <1>1, <2>1, <2>2, <2>3, ReportIs, OtherMachineStays
<1>3. MachineSafe(m) /\ Grows(cloud) /\ CheckedOut(m)
  BY DEF SyncSound, SyncFrame, AtCheckout
<1>4. LogsGrow(m)' /\ RowsAhead(m)' /\ ReadIsNewer(m)'
  BY <1>3 DEF MachineSafe, LogsGrow, CheckedOut, RowsAhead, Importing, Imports, ReadIsNewer, Past
<1>5. SavedIsSent(m)'
  <2>1. CASE ~HasUnsaved(m)
    BY <1>3, <2>1 DEF MachineSafe, SavedIsSent
  <2>2. CASE HasUnsaved(m) /\ ~HasUnsaved(m)'
    <3>1. pushes[m].since /\ IsPrefix(head[m], cloud)
      BY <1>3, <2>2, ReportIs DEF Unpushed
    <3>2. Older(rows[m], files[m])
      BY <1>3, <3>1 DEF MachineSafe, PushTakes, Exports, Exported, Older
    <3>3. head[m] \in Seq(Commits) /\ cloud \in Seq(Commits)
      BY <1>3 DEF SyncFrame
    <3>4. Older(files[m], FilesAt(cloud))
      BY <1>3, <3>1, <3>3, PrefixIsOlder
    <3> QED BY <3>2, <3>4 DEF SavedIsSent
  <2>3. CASE HasUnsaved(m)'
    BY <2>3 DEF SavedIsSent
  <2> QED BY <2>1, <2>2, <2>3
<1>6. PushTakes(m)'
  BY ReportIs DEF PushTakes, Exports, NoJob
<1>7. PullBrings(m)'
  BY <1>3, ReportIs DEF MachineSafe, PullBrings, Importing
<1>8. Arrived'
  BY ReportIs DEF SyncSound, Arrived
<1>9. \A k \in Machines : MachineSafe(k)'
  BY <1>2, <1>4, <1>5, <1>6, <1>7 DEF MachineSafe
<1> QED BY <1>3, <1>8, <1>9 DEF SyncSound

\* The files are committed.
LEMMA CommitKeepsSound ==
    ASSUME SyncFrame, SyncFrame', SyncSound, NEW m \in Machines, pushes[m].at = "commit",
           head' = [head EXCEPT ![m] = Append(@, [by |-> m, files |-> files[m]])], PushGoes(m, "push"),
           operator' = operator, rows' = rows, files' = files, cloud' = cloud, pulls' = pulls,
           lags' = lags
    PROVE  SyncSound'
<1>1. Older(FilesAt(cloud), FilesAt(cloud'))
  BY LogsHoldFiles, OlderIsOrder DEF SyncFrame
<1>2. /\ pushes'[m].at = "push" /\ pushes'[m].since = pushes[m].since
      /\ head'[m] = Append(head[m], [by |-> m, files |-> files[m]])
      /\ \A k \in Machines \ {m} : pushes'[k] = pushes[k] /\ head'[k] = head[k]
  BY DEF PushGoes, SyncFrame, SyncJob
<1>3. \A k \in Machines : (HasUnsaved(k) <=> HasUnsaved(k)') /\ (Working(k) <=> Working(k)')
  BY DEF HasUnsaved, Working
<1>4. ASSUME NEW k \in Machines \ {m}
      PROVE  MachineSafe(k)'
  <2>1. MachineSafe(k)
    BY DEF SyncSound
  <2>2. pulls[k].since /\ Importing(k) => Older(FilesAt(cloud'), files[k])
    BY <2>1 DEF MachineSafe, PullBrings
  <2>3. pulls[k].since => Working(k)'
    BY <1>3, <2>1 DEF MachineSafe, PullBrings
  <2> QED BY <1>1, <1>2, <1>3, <2>1, <2>2, <2>3, OtherMachineStays
<1>5. /\ MachineSafe(m) /\ Grows(cloud) /\ CheckedOut(m) /\ head[m] \in Seq(Commits)
      /\ files[m] \in SyncStores
  BY DEF SyncSound, SyncFrame, AtCheckout
<1>6. Grows(head'[m]) /\ FilesAt(head'[m]) = files[m]
  <2> DEFINE c == [by |-> m, files |-> files[m]]
  <2>1. c \in Commits /\ c.files = files[m]
    BY <1>5 DEF Commits, SyncStores
  <2>2. Grows(head[m]) /\ Older(FilesAt(head[m]), files[m])
    BY <1>5 DEF MachineSafe, LogsGrow
  <2>3. head'[m] = Append(head[m], c)
    BY <1>2
  <2> HIDE DEF c
  <2>4. Grows(Append(head[m], c)) /\ FilesAt(Append(head[m], c)) = c.files
    BY <1>5, <2>1, <2>2, AppendGrows
  <2> QED BY <2>1, <2>3, <2>4
<1>7. Older(files[m], files[m])
  BY <1>5, OlderIsOrder
<1>8. LogsGrow(m)'
  <2>1. CheckedOut(m)'
    <3>1. [by |-> m, files |-> files[m]] \in Commits
      BY <1>5 DEF Commits, SyncStores
    <3>2. head'[m] \in Seq(Commits)
      BY <1>2, <1>5, <3>1
    <3> QED BY <3>2, LogIsCheckout DEF CheckedOut
  <2> QED BY <1>6, <1>7, <2>1 DEF LogsGrow
<1>9. RowsAhead(m)' /\ ReadIsNewer(m)'
  BY <1>5 DEF MachineSafe, RowsAhead, Importing, Imports, ReadIsNewer, Past
<1>10. SavedIsSent(m)' /\ PullBrings(m)'
  BY <1>3, <1>5 DEF MachineSafe, SavedIsSent, PullBrings, Importing
<1>11. PushTakes(m)'
  <2>1. pushes[m].since => \A r \in Content : rows[m][r].version <= files[m][r].version
    BY <1>5 DEF MachineSafe, PushTakes, Exports, Exported
  <2>2. Exported(m)' = Content
    BY <1>2 DEF Exported
  <2> QED BY <1>2, <1>6, <1>7, <2>1, <2>2 DEF PushTakes
<1>12. Arrived'
  BY DEF SyncSound, Arrived
<1>13. \A k \in Machines : MachineSafe(k)'
  BY <1>4, <1>8, <1>9, <1>10, <1>11 DEF MachineSafe
<1> QED BY <1>5, <1>12, <1>13 DEF SyncSound

\* The remote takes a log that continues its own.
LEMMA SendKeepsSound ==
    ASSUME SyncFrame, SyncFrame', SyncSound, NEW m \in Machines, pushes[m].at = "push",
           IsPrefix(cloud, head[m]), cloud' = head[m], PushReports(m),
           rows' = rows, files' = files, head' = head, pulls' = pulls, lags' = lags
    PROVE  SyncSound'
<1>1. /\ MachineSafe(m) /\ CheckedOut(m) /\ head[m] \in Seq(Commits) /\ cloud \in Seq(Commits)
      /\ Grows(head[m]) /\ Older(FilesAt(head[m]), files[m])
      /\ Older(files[m], FilesAt(head[m]))
  BY DEF SyncSound, SyncFrame, AtCheckout, MachineSafe, LogsGrow, PushTakes
<1>2. Older(FilesAt(cloud), FilesAt(cloud')) /\ Grows(cloud')
  BY <1>1, PrefixIsOlder
<1>3. /\ FilesAt(cloud) \in SyncStores /\ FilesAt(cloud') \in SyncStores
      /\ \A k \in Machines : files[k] \in SyncStores /\ rows[k] \in SyncStores
  BY <1>1, LogsHoldFiles DEF SyncFrame
<1>4. ~HasUnsaved(m) => Older(FilesAt(cloud'), FilesAt(cloud))
  <2>1. ~HasUnsaved(m) => Older(files[m], FilesAt(cloud))
    BY <1>1 DEF MachineSafe, SavedIsSent
  <2> QED BY <1>1, <1>3, <2>1, OlderIsOrder
<1>5. ASSUME NEW k \in Machines \ {m}
      PROVE  MachineSafe(k)'
  <2>1. MachineSafe(k)
    BY DEF SyncSound
  <2>2. pulls[k].since /\ Importing(k) => Older(FilesAt(cloud'), files[k])
    <3> SUFFICES ASSUME pulls[k].since, Importing(k) PROVE Older(FilesAt(cloud'), files[k])
      OBVIOUS
    <3>1. Working(k) /\ Older(FilesAt(cloud), files[k])
      BY <2>1 DEF MachineSafe, PullBrings
    <3>2. ~HasUnsaved(m)
      BY <3>1 DEF HasUnsaved, Working
    <3> QED BY <1>3, <1>4, <3>1, <3>2, OlderIsOrder
  <2>3. pulls[k].since => Working(k)'
    BY <2>1, ReportIs DEF MachineSafe, PullBrings
  <2> QED BY <1>2, <2>1, <2>2, <2>3, ReportIs, OtherMachineStays
<1>6. LogsGrow(m)' /\ RowsAhead(m)' /\ ReadIsNewer(m)'
  BY <1>1 DEF MachineSafe, LogsGrow, CheckedOut, RowsAhead, Importing, Imports, ReadIsNewer, Past
<1>7. SavedIsSent(m)'
  <2> SUFFICES ASSUME ~HasUnsaved(m)'
               PROVE  Older(rows[m], files[m]) /\ Older(files[m], FilesAt(cloud'))
    BY DEF SavedIsSent
  <2>1. CASE ~HasUnsaved(m)
    BY <1>1, <2>1 DEF MachineSafe, SavedIsSent
  <2>2. CASE HasUnsaved(m)
    <3>1. pushes[m].since
      BY <2>2, ReportIs
    <3>2. Older(rows[m], files[m])
      BY <1>1, <3>1 DEF MachineSafe, PushTakes, Exports, Exported, Older
    <3> QED BY <1>1, <3>2
  <2> QED BY <2>1, <2>2
<1>8. PushTakes(m)'
  BY ReportIs DEF PushTakes, Exports, NoJob
<1>9. PullBrings(m)'
  BY <1>1, ReportIs DEF MachineSafe, PullBrings, Importing
<1>10. Arrived'
  <2>1. operator.pulled => Older(FilesAt(cloud'), rows[operator.at])
    <3> SUFFICES ASSUME operator.pulled PROVE Older(FilesAt(cloud'), rows[operator.at])
      OBVIOUS
    <3>1. /\ Older(FilesAt(cloud), rows[operator.at]) /\ Older(files[operator.at], rows[operator.at])
          /\ operator.at \in Machines
      BY DEF SyncSound, Arrived, SyncFrame, Operators
    <3>2. CASE operator.at = m
      BY <1>1, <1>3, <3>1, <3>2, OlderIsOrder
    <3>3. CASE operator.at # m
      <4>1. ~HasUnsaved(m)
        BY <3>3 DEF HasUnsaved, Working
      <4> QED BY <1>3, <1>4, <3>1, <4>1, OlderIsOrder
    <3> QED BY <3>2, <3>3
  <2> QED BY <2>1, ReportIs DEF SyncSound, Arrived
<1>11. \A k \in Machines : MachineSafe(k)'
  BY <1>5, <1>6, <1>7, <1>8, <1>9 DEF MachineSafe
<1> QED BY <1>2, <1>10, <1>11 DEF SyncSound

\* The operator edits, with what there is pulled and no pull at it.
LEMMA EditKeepsSound ==
    ASSUME SyncFrame, SyncFrame', SyncSound, NEW m \in Machines, NEW r \in regime.records,
           Edits(m, r)
    PROVE  SyncSound'
<1>1. Older(FilesAt(cloud), FilesAt(cloud'))
  BY LogsHoldFiles, OlderIsOrder DEF SyncFrame, Edits
<1>2. /\ files' = files /\ head' = head /\ cloud' = cloud /\ pulls' = pulls /\ lags' = lags
      /\ pulls[m].at = "idle" /\ operator.at = m /\ operator.pulled
      /\ operator'.at = m /\ operator'.pulled /\ ~operator'.saved
      /\ pushes'[m].at = pushes[m].at /\ ~pushes'[m].since
      /\ \A k \in Machines \ {m} : pushes'[k] = pushes[k] /\ rows'[k] = rows[k]
  BY DEF Edits, Working, SyncFrame, Operators, SyncJob
<1>3. r \in Records /\ rows[m][r] \in Record
  BY SyncBoundsAssumption DEF SyncFrame, SyncStores, Records
<1>4. \A q \in Content : rows[m][q].version <= rows'[m][q].version
  <2> SUFFICES ASSUME NEW q \in Content
               PROVE  rows[m][q].version <= rows'[m][q].version
    OBVIOUS
  <2>1. rows[m][q].version \in Nat /\ q \in Records
    BY VersionsAreNat DEF Content, Records
  <2>2. rows' = [rows EXCEPT ![m][r].version = @ + 1] /\ rows \in [Machines -> SyncStores]
    BY DEF Edits, SyncFrame
  <2>3. CASE q = r
    <3>1. rows'[m][q].version = rows[m][q].version + 1
      BY <1>3, <2>2, <2>3 DEF SyncStores, Record
    <3> QED BY <2>1, <3>1
  <2>4. CASE q # r
    <3>1. rows'[m][q] = rows[m][q]
      BY <2>1, <2>2, <2>4 DEF SyncStores
    <3> QED BY <2>1, <3>1
  <2> QED BY <2>3, <2>4
<1>5. /\ FilesAt(cloud) \in SyncStores /\ files[m] \in SyncStores /\ rows[m] \in SyncStores
      /\ rows'[m] \in SyncStores
  BY LogsHoldFiles DEF SyncFrame
<1>6. Older(rows[m], rows'[m])
  BY <1>4 DEF Older
<1>7. ASSUME NEW k \in Machines \ {m}
      PROVE  MachineSafe(k)'
  <2>1. MachineSafe(k)
    BY DEF SyncSound
  <2>2. pulls[k].since /\ Importing(k) => Older(FilesAt(cloud'), files[k])
    BY <1>2, <2>1 DEF MachineSafe, PullBrings
  <2>3. (Working(k) <=> Working(k)') /\ ~HasUnsaved(k)
    BY <1>2 DEF Working, HasUnsaved
  <2>4. pulls[k].since => Working(k)'
    BY <2>1, <2>3 DEF MachineSafe, PullBrings
  <2> QED BY <1>1, <1>2, <2>1, <2>2, <2>3, <2>4, OtherMachineStays
<1>8. MachineSafe(m)
  BY DEF SyncSound
<1>9. LogsGrow(m)' /\ ReadIsNewer(m)'
  BY <1>2, <1>8 DEF MachineSafe, LogsGrow, CheckedOut, ReadIsNewer, Imports
<1>10. RowsAhead(m)'
  <2>1. m \notin lags => Older(files[m], rows'[m])
    BY <1>5, <1>6, <1>8, OlderIsOrder DEF MachineSafe, RowsAhead
  <2> QED BY <1>2, <2>1 DEF RowsAhead, Importing, Imports
<1>11. SavedIsSent(m)'
  BY <1>2 DEF SavedIsSent, HasUnsaved, Working
<1>12. PushTakes(m)'
  BY <1>2, <1>8 DEF MachineSafe, PushTakes
<1>13. PullBrings(m)'
  BY <1>2 DEF PullBrings, Importing, Working
<1>14. Arrived'
  <2>1. Older(FilesAt(cloud), rows[m]) /\ Older(files[m], rows[m])
    BY <1>2 DEF SyncSound, Arrived
  <2>2. Older(FilesAt(cloud), rows'[m]) /\ Older(files[m], rows'[m])
    BY <1>5, <1>6, <2>1, OlderIsOrder
  <2> QED BY <1>2, <2>2 DEF Arrived
<1>15. \A k \in Machines : MachineSafe(k)'
  BY <1>7, <1>9, <1>10, <1>11, <1>12, <1>13 DEF MachineSafe
<1> QED BY <1>2, <1>14, <1>15 DEF SyncSound

\* The operator leaves with everything pushed.
LEMMA LeavingKeepsSound ==
    ASSUME SyncFrame, SyncFrame', SyncSound, NEW m \in Machines, NEW n \in Machines, Leaves(m, n)
    PROVE  SyncSound'
<1>1. Older(FilesAt(cloud), FilesAt(cloud'))
  BY LogsHoldFiles, OlderIsOrder DEF SyncFrame, Leaves
<1>2. /\ files' = files /\ head' = head /\ cloud' = cloud /\ rows' = rows /\ lags' = lags
      /\ pushes' = pushes /\ operator.at = m /\ operator.saved
      /\ operator'.at = n /\ ~operator'.pulled /\ operator'.saved
      /\ pulls'[m].at = pulls[m].at /\ pulls'[m].pass = pulls[m].pass
      /\ pulls'[m].todo = pulls[m].todo /\ pulls'[m].read = pulls[m].read /\ ~pulls'[m].since
      /\ \A k \in Machines \ {m} : pulls'[k] = pulls[k]
  BY DEF Leaves, Working, SyncFrame, SyncJob
<1>3. \A k \in Machines : ~HasUnsaved(k) /\ ~HasUnsaved(k)'
  BY <1>2 DEF HasUnsaved, Working
<1>4. \A k \in Machines \ {m} : ~pulls[k].since
  BY <1>2 DEF SyncSound, MachineSafe, PullBrings, Working
<1>5. ASSUME NEW k \in Machines \ {m}
      PROVE  MachineSafe(k)'
  <2>1. MachineSafe(k)
    BY DEF SyncSound
  <2> QED BY <1>1, <1>2, <1>3, <1>4, <2>1, OtherMachineStays
<1>6. MachineSafe(m)
  BY DEF SyncSound
<1>7. LogsGrow(m)' /\ ReadIsNewer(m)'
  BY <1>2, <1>6 DEF MachineSafe, LogsGrow, CheckedOut, ReadIsNewer, Imports
<1>8. RowsAhead(m)'
  BY <1>2, <1>6 DEF MachineSafe, RowsAhead, Importing, Imports, Past
<1>9. SavedIsSent(m)' /\ PullBrings(m)'
  BY <1>2, <1>3, <1>6 DEF MachineSafe, SavedIsSent, PullBrings
<1>10. PushTakes(m)'
  BY <1>2, <1>6 DEF MachineSafe, PushTakes, Exports, Exported, Past
<1>11. Arrived'
  BY <1>2 DEF Arrived
<1>12. \A k \in Machines : MachineSafe(k)'
  BY <1>5, <1>7, <1>8, <1>9, <1>10 DEF MachineSafe
<1> QED BY <1>2, <1>11, <1>12 DEF SyncSound

\* The steps of a pull.
LEMMA PullKeepsSound ==
    ASSUME SyncFrame, SyncFrame', SyncSound, spoiled' = {}, NEW m \in Machines,
           \/ PullStarts(m) \/ PullOpens(m) \/ PullForwards(m) \/ PullReads(m)
           \/ PullEnds(m) \/ \E r \in Records : PullWrites(m, r)
    PROVE  SyncSound'
<1>1. pulls \in [Machines -> SyncJob] /\ pulls[m] \in SyncJob /\ Len(Passes) = 3
  BY DEF SyncFrame, Passes
<1>2. PullFails(m) => pulls'[m] = NoJob /\ \A k \in Machines \ {m} : pulls'[k] = pulls[k]
  BY <1>1 DEF PullFails
<1>3. NoJob.at = "idle" /\ ~NoJob.since
  BY DEF NoJob
<1>4. CASE PullStarts(m)
  <2> DEFINE j == [NoJob EXCEPT !.at = "open", !.since = Working(m)]
  <2>1. j.at = "open" /\ (j.since => Working(m))
    BY DEF NoJob
  <2>2. pulls'[m] = j /\ \A k \in Machines \ {m} : pulls'[k] = pulls[k]
    BY <1>1, <1>4 DEF PullStarts
  <2> HIDE DEF j
  <2> QED BY <1>4, <2>1, <2>2, QuietSyncStep DEF PullStarts
<1>5. CASE PullOpens(m)
  <2>1. /\ pulls'[m].at = "pull" /\ pulls'[m].since = pulls[m].since
        /\ \A k \in Machines \ {m} : pulls'[k] = pulls[k]
    BY <1>1, <1>5 DEF PullOpens, PullGoes, SyncJob
  <2> QED BY <1>5, <2>1, OpeningKeepsSound DEF PullOpens
<1>6. CASE PullForwards(m)
  <2>1. PullGoes(m, "read") => /\ pulls'[m].at = "read" /\ pulls'[m].pass = 1
                               /\ pulls'[m].since = pulls[m].since
                               /\ \A k \in Machines \ {m} : pulls'[k] = pulls[k]
    BY <1>1, <1>6 DEF PullGoes, SyncJob, PullForwards, SyncFrame, PullShape
  <2>2. CASE PullFails(m) /\ UNCHANGED <<head, files, lags>>
    BY <1>2, <1>3, <1>6, <2>2, QuietSyncStep DEF PullForwards
  <2>3. CASE PullGoes(m, "read") /\ UNCHANGED <<head, files, lags>> /\ IsPrefix(cloud, head[m])
    BY <1>6, <2>1, <2>3, ForwardKeepsSound DEF PullForwards
  <2>4. CASE /\ PullGoes(m, "read") /\ IsPrefix(head[m], cloud) /\ files[m] = FilesAt(head[m])
             /\ head' = [head EXCEPT ![m] = cloud]
             /\ files' = [files EXCEPT ![m] = FilesAt(cloud)]
             /\ lags' = lags \cup {m}
    <3>1. /\ head'[m] = cloud /\ files'[m] = FilesAt(cloud) /\ m \in lags'
          /\ \A k \in Machines \ {m} : /\ head'[k] = head[k] /\ files'[k] = files[k]
                                       /\ (k \in lags' <=> k \in lags)
      BY <2>4 DEF SyncFrame
    <3> QED BY <1>6, <2>1, <2>4, <3>1, ForwardKeepsSound DEF PullForwards
  <2> QED BY <1>6, <2>2, <2>3, <2>4 DEF PullForwards
<1>7. CASE PullReads(m)
  <2> DEFINE found == {r \in Passes[pulls[m].pass] : files[m][r] # Absent}
  <2>1. ~HasUnsaved(m) /\ pulls[m].pass \in 1..3
    <3>1. pulls[m].at = "read" /\ pulls[m].pass <= 3
      BY <1>1, <1>7 DEF PullReads
    <3>2. pulls[m].pass \in 1..4
      BY <3>1 DEF SyncFrame, PullShape
    <3>3. ~HasUnsaved(m)
      BY <1>7 DEF PullReads, SpoiledBy
    <3> QED BY <3>1, <3>2, <3>3
  <2>2. found \subseteq Records
    BY <1>1, <2>1 DEF Passes, Records
  <2>3. CASE found = {}
    <3>1. pulls' = [pulls EXCEPT ![m].pass = @ + 1]
      BY <1>7, <2>3 DEF PullReads
    <3>2. pulls[m].at = "read"
      BY <1>7 DEF PullReads
    <3> HIDE DEF found
    <3>3. /\ pulls'[m].at = "read" /\ pulls'[m].pass = pulls[m].pass + 1
          /\ pulls'[m].since = pulls[m].since
          /\ \A k \in Machines \ {m} : pulls'[k] = pulls[k]
      BY <1>1, <3>1, <3>2 DEF SyncJob
    <3> QED BY <1>7, <2>1, <2>3, <3>3, ReadKeepsSound DEF PullReads, found
  <2>4. CASE found # {}
    <3>1. pulls' = [pulls EXCEPT ![m].at = "write", ![m].todo = found,
                        ![m].read = [r \in Records |-> IF r \in found THEN files[m][r] ELSE Absent]]
      BY <1>7, <2>4 DEF PullReads
    <3> HIDE DEF found
    <3>2. /\ pulls'[m].at = "write" /\ pulls'[m].pass = pulls[m].pass
          /\ pulls'[m].since = pulls[m].since /\ pulls'[m].todo = found
          /\ pulls'[m].read = [r \in Records |-> IF r \in found THEN files[m][r] ELSE Absent]
          /\ \A k \in Machines \ {m} : pulls'[k] = pulls[k]
      BY <1>1, <3>1 DEF SyncJob
    <3>3. \A r \in found : pulls'[m].read[r] = files[m][r]
      BY <2>2, <3>2
    <3> QED BY <1>7, <2>1, <3>2, <3>3, ReadKeepsSound DEF PullReads, found
  <2> QED BY <2>3, <2>4
<1>8. CASE PullEnds(m)
  BY <1>8, EndKeepsSound
<1>9. ASSUME NEW r \in Records, PullWrites(m, r)
      PROVE  SyncSound'
  <2> DEFINE got == Imported(r, rows[m][r], pulls[m].read[r])
  <2>1. CASE PullFails(m) /\ UNCHANGED <<rows, owned>>
    BY <1>2, <1>3, <1>9, <2>1, QuietSyncStep DEF PullWrites
  <2>2. CASE /\ rows' = [rows EXCEPT ![m][r] = got]
             /\ pulls' = IF pulls[m].todo # {r} THEN [pulls EXCEPT ![m].todo = @ \ {r}]
                         ELSE [pulls EXCEPT ![m] = [NoJob EXCEPT !.at = "read",
                                   !.pass = pulls[m].pass + 1, !.since = pulls[m].since]]
    <3>1. /\ pulls[m].at = "write" /\ r \in pulls[m].todo /\ pulls[m].pass \in 1..3
          /\ pulls[m].todo \subseteq Passes[pulls[m].pass]
      BY <1>9 DEF PullWrites, SyncFrame, PullShape
    <3>2. r \in Content => got.version = pulls[m].read[r].version
      <4>1. r \in Content => r \notin SyncRuns
        BY KindsAssumption DEF Content
      <4>2. pulls[m].read[r] \in Record
        BY <1>1 DEF SyncJob, SyncStores
      <4> QED BY <4>1, <4>2 DEF Content, Imported, ImportsContent, ImportsTask, Record
    <3> HIDE DEF got
    <3>3. /\ rows'[m][r] = got
          /\ \A q \in Records \ {r} : rows'[m][q] = rows[m][q]
          /\ \A k \in Machines \ {m} : rows'[k] = rows[k]
      BY <2>2 DEF SyncFrame, SyncStores
    <3>4. \A q \in Content : rows'[m][q].version =
              IF q = r THEN pulls[m].read[q].version ELSE rows[m][q].version
      BY <3>2, <3>3 DEF Content, Records
    <3>5. CASE pulls[m].todo # {r}
      <4>1. pulls' = [pulls EXCEPT ![m].todo = @ \ {r}]
        BY <2>2, <3>5
      <4>2. /\ pulls'[m].at = "write" /\ pulls'[m].pass = pulls[m].pass
            /\ pulls'[m].todo = pulls[m].todo \ {r} /\ pulls'[m].read = pulls[m].read
            /\ pulls'[m].since = pulls[m].since
            /\ \A k \in Machines \ {m} : pulls'[k] = pulls[k]
        BY <1>1, <3>1, <4>1 DEF SyncJob
      <4> QED BY <1>9, <3>1, <3>3, <3>4, <4>2, WriteKeepsSound DEF PullWrites
    <3>6. CASE pulls[m].todo = {r}
      <4> DEFINE j == [NoJob EXCEPT !.at = "read", !.pass = pulls[m].pass + 1,
                                    !.since = pulls[m].since]
      <4>1. pulls' = [pulls EXCEPT ![m] = j]
        BY <2>2, <3>6
      <4>2. j.at = "read" /\ j.pass = pulls[m].pass + 1 /\ j.since = pulls[m].since
        BY DEF NoJob
      <4> HIDE DEF j
      <4>3. pulls'[m] = j /\ \A k \in Machines \ {m} : pulls'[k] = pulls[k]
        BY <1>1, <4>1
      <4> QED BY <1>9, <3>1, <3>3, <3>4, <3>6, <4>2, <4>3, WriteKeepsSound DEF PullWrites
    <3> QED BY <3>5, <3>6
  <2> QED BY <1>9, <2>1, <2>2 DEF PullWrites
<1> QED BY <1>4, <1>5, <1>6, <1>7, <1>8, <1>9

\* The steps of a push.
LEMMA PushKeepsSound ==
    ASSUME SyncFrame, SyncFrame', SyncSound, spoiled' = {}, NEW m \in Machines,
           \/ PushStarts(m) \/ PushOpens(m) \/ PushExports(m) \/ PushCommits(m) \/ PushSends(m)
    PROVE  SyncSound'
<1>1. pushes \in [Machines -> SyncJob] /\ pushes[m] \in SyncJob
  BY DEF SyncFrame
<1>2. NoJob.at = "idle"
  BY DEF NoJob
<1>3. CASE PushStarts(m)
  <2> DEFINE j == [NoJob EXCEPT !.at = "open", !.since = TRUE]
  <2>1. j.at = "open"
    BY DEF NoJob
  <2>2. pushes'[m] = j /\ \A k \in Machines \ {m} : pushes'[k] = pushes[k]
    BY <1>1, <1>3 DEF PushStarts
  <2> HIDE DEF j
  <2> QED BY <1>3, <2>1, <2>2, QuietSyncStep DEF PushStarts
<1>4. CASE PushOpens(m)
  <2>1. /\ pushes'[m].at = "export" /\ pushes'[m].pass = 1
        /\ \A k \in Machines \ {m} : pushes'[k] = pushes[k]
    BY <1>1, <1>4 DEF PushOpens, PushGoes, SyncJob, SyncFrame, PushShape
  <2> QED BY <1>4, <2>1, OpeningKeepsSound DEF PushOpens
<1>5. CASE PushExports(m)
  <2>1. m \notin lags
    BY <1>5 DEF PushExports, SpoiledBy
  <2> QED BY <1>5, <2>1, ExportKeepsSound
<1>6. CASE PushCommits(m)
  <2>1. CASE files[m] = FilesAt(head[m])
    <3>1. PushReports(m) /\ ~(HasUnsaved(m) /\ pushes[m].since /\ Unpushed(m)) /\ head' = head
      BY <1>6, <2>1 DEF PushCommits, SpoiledBy
    <3> QED BY <1>6, <2>1, <3>1, NothingStagedKeepsSound DEF PushCommits
  <2>2. CASE files[m] # FilesAt(head[m])
    BY <1>6, <2>2, CommitKeepsSound DEF PushCommits
  <2> QED BY <2>1, <2>2
<1>7. CASE PushSends(m)
  <2>1. CASE Accepts(head[m]) /\ cloud' = head[m] /\ PushReports(m)
    BY <1>7, <2>1, SendKeepsSound DEF PushSends, Accepts
  <2>2. CASE SyncPushFails(m) /\ UNCHANGED <<cloud, operator>>
    <3>1. pushes'[m] = NoJob /\ \A k \in Machines \ {m} : pushes'[k] = pushes[k]
      BY <1>1, <2>2 DEF SyncPushFails
    <3> QED BY <1>2, <1>7, <2>2, <3>1, QuietSyncStep DEF PushSends
  <2> QED BY <1>7, <2>1, <2>2 DEF PushSends
<1> QED BY <1>3, <1>4, <1>5, <1>6, <1>7

\* The steps of the daemon, the operator and the scheduler.
LEMMA OthersKeepSound ==
    ASSUME SyncFrame, SyncFrame', SyncSound, NEW m \in Machines,
           \/ \E b \in BOOLEAN : Boots(m, b)
           \/ \E r \in regime.records : Edits(m, r)
           \/ \E r \in SyncRuns : LifecycleMoves(m, r)
           \/ \E n \in Machines : Leaves(m, n)
    PROVE  SyncSound'
<1>1. /\ pulls \in [Machines -> SyncJob] /\ pushes \in [Machines -> SyncJob]
      /\ rows \in [Machines -> [Records -> Record]]
  BY DEF SyncFrame, SyncStores
<1>2. ASSUME NEW b \in BOOLEAN, Boots(m, b)
      PROVE  SyncSound'
  <2> DEFINE j == IF b THEN [NoJob EXCEPT !.at = "open", !.since = Working(m)] ELSE NoJob
  <2>1. j.at \in {"idle", "open"} /\ (j.since => Working(m)) /\ NoJob.at = "idle"
    BY DEF NoJob
  <2>2. /\ pulls'[m] = j /\ pushes'[m] = NoJob
        /\ \A k \in Machines \ {m} : pulls'[k] = pulls[k] /\ pushes'[k] = pushes[k]
    BY <1>1, <1>2 DEF Boots
  <2> HIDE DEF j
  <2> QED BY <1>2, <2>1, <2>2, QuietSyncStep DEF Boots
<1>3. ASSUME NEW r \in SyncRuns, LifecycleMoves(m, r)
      PROVE  SyncSound'
  <2>1. \A k \in Machines, q \in Content : rows'[k][q].version = rows[k][q].version
    <3>1. rows' = [rows EXCEPT ![m][r].active = ~@]
      BY <1>3 DEF LifecycleMoves
    <3>2. \A k \in Machines, q \in Records : rows'[k][q].version = rows[k][q].version
      BY <1>1, <3>1 DEF Record
    <3> QED BY <3>2 DEF Content, Records
  <2> QED BY <1>3, <2>1, QuietSyncStep DEF LifecycleMoves
<1> QED BY <1>2, <1>3, EditKeepsSound, LeavingKeepsSound

\* No step loses an edit without spoiling the sync.
LEMMA SyncSafeOn == SyncFrame /\ SyncFrame' /\ SyncSafe /\ [SyncNext]_syncVars => SyncSafe'
<1> SUFFICES ASSUME SyncFrame, SyncFrame', SyncSafe, [SyncNext]_syncVars, spoiled' = {}
             PROVE  SyncSound'
  BY DEF SyncSafe
<1>1. CASE UNCHANGED syncVars
  <2>1. SyncSound
    BY <1>1 DEF syncVars, SyncSafe
  <2> QED BY <1>1, <2>1 DEF syncVars, SyncSound, Arrived, MachineSafe, LogsGrow, RowsAhead,
          ReadIsNewer, SavedIsSent, PushTakes, PullBrings, CheckedOut, Importing, Imports,
          Exports, Exported, HasUnsaved, Working, Past
<1>2. spoiled = {} \/ UNCHANGED syncVars
  <2>1. ASSUME NEW m \in Machines,
               \/ PullStarts(m) \/ PullOpens(m) \/ PullForwards(m) \/ PullReads(m)
               \/ PullEnds(m) \/ \E r \in Records : PullWrites(m, r)
        PROVE  spoiled = {}
    BY <2>1 DEF PullStarts, PullOpens, PullForwards, PullReads, PullEnds, PullWrites, SpoiledBy
  <2>2. ASSUME NEW m \in Machines,
               \/ PushStarts(m) \/ PushOpens(m) \/ PushExports(m) \/ PushCommits(m)
               \/ PushSends(m)
        PROVE  spoiled = {}
    BY <2>2 DEF PushStarts, PushOpens, PushExports, PushCommits, PushSends, SpoiledBy
  <2>3. ASSUME NEW m \in Machines,
               \/ \E b \in BOOLEAN : Boots(m, b)
               \/ \E r \in regime.records : Edits(m, r)
               \/ \E r \in SyncRuns : LifecycleMoves(m, r)
               \/ \E n \in Machines : Leaves(m, n)
        PROVE  spoiled = {}
    BY <2>3 DEF Boots, Edits, LifecycleMoves, Leaves
  <2> QED BY <2>1, <2>2, <2>3, SyncStepIs
<1> QED BY <1>1, <1>2, SyncStepIs, PullKeepsSound, PushKeepsSound, OthersKeepSound DEF SyncSafe

\* Nothing is there at first.
LEMMA SyncSafeAtFirst == SyncInit => SyncSafe
<1> SUFFICES ASSUME SyncInit PROVE SyncSound
  BY DEF SyncSafe
<1>1. Grows(cloud) /\ FilesAt(cloud) = Nothing
  BY LogsHoldFiles DEF SyncInit, Grows
<1>2. Nothing \in SyncStores /\ Older(Nothing, Nothing)
  BY LogsHoldFiles, OlderIsOrder
<1>3. NoJob.at = "idle" /\ ~NoJob.since
  BY DEF NoJob
<1>4. ASSUME NEW m \in Machines
      PROVE  MachineSafe(m)
  <2>1. /\ rows[m] = Nothing /\ files[m] = Nothing /\ head[m] = NoCheckout
        /\ pulls[m] = NoJob /\ pushes[m] = NoJob /\ lags = {}
    BY DEF SyncInit
  <2> QED BY <1>1, <1>2, <1>3, <2>1 DEF MachineSafe, LogsGrow, RowsAhead, ReadIsNewer,
          SavedIsSent, PushTakes, PullBrings, CheckedOut, Importing, Imports, Exports
<1>5. Arrived
  <2>1. operator.at = Home /\ operator.pulled /\ rows[Home] = Nothing /\ files[Home] = Nothing
    BY HomeAssumption DEF SyncInit
  <2> QED BY <1>1, <1>2, <2>1 DEF Arrived
<1> QED BY <1>1, <1>4, <1>5 DEF SyncSound

\* The invariant the next two theorems rest on.
LEMMA SyncIsSafe == SyncSpec => [](SyncFrame /\ SyncSafe)
BY SyncFrameAtFirst, SyncFrameOn, SyncSafeAtFirst, SyncSafeOn, PTL DEF SyncSpec

(***************************************************************************)
(* Whoever arrives and has pulled works on the newest version of           *)
(* everything, made at whichever machine, for any number of machines,      *)
(* records, jobs at once, restarts and failed calls, as long as nothing    *)
(* has spoiled the sync: an unpushed edit is at the operator's machine     *)
(* only, and all else is in the remote, which a pull brings and an import  *)
(* writes. (pull, push, import_all, export_all)                            *)
(***************************************************************************)
THEOREM ArrivalIsUpToDate == SyncSpec => []ArrivesUpToDate
<1>1. SyncFrame /\ SyncSafe => ArrivesUpToDate
  <2> SUFFICES ASSUME SyncFrame, SyncSafe, operator.pulled, spoiled = {},
                      NEW r \in Content, NEW m \in Machines
               PROVE  rows[m][r].version <= rows[operator.at][r].version
    BY DEF ArrivesUpToDate, Content
  <2>1. MachineSafe(m) /\ Arrived /\ operator.at \in Machines
    BY DEF SyncSafe, SyncSound, SyncFrame, Operators
  <2>2. rows[m][r].version \in Nat
    BY VersionsAreNat
  <2>3. CASE operator.at = m
    BY <2>2, <2>3
  <2>4. CASE operator.at # m
    <3>1. Older(rows[m], files[m]) /\ Older(files[m], FilesAt(cloud))
      BY <2>1, <2>4 DEF MachineSafe, SavedIsSent, HasUnsaved, Working
    <3>2. Older(FilesAt(cloud), rows[operator.at])
      BY <2>1 DEF Arrived
    <3>3. /\ rows[m] \in SyncStores /\ files[m] \in SyncStores /\ FilesAt(cloud) \in SyncStores
          /\ rows[operator.at] \in SyncStores
      BY <2>1, LogsHoldFiles DEF SyncFrame
    <3>4. Older(rows[m], FilesAt(cloud))
      BY <3>1, <3>3, OlderIsOrder
    <3>5. Older(rows[m], rows[operator.at])
      BY <3>2, <3>3, <3>4, OlderIsOrder
    <3> QED BY <3>5 DEF Older
  <2> QED BY <2>3, <2>4
<1> QED BY <1>1, SyncIsSafe, PTL

(***************************************************************************)
(* The remote only advances: a log that continues another holds no older   *)
(* version of a document or task, whoever pushes it, the operator or the   *)
(* timer at a machine the operator left long ago. (commit_and_push)        *)
(***************************************************************************)
THEOREM CloudAdvances == SyncSpec => CloudOnlyAdvances
<1> DEFINE IsForward == spoiled' = {} => \A r \in Docs \cup SyncTasks :
                           FilesAt(cloud')[r].version >= FilesAt(cloud)[r].version
<1>1. SyncFrame /\ SyncSafe /\ [SyncNext]_syncVars => [IsForward]_syncVars
  <2> SUFFICES ASSUME SyncFrame, SyncSafe, [SyncNext]_syncVars, spoiled' = {}, NEW r \in Content
               PROVE  FilesAt(cloud')[r].version >= FilesAt(cloud)[r].version
    BY DEF Content
  <2>1. FilesAt(cloud)[r].version \in Nat
    BY VersionsAreNat
  <2>2. CASE cloud' = cloud
    BY <2>1, <2>2
  <2>3. ASSUME NEW m \in Machines, PushSends(m), cloud' # cloud
        PROVE  FilesAt(cloud')[r].version >= FilesAt(cloud)[r].version
    <3>1. cloud' = head[m] /\ IsPrefix(cloud, head[m]) /\ pushes[m].at = "push" /\ spoiled = {}
      BY <2>3 DEF PushSends, Accepts
    <3>2. CheckedOut(m) /\ head[m] \in Seq(Commits) /\ cloud \in Seq(Commits)
      BY <3>1 DEF SyncFrame, AtCheckout
    <3>3. Grows(head[m])
      BY <3>1, <3>2 DEF SyncSafe, SyncSound, MachineSafe, LogsGrow
    <3>4. Older(FilesAt(cloud), FilesAt(cloud'))
      BY <3>1, <3>2, <3>3, PrefixIsOlder
    <3>5. FilesAt(head[m])[r].version \in Nat
      BY <3>2, VersionsAreNat
    <3> QED BY <2>1, <3>1, <3>4, <3>5 DEF Older
  <2>4. ASSUME NEW m \in Machines,
               \/ PullStarts(m) \/ PullOpens(m) \/ PullForwards(m) \/ PullReads(m)
               \/ PullEnds(m) \/ \E q \in Records : PullWrites(m, q)
        PROVE  cloud' = cloud
    BY <2>4 DEF PullStarts, PullOpens, PullForwards, PullReads, PullEnds, PullWrites
  <2>5. ASSUME NEW m \in Machines,
               PushStarts(m) \/ PushOpens(m) \/ PushExports(m) \/ PushCommits(m)
        PROVE  cloud' = cloud
    BY <2>5 DEF PushStarts, PushOpens, PushExports, PushCommits
  <2>6. ASSUME NEW m \in Machines,
               \/ \E b \in BOOLEAN : Boots(m, b)
               \/ \E q \in regime.records : Edits(m, q)
               \/ \E q \in SyncRuns : LifecycleMoves(m, q)
               \/ \E n \in Machines : Leaves(m, n)
        PROVE  cloud' = cloud
    BY <2>6 DEF Boots, Edits, LifecycleMoves, Leaves
  <2>7. UNCHANGED syncVars => cloud' = cloud
    BY DEF syncVars
  <2> QED BY <2>2, <2>3, <2>4, <2>5, <2>6, <2>7, SyncStepIs
<1> QED BY <1>1, SyncIsSafe, PTL DEF CloudOnlyAdvances, SyncSpec
-----------------------------------------------------------------------------
(***************************************************************************)
(* The tree of a checkout: what each command finds of the files that have  *)
(* been different, or the same everywhere, since the tree was asked for.   *)
(***************************************************************************)
StatusMaps == UNION {[keys -> ChangeKinds] : keys \in SUBSET (Files \cup Dirs)}
CommandsLeft ==
    {<<>>, <<"list", "status", "branch">>, <<"list", "status">>, <<"status", "branch">>,
     <<"status">>, <<"branch">>}
Listings ==
    [left : CommandsLeft, based : BOOLEAN, listed : SUBSET Files, status : StatusMaps,
     answered : BOOLEAN, differ : SUBSET Files, same : SUBSET Files]

TreeFrame ==
    /\ forked \in Snapshots /\ committed \in Snapshots
    /\ staged \in Snapshots /\ worked \in Snapshots
    /\ tree \in Listings

Marked(status, f) == ({f} \cup DirsOf[f]) \cap DOMAIN status # {}

\* The two sets are of the checkout as it is, until the answer.
StillTrue ==
    /\ \A f \in tree.differ : Differs(f, tree.based, committed, worked, forked)
    /\ \A f \in tree.same : \A s \in {staged, committed, forked} : s[f] = worked[f] /\ s[f] # NoFile

\* Different from base, and to be found so in the index and in HEAD.
OnBranch(f) == {staged[f], committed[f]} \cap {NoFile, forked[f]} = {}

Sorted ==
    /\ \A f \in tree.differ : Marked(tree.status, f) \/ (tree.left # <<>> /\ OnBranch(f))
    /\ \A f \in tree.same : ~Marked(tree.status, f)

TreeInv ==
    /\ TreeFrame
    /\ tree.answered => tree.left = <<>>
    /\ tree.left # <<>> => StillTrue /\ (Runs("list") \/ Runs("status") \/ Runs("branch"))
    /\ Runs("list") => tree.left = Commands(tree.based)
    /\ Runs("status") => tree.left = Tail(Commands(tree.based))
    /\ Runs("branch") => tree.based /\ tree.left = <<"branch">>
    /\ Runs("list") \/ Runs("status") => DOMAIN tree.status = {}
    /\ tree.answered \/ Runs("status") \/ Runs("branch") =>
         tree.differ \cup tree.same \subseteq tree.listed
    /\ tree.answered \/ Runs("branch") => Sorted

-----------------------------------------------------------------------------
LEMMA LeftTails ==
    /\ Tail(<<"list", "status", "branch">>) = <<"status", "branch">>
    /\ Tail(<<"list", "status">>) = <<"status">>
    /\ Tail(<<"status", "branch">>) = <<"branch">>
    /\ Tail(<<"status">>) = <<>> /\ Tail(<<"branch">>) = <<>>
BY SMT
LEMMA LeftHeads ==
    /\ Head(<<"list", "status", "branch">>) = "list"
    /\ Head(<<"list", "status">>) = "list"
    /\ Head(<<"status", "branch">>) = "status"
    /\ Head(<<"status">>) = "status" /\ Head(<<"branch">>) = "branch"
BY SMT
LEMMA LeftsDiffer ==
    /\ <<"list", "status", "branch">> # <<>> /\ <<"list", "status", "branch">> # <<"list", "status">>
    /\ <<"list", "status">> # <<>> /\ <<"status">> # <<>> /\ <<"branch">> # <<>>
    /\ <<"status", "branch">> # <<>>
    /\ <<"status", "branch">> # <<"status">> /\ <<"status", "branch">> # <<"branch">>
    /\ <<"status">> # <<"branch">>
    /\ <<"list", "status">> # <<"status">> /\ <<"list", "status">> # <<"branch">>
    /\ <<"list", "status">> # <<"status", "branch">>
    /\ <<"list", "status", "branch">> # <<"status", "branch">>
BY SMT, LeftHeads
\* The commands of a request, in their order.
LEMMA CommandsInOrder ==
  ASSUME NEW based \in BOOLEAN
  PROVE  LET l == Commands(based)
         IN /\ l \in CommandsLeft /\ l # <<>> /\ Head(l) = "list"
            /\ Tail(l) \in CommandsLeft /\ Tail(l) # <<>> /\ Head(Tail(l)) = "status"
            /\ Tail(Tail(l)) = IF based THEN <<"branch">> ELSE <<>>
            /\ <<"branch">> \in CommandsLeft /\ <<>> \in CommandsLeft
            /\ <<"branch">> # <<>> /\ Head(<<"branch">>) = "branch" /\ Tail(<<"branch">>) = <<>>
<1>1. CASE based
  BY <1>1, LeftTails, LeftHeads, LeftsDiffer, Zenon DEF CommandsLeft, Commands
<1>2. CASE ~based
  BY <1>2, LeftTails, LeftHeads, LeftsDiffer, Zenon DEF CommandsLeft, Commands
<1> QED
  BY <1>1, <1>2

\* Of the directories a file is in that have nothing tracked, one is in no
\* other: git prints that one. (git status, parse_status)
LEMMA OutermostThere ==
  ASSUME NEW f \in Files, DirsOf[f] \cap Collapsed # {}
  PROVE  DirsOf[f] \cap Outermost # {}
<1> DEFINE R == {ss \in Nat \X Nat : ss[1] < ss[2]}
           D == DirsOf[f] \cap Collapsed
           S == {Cardinality(DirsOf[d]) : d \in D}
<1>1. IsWellFoundedOn(R, Nat)
  BY NatLessThanWellFounded, Zenon DEF OpToRel
<1>2. \A d \in D : IsFiniteSet(DirsOf[d]) /\ Cardinality(DirsOf[d]) \in Nat
  BY FileTreeConstants, FS_CardinalityType DEF Collapsed
<1>3. S \subseteq Nat /\ S # {}
  BY <1>2
<1> HIDE DEF R
<1>4. PICK x \in S : \A y \in S : ~(<<y, x>> \in R)
  BY <1>1, <1>3, WFMin
<1>5. PICK d \in D : x = Cardinality(DirsOf[d])
  BY <1>4
<1>6. ASSUME NEW e \in DirsOf[d] \cap Collapsed PROVE FALSE
  <2>1. e \in D /\ DirsOf[e] \subseteq DirsOf[d] /\ e \notin DirsOf[e] /\ e \in DirsOf[d]
    BY <1>6, FileTreeConstants DEF Collapsed
  <2>2. Cardinality(DirsOf[e]) <= x /\ Cardinality(DirsOf[e]) # x
    BY <1>2, <1>5, <2>1, FS_Subset
  <2>3. Cardinality(DirsOf[e]) \in S /\ Cardinality(DirsOf[e]) < x
    BY <1>2, <1>3, <1>5, <2>1, <2>2
  <2>4. <<Cardinality(DirsOf[e]), x>> \in R
    BY <1>3, <2>3 DEF R
  <2> QED
    BY <1>4, <2>3, <2>4
<1>7. d \in DirsOf[f] \cap Outermost
  BY <1>5, <1>6 DEF Outermost
<1> QED
  BY <1>7

\* Only what is gone from the index or new in it is renamed, and what git
\* prints as untracked is a file or a directory. (Gh::tree)
LEMMA StatusNames ==
  ASSUME NEW pairs \in Renames(committed, staged)
  PROVE  /\ Olds(pairs) \subseteq InTree(committed) \ InTree(staged)
         /\ News(pairs) \subseteq InTree(staged) \ InTree(committed)
         /\ Outermost \subseteq Collapsed /\ Collapsed \subseteq Dirs
         /\ UntrackedKeys \subseteq Dirs \cup Untracked /\ Untracked \subseteq Files
<1>1. \A p \in pairs :
        p[1] \in InTree(committed) \ InTree(staged) /\ p[2] \in InTree(staged) \ InTree(committed)
  BY DEF Renames
<1> QED
  BY <1>1 DEF Olds, News, Outermost, Collapsed, UntrackedKeys, Untracked, InTree

LEMMA StatusMap ==
  ASSUME NEW pairs \in Renames(committed, staged)
  PROVE  ParseStatus(pairs) \in StatusMaps
<1> DEFINE moved == Olds(pairs) \cup News(pairs)
           dirty == {g \in Files \ moved : staged[g] # committed[g]
                                             \/ (staged[g] # NoFile /\ worked[g] # staged[g])}
           keys == dirty \cup Olds(pairs) \cup UntrackedKeys
<1>1. keys \subseteq Files \cup Dirs
  BY StatusNames DEF InTree
<1>2. ASSUME NEW key \in keys PROVE ParseStatus(pairs)[key] \in ChangeKinds
  BY <1>2 DEF ParseStatus, FromPorcelain, Kind, ChangeKinds
<1>3. ParseStatus(pairs) \in [keys -> ChangeKinds]
  BY <1>2 DEF ParseStatus
<1> QED
  BY <1>1, <1>3 DEF StatusMaps

\* What git status prints: every file that is not as in HEAD is printed, or
\* a directory it is in, but for the new path of a rename; one that is the
\* same everywhere is not. (parse_status)
LEMMA StatusFinds ==
  ASSUME TreeFrame, NEW pairs \in Renames(committed, staged), NEW f \in Files
  PROVE  /\ worked[f] \notin {NoFile, committed[f]} /\ f \notin News(pairs) => Marked(ParseStatus(pairs), f)
         /\ worked[f] # NoFile /\ f \notin News(pairs) /\ ~Marked(ParseStatus(pairs), f) =>
              staged[f] = worked[f] /\ committed[f] = worked[f]
         /\ staged[f] = worked[f] /\ committed[f] = worked[f] /\ worked[f] # NoFile =>
              ~Marked(ParseStatus(pairs), f)
<1> DEFINE moved == Olds(pairs) \cup News(pairs)
           dirty == {g \in Files \ moved : staged[g] # committed[g]
                                             \/ (staged[g] # NoFile /\ worked[g] # staged[g])}
           keys == dirty \cup Olds(pairs) \cup UntrackedKeys
<1>1. DOMAIN ParseStatus(pairs) = keys
  BY DEF ParseStatus
<1>2. /\ Olds(pairs) \subseteq InTree(committed) \ InTree(staged)
      /\ News(pairs) \subseteq InTree(staged) \ InTree(committed)
      /\ Outermost \subseteq Collapsed /\ Collapsed \subseteq Dirs
      /\ UntrackedKeys \subseteq Dirs \cup Untracked /\ Untracked \subseteq Files
  BY StatusNames
<1>3. ASSUME f \in Untracked PROVE Marked(ParseStatus(pairs), f)
  <2>1. CASE DirsOf[f] \cap Collapsed = {}
    BY <1>1, <1>3, <2>1 DEF Marked, UntrackedKeys
  <2>2. CASE DirsOf[f] \cap Collapsed # {}
    BY <1>1, <2>2, OutermostThere DEF Marked, UntrackedKeys
  <2> QED
    BY <2>1, <2>2
<1>4. ASSUME worked[f] # NoFile, f \notin News(pairs), ~Marked(ParseStatus(pairs), f)
      PROVE  staged[f] = worked[f] /\ committed[f] = worked[f]
  <2>1. f \notin keys /\ f \notin Untracked
    BY <1>1, <1>3, <1>4 DEF Marked
  <2>2. staged[f] # NoFile
    BY <1>4, <2>1 DEF Untracked, InTree
  <2> QED
    BY <1>4, <2>1, <2>2
<1>5. ASSUME staged[f] = worked[f], committed[f] = worked[f], worked[f] # NoFile
      PROVE  ~Marked(ParseStatus(pairs), f)
  <2>1. f \notin keys
    BY <1>2, <1>5, FileTreeConstants DEF InTree, Untracked, UntrackedKeys
  <2>2. ASSUME NEW d \in DirsOf[f] PROVE d \notin keys
    <3>1. d \in Dirs /\ d \notin Files
      BY FileTreeConstants
    <3>2. f \in Under(d) \cap InTree(staged)
      BY <1>5, <2>2 DEF Under, InTree
    <3> QED
      BY <1>2, <3>1, <3>2 DEF InTree, Collapsed, UntrackedKeys
  <2> QED
    BY <1>1, <2>1, <2>2 DEF Marked
<1> QED
  BY <1>4, <1>5

LEMMA BranchNames ==
  ASSUME NEW pairs \in Renames(forked, committed)
  PROVE  /\ Olds(pairs) \subseteq InTree(forked) \ InTree(committed)
         /\ News(pairs) \subseteq InTree(committed) \ InTree(forked)
<1>1. \A p \in pairs :
        p[1] \in InTree(forked) \ InTree(committed) /\ p[2] \in InTree(committed) \ InTree(forked)
  BY DEF Renames
<1> QED
  BY <1>1 DEF Olds, News

LEMMA BranchMap ==
  ASSUME NEW pairs \in Renames(forked, committed)
  PROVE  ParseNameStatus(pairs) \in StatusMaps
<1> DEFINE moved == Olds(pairs) \cup News(pairs)
           changed == {g \in Files \ moved : committed[g] # forked[g]}
           keys == changed \cup News(pairs)
<1>1. keys \subseteq Files
  BY BranchNames DEF InTree
<1>2. ASSUME NEW key \in keys PROVE ParseNameStatus(pairs)[key] \in ChangeKinds
  BY <1>2 DEF ParseNameStatus, Kind, ChangeKinds
<1>3. ParseNameStatus(pairs) \in [keys -> ChangeKinds]
  BY <1>2 DEF ParseNameStatus
<1> QED
  BY <1>1, <1>3 DEF StatusMaps

\* What the diff of the branch against base prints. (parse_name_status)
LEMMA BranchFinds ==
  ASSUME TreeFrame, NEW pairs \in Renames(forked, committed), NEW f \in Files
  PROVE  /\ OnBranch(f) => Marked(ParseNameStatus(pairs), f)
         /\ committed[f] = forked[f] => ~Marked(ParseNameStatus(pairs), f)
<1> DEFINE moved == Olds(pairs) \cup News(pairs)
           changed == {g \in Files \ moved : committed[g] # forked[g]}
           keys == changed \cup News(pairs)
<1>1. DOMAIN ParseNameStatus(pairs) = keys
  BY DEF ParseNameStatus
<1>2. ASSUME OnBranch(f) PROVE f \in keys
  BY <1>2, BranchNames DEF OnBranch, InTree
<1>3. ASSUME committed[f] = forked[f] PROVE f \notin keys
  BY <1>3, BranchNames DEF InTree
<1>4. keys \subseteq Files
  BY BranchNames DEF InTree
<1>5. DirsOf[f] \cap keys = {}
  BY <1>4, FileTreeConstants
<1> QED
  BY <1>1, <1>2, <1>3, <1>5 DEF Marked

LEMMA UnionMarks ==
  ASSUME NEW s \in StatusMaps, NEW u \in StatusMaps, NEW f
  PROVE  /\ Union(s, u) \in StatusMaps
         /\ Marked(Union(s, u), f) <=> Marked(s, f) \/ Marked(u, f)
<1>1. PICK k \in SUBSET (Files \cup Dirs) : s \in [k -> ChangeKinds]
  BY DEF StatusMaps
<1>2. PICK l \in SUBSET (Files \cup Dirs) : u \in [l -> ChangeKinds]
  BY DEF StatusMaps
<1>3. Union(s, u) \in [k \cup l -> ChangeKinds] /\ DOMAIN Union(s, u) = k \cup l
  BY <1>1, <1>2 DEF Union
<1>4. Union(s, u) \in StatusMaps
  BY <1>3 DEF StatusMaps
<1> QED
  BY <1>1, <1>2, <1>3, <1>4 DEF Marked

\* A file is shown tagged if the map has a mark for it; if not, neither it
\* nor a directory it is in is. (resolve_status)
LEMMA TagIsMark ==
  ASSUME TreeFrame, NEW f \in Files
  PROVE  /\ Marked(tree.status, f) => Tag(f) # Untagged
         /\ ~Marked(tree.status, f) => \A path \in {f} \cup DirsOf[f] : Tag(path) = Untagged
<1>1. PICK k \in SUBSET (Files \cup Dirs) : tree.status \in [k -> ChangeKinds]
  BY DEF TreeFrame, Listings, StatusMaps
<1>2. Untagged \notin ChangeKinds
  BY FileTreeConstants DEF ChangeKinds
<1>3. ASSUME Marked(tree.status, f) PROVE Tag(f) # Untagged
  <2> DEFINE keys == IF f \in DOMAIN tree.status THEN {f} ELSE DirsOf[f] \cap DOMAIN tree.status
  <2>1. keys # {} /\ keys \subseteq k
    BY <1>1, <1>3 DEF Marked
  <2>2. (CHOOSE key \in keys : TRUE) \in keys
    BY <2>1
  <2>3. tree.status[CHOOSE key \in keys : TRUE] \in ChangeKinds
    BY <1>1, <2>1, <2>2
  <2> QED
    BY <1>2, <2>1, <2>3 DEF Tag, ResolveStatus
<1>4. ASSUME ~Marked(tree.status, f), NEW path \in {f} \cup DirsOf[f] PROVE Tag(path) = Untagged
  <2>1. {path} \cup DirsOf[path] \subseteq {f} \cup DirsOf[f]
    BY FileTreeConstants
  <2> QED
    BY <1>4, <2>1 DEF Marked, Tag, ResolveStatus
<1> QED
  BY <1>3, <1>4

\* The checkout changes under a request: what is left of the two sets is
\* true of it still, and a file once seen on the branch stays there until
\* base comes to it.
LEMMA ChangeKeeps ==
  ASSUME TreeInv, tree' = Observed \/ tree' = [Observed EXCEPT !.differ = {}],
         forked' \in Snapshots, committed' \in Snapshots, staged' \in Snapshots,
         worked' \in Snapshots, tree.left = <<>> => tree' = tree,
         Runs("branch") => \A f \in tree'.differ : OnBranch(f) => OnBranch(f)'
  PROVE  TreeInv'
<1>1. CASE tree.left = <<>>
  BY <1>1 DEF TreeInv, TreeFrame, Sorted, Runs
<1>2. CASE tree.left # <<>>
  <2> DEFINE differ == {f \in tree.differ : Differs(f, tree.based, committed', worked', forked')}
             same == {f \in tree.same : \A s \in {staged', committed', forked'} :
                                            s[f] = worked'[f] /\ s[f] # NoFile}
  <2>1. tree \in Listings
    BY DEF TreeInv, TreeFrame
  <2>2. Observed = [tree EXCEPT !.differ = differ, !.same = same]
    BY <1>2 DEF Observed
  <2>3. /\ tree' \in Listings
        /\ tree'.left = tree.left /\ tree'.based = tree.based /\ tree'.listed = tree.listed
        /\ tree'.status = tree.status /\ tree'.answered = tree.answered
        /\ tree'.differ \subseteq differ /\ tree'.same = same
    BY <2>1, <2>2 DEF Listings
  <2>4. StillTrue'
    BY <2>3 DEF StillTrue
  <2>5. Runs("branch") /\ Sorted => Sorted'
    BY <1>2, <2>3 DEF Sorted, Runs
  <2>6. TreeFrame' /\ ~tree.answered
    BY <1>2, <2>3 DEF TreeFrame, TreeInv
  <2> QED
    BY <1>2, <2>3, <2>4, <2>5, <2>6 DEF TreeInv, Runs
<1> QED
  BY <1>1, <1>2

LEMMA EditsKeep ==
  ASSUME TreeInv,
         \/ \E f \in Files : EditsFile(f)
         \/ \E f, g \in Files : MovesFile(f, g)
         \/ Stages \/ CommitsIndexed \/ Lands
  PROVE  TreeInv'
<1>1. /\ forked \in Snapshots /\ committed \in Snapshots
      /\ staged \in Snapshots /\ worked \in Snapshots /\ tree \in Listings
  BY DEF TreeInv, TreeFrame
<1>2. ASSUME NEW f \in Files, EditsFile(f) PROVE TreeInv'
  <2>1. worked' \in Snapshots
    BY <1>1, <1>2 DEF EditsFile, Snapshots
  <2> QED
    BY <1>1, <1>2, <2>1, ChangeKeeps DEF EditsFile, Observed, OnBranch
<1>3. ASSUME NEW f \in Files, NEW g \in Files, MovesFile(f, g) PROVE TreeInv'
  <2>1. worked' \in Snapshots
    BY <1>1, <1>3 DEF MovesFile, Snapshots
  <2> QED
    BY <1>1, <1>3, <2>1, ChangeKeeps DEF MovesFile, Observed, OnBranch
<1>4. ASSUME Stages PROVE TreeInv'
  <2>1. ASSUME Runs("branch"), NEW f \in tree'.differ, OnBranch(f) PROVE OnBranch(f)'
    <3>1. f \in tree.differ /\ tree.based /\ tree.left # <<>>
      BY <1>1, <1>4, <2>1 DEF Stages, Observed, Listings, TreeInv, Runs
    <3>2. worked[f] \notin {NoFile, forked[f]}
      BY <3>1 DEF TreeInv, StillTrue, Differs
    <3> QED
      BY <1>4, <2>1, <3>2 DEF Stages, OnBranch
  <2> QED
    BY <1>1, <1>4, <2>1, ChangeKeeps DEF Stages, Observed
<1>5. ASSUME CommitsIndexed PROVE TreeInv'
  BY <1>1, <1>5, ChangeKeeps DEF CommitsIndexed, Observed, OnBranch
<1>6. ASSUME Lands PROVE TreeInv'
  <2>1. tree.left # <<>> => tree'.differ = {}
    BY <1>1, <1>6 DEF Lands, Observed, Listings
  <2>2. /\ tree' = Observed \/ tree' = [Observed EXCEPT !.differ = {}]
        /\ tree.left = <<>> => tree' = tree
    BY <1>6 DEF Lands, Observed
  <2>3. UNCHANGED <<committed, staged, worked>> /\ forked' \in Snapshots
    BY <1>1, <1>6 DEF Lands
  <2>4. Runs("branch") => tree'.differ = {}
    BY <2>1 DEF Runs
  <2> QED
    BY <1>1, <2>2, <2>3, <2>4, ChangeKeeps
<1> QED
  BY <1>2, <1>3, <1>4, <1>5, <1>6

LEMMA AsksTree ==
  ASSUME TreeInv, NEW based \in BOOLEAN, ListTree(based)
  PROVE  TreeInv'
<1>1. UNCHANGED <<forked, committed, staged, worked>> /\ TreeFrame
  BY DEF ListTree, TreeInv, checkout
<1>2. EmptyMap \in StatusMaps /\ DOMAIN EmptyMap = {}
  BY DEF EmptyMap, StatusMaps
<1>3. Differing(based) \subseteq Files /\ AllSame \subseteq Files
  BY DEF Differing, AllSame, InTree
<1>4. /\ tree'.left = Commands(based) /\ tree'.based = based /\ tree'.status = EmptyMap
      /\ tree'.differ = Differing(based) /\ tree'.same = AllSame
      /\ tree'.answered = FALSE /\ tree'.listed = {}
      /\ tree' \in Listings
  BY <1>2, <1>3, CommandsInOrder DEF ListTree, NoListing, Listings
<1>5. StillTrue'
  BY <1>1, <1>4 DEF StillTrue, Differing, AllSame, InTree
<1>6. TreeFrame'
  BY <1>1, <1>4 DEF TreeFrame
<1> QED
  BY <1>2, <1>4, <1>5, <1>6, CommandsInOrder DEF TreeInv, Runs

LEMMA ListsKeepTree ==
  ASSUME TreeInv, LsFiles
  PROVE  TreeInv'
<1>1. UNCHANGED <<forked, committed, staged, worked>> /\ TreeFrame
  BY DEF LsFiles, TreeInv, checkout
<1>2. tree \in Listings /\ Runs("list") /\ tree.left = Commands(tree.based) /\ tree.based \in BOOLEAN
  BY <1>1 DEF TreeFrame, Listings, LsFiles, TreeInv
<1>3. /\ tree'.left = Tail(tree.left) /\ tree'.based = tree.based /\ tree'.status = tree.status
      /\ tree'.differ = tree.differ /\ tree'.same = tree.same
      /\ tree'.listed = InTree(staged) \cup InTree(worked)
      /\ tree'.answered = FALSE
      /\ tree' \in Listings
  BY <1>2, CommandsInOrder DEF LsFiles, Advances, Listings, InTree
<1>4. ~Runs("list")' /\ ~Runs("branch")'
  BY <1>2, <1>3, CommandsInOrder DEF Runs
<1>5. StillTrue /\ StillTrue'
  BY <1>1, <1>2, <1>3 DEF StillTrue, TreeInv, Runs
<1>6. tree'.differ \cup tree'.same \subseteq tree'.listed
  BY <1>2, <1>3, <1>5 DEF StillTrue, InTree, Differs, Listings
<1>7. TreeFrame'
  BY <1>1, <1>3 DEF TreeFrame
<1> QED
  BY <1>2, <1>3, <1>4, <1>5, <1>6, <1>7, CommandsInOrder DEF TreeInv, Runs

LEMMA StatusKeepsTree ==
  ASSUME TreeInv, ReadsStatus
  PROVE  TreeInv'
<1>1. UNCHANGED <<forked, committed, staged, worked>> /\ TreeFrame
  BY DEF ReadsStatus, TreeInv, checkout
<1>2. tree \in Listings /\ Runs("status") /\ tree.left = Tail(Commands(tree.based)) /\ tree.based \in BOOLEAN
      /\ DOMAIN tree.status = {}
  BY <1>1 DEF TreeFrame, Listings, ReadsStatus, TreeInv
<1>3. PICK pairs \in Renames(committed, staged) :
        tree' = Advances([tree EXCEPT !.status = Union(ParseStatus(pairs), tree.status),
                                  !.differ = @ \ News(pairs)])
  BY DEF ReadsStatus
<1>4. /\ ParseStatus(pairs) \in StatusMaps /\ tree.status \in StatusMaps
      /\ Union(ParseStatus(pairs), tree.status) \in StatusMaps
  BY <1>1, <1>2, StatusMap, UnionMarks DEF Listings
<1>5. /\ tree'.left = Tail(tree.left) /\ tree'.based = tree.based
      /\ tree'.status = Union(ParseStatus(pairs), tree.status)
      /\ tree'.differ = tree.differ \ News(pairs) /\ tree'.same = tree.same
      /\ tree'.listed = tree.listed
      /\ tree'.answered = (Tail(tree.left) = <<>>)
      /\ tree' \in Listings
  BY <1>2, <1>3, <1>4, CommandsInOrder DEF Advances, Listings
<1>6. tree'.left = IF tree.based THEN <<"branch">> ELSE <<>>
  BY <1>2, <1>5, CommandsInOrder
<1>7. StillTrue /\ StillTrue'
  BY <1>1, <1>2, <1>5 DEF StillTrue, TreeInv, Runs
<1>8. \A f \in Files : Marked(tree'.status, f) <=> Marked(ParseStatus(pairs), f)
  BY <1>2, <1>4, <1>5, UnionMarks DEF Marked
<1>9. ASSUME NEW f \in tree'.differ PROVE Marked(tree'.status, f) \/ (tree'.left # <<>> /\ OnBranch(f)')
  <2>1. f \in Files /\ f \notin News(pairs) /\ Differs(f, tree.based, committed, worked, forked)
    BY <1>2, <1>5, <1>7 DEF StillTrue, Listings
  <2>2. CASE tree.based
    BY <1>1, <1>6, <1>8, <2>1, <2>2, StatusFinds, LeftsDiffer DEF Differs, OnBranch
  <2>3. CASE ~tree.based
    BY <1>1, <1>8, <2>1, <2>3, StatusFinds DEF Differs
  <2> QED
    BY <2>2, <2>3
<1>10. ASSUME NEW f \in tree'.same PROVE ~Marked(tree'.status, f)
  <2>1. f \in Files /\ staged[f] = worked[f] /\ committed[f] = worked[f] /\ worked[f] # NoFile
    BY <1>2, <1>5, <1>7 DEF StillTrue, Listings
  <2> QED
    BY <1>1, <1>8, <2>1, StatusFinds
<1>11. Sorted'
  BY <1>9, <1>10 DEF Sorted
<1>12. TreeFrame' /\ tree.differ \cup tree.same \subseteq tree.listed
  BY <1>1, <1>2, <1>5 DEF TreeFrame, TreeInv
<1> QED
  BY <1>2, <1>5, <1>6, <1>7, <1>11, <1>12, CommandsInOrder DEF TreeInv, Runs

LEMMA BranchKeepsTree ==
  ASSUME TreeInv, ReadsBranch
  PROVE  TreeInv'
<1>1. UNCHANGED <<forked, committed, staged, worked>> /\ TreeFrame
  BY DEF ReadsBranch, TreeInv, checkout
<1>2. tree \in Listings /\ Runs("branch") /\ tree.left = <<"branch">>
  BY <1>1 DEF TreeFrame, ReadsBranch, TreeInv
<1>3. PICK pairs \in Renames(forked, committed) :
        tree' = Advances([tree EXCEPT !.status = Union(tree.status, ParseNameStatus(pairs))])
  BY DEF ReadsBranch
<1>4. /\ ParseNameStatus(pairs) \in StatusMaps /\ tree.status \in StatusMaps
      /\ Union(tree.status, ParseNameStatus(pairs)) \in StatusMaps
  BY <1>1, <1>2, BranchMap, UnionMarks DEF Listings
<1>5. /\ tree'.left = <<>> /\ tree'.based = tree.based
      /\ tree'.status = Union(tree.status, ParseNameStatus(pairs))
      /\ tree'.differ = tree.differ /\ tree'.same = tree.same
      /\ tree'.listed = tree.listed
      /\ tree'.answered = TRUE
      /\ tree' \in Listings
  BY <1>2, <1>3, <1>4, CommandsInOrder DEF Advances, Listings
<1>6. \A f \in Files :
        Marked(tree'.status, f) <=> Marked(tree.status, f) \/ Marked(ParseNameStatus(pairs), f)
  BY <1>4, <1>5, UnionMarks
<1>7. StillTrue /\ Sorted
  BY <1>2 DEF TreeInv, Runs
<1>8. ASSUME NEW f \in tree'.differ PROVE Marked(tree'.status, f)
  BY <1>1, <1>2, <1>5, <1>6, <1>7, <1>8, BranchFinds DEF Sorted, Listings
<1>9. ASSUME NEW f \in tree'.same PROVE ~Marked(tree'.status, f)
  <2>1. f \in Files /\ committed[f] = forked[f]
    BY <1>2, <1>5, <1>7, <1>9 DEF StillTrue, Listings
  <2> QED
    BY <1>1, <1>5, <1>6, <1>7, <1>9, <2>1, BranchFinds DEF Sorted
<1>10. Sorted'
  BY <1>8, <1>9 DEF Sorted
<1>11. TreeFrame' /\ tree.differ \cup tree.same \subseteq tree.listed
  BY <1>1, <1>2, <1>5 DEF TreeFrame, TreeInv
<1> QED
  BY <1>5, <1>10, <1>11 DEF TreeInv, Runs

LEMMA AtRest == NoListing \in Listings /\ NoListing.left = <<>> /\ NoListing.answered = FALSE
<1>1. EmptyMap \in StatusMaps /\ <<>> \in CommandsLeft
  BY DEF EmptyMap, StatusMaps, CommandsLeft
<1> QED
  BY <1>1 DEF NoListing, Listings

LEMMA TreeInductive == TreeInv /\ [TreeNext]_treeVars => TreeInv'
<1> SUFFICES ASSUME TreeInv, [TreeNext]_treeVars PROVE TreeInv'
  OBVIOUS
<1>1. ASSUME TreeFails PROVE TreeInv'
  BY <1>1, AtRest DEF TreeFails, TreeInv, TreeFrame, checkout, Runs
<1>2. ASSUME UNCHANGED <<checkout, tree>> PROVE TreeInv'
  BY <1>2 DEF TreeInv, TreeFrame, StillTrue, Sorted, OnBranch, Runs, checkout
<1>3. ASSUME NEW f \in Files, ReadFile(f) \/ Diff(f) PROVE TreeInv'
  BY <1>2, <1>3 DEF ReadFile, Diff
<1>4. CASE UNCHANGED treeVars
  BY <1>2, <1>4 DEF treeVars, checkout
<1> QED
  BY <1>1, <1>3, <1>4, AsksTree, ListsKeepTree, StatusKeepsTree, BranchKeepsTree, EditsKeep DEF TreeNext

LEMMA TreeBegins == TreeInit => TreeInv
<1> SUFFICES ASSUME TreeInit PROVE TreeInv
  OBVIOUS
<1> QED
  BY AtRest, FileTreeConstants DEF TreeInit, TreeInv, TreeFrame, Snapshots, Runs

\* The answer is put together from commands that never saw one and the same
\* checkout, and is true of every file that did not change sides meanwhile.
\* (Gh::tree)
THEOREM TreeShowsChanges == TreeSpec => []ChangeIsShown
<1>1. TreeInv => ChangeIsShown
  <2> SUFFICES ASSUME TreeInv, tree.answered PROVE ChangeIsShown
    BY DEF ChangeIsShown
  <2>1. TreeFrame /\ Sorted /\ tree.left = <<>> /\ tree.differ \cup tree.same \subseteq tree.listed
    BY DEF TreeInv
  <2>2. tree.differ \cup tree.same \subseteq Files
    BY <2>1 DEF TreeFrame, Listings
  <2> QED
    BY <2>1, <2>2, TagIsMark DEF Sorted, ChangeIsShown, FullTree
<1> QED
  BY <1>1, TreeBegins, TreeInductive, PTL DEF TreeSpec

-----------------------------------------------------------------------------
(***************************************************************************)
(* Publishing: until two requests meet in the checkout, a document's       *)
(* branch holds commits of that document and what the base has.            *)
(***************************************************************************)
Changes == [n : Nat, docs : SUBSET Papers]
TextVersions == [Papers -> Nat]
BranchStates == [has : SUBSET Changes, file : TextVersions]
PrRows == [doc : Papers \cup {NoBranch}, head : PubBranches, state : {"open", "closed", "merged"}]
PubSteps == {"save", "switch", "name", "render", "write", "add", "commit", "push", "open", "openIssue"}
PubCalls == [verb : DOMAIN Program, doc : Papers, left : Seq(PubSteps), row : PaperRows,
             text : Nat, n : Nat]

PubFrame ==
    /\ paperRow \in [Papers -> PaperRows] /\ paperText \in TextVersions
    /\ headBranch \in PubBranches /\ local[headBranch] \in BranchStates
    /\ local \in [PubBranches -> BranchStates \cup {NoBranch}]
    /\ upstream \in [PubBranches -> BranchStates]
    /\ indexed \in TextVersions /\ onDisk \in TextVersions
    /\ prs \in Seq(PrRows) /\ pubCalls \in Nat
    /\ pubCall \in [Publishers -> PubCalls \cup {NoPubCall}]

\* The steps left of a request: a branch made is named next, and a file added
\* committed.
Includes(l, step) == \E i \in 1..Len(l) : l[i] = step
InOrder(l) ==
    \A i \in 1..Len(l) :
        /\ l[i] \in {"switch", "name", "render", "add", "open", "openIssue"} => i < Len(l)
        /\ l[i] = "switch" => i = 1 /\ l[i + 1] = "name"
        /\ l[i] = "add" => l[i + 1] = "commit"
        /\ l[i] = "name" /\ i > 1 => l[i - 1] = "switch"

ToOpen(l) == Includes(l, "open") /\ ~Includes(l, "name")

CallInOrder(call, branch) ==
    /\ call \in PubCalls /\ call.left # <<>> /\ InOrder(call.left)
    /\ call.row.branch \in {NoBranch, call.doc}
    /\ ToOpen(call.left) => call.row.branch = call.doc
    /\ Head(call.left) = "name" => branch = call.doc

RowsInv == \A d \in Papers : paperRow[d].branch \in {NoBranch, d}
CallsInv == \A c \in Publishers : pubCall[c] = NoPubCall \/ CallInOrder(pubCall[c], headBranch)

\* What a branch holds beyond the base on GitHub is of its document.
OwnOrBase(d, has) == \A k \in has \ upstream[MainLine].has : k.docs = {d}

BranchesInv ==
    /\ \A d \in Papers : OwnOrBase(d, upstream[d].has)
    /\ \A d \in Papers : local[d] # NoBranch => OwnOrBase(d, local[d].has)
    /\ local[MainLine] # NoBranch => local[MainLine].has \subseteq upstream[MainLine].has

\* Only the request that is about to commit has anything in the index.
IndexInv ==
    \A d \in Papers :
        \/ indexed[d] = local[headBranch].file[d]
        \/ \E c \in Publishers : NextIs(c, "commit") /\ pubCall[c].doc = d

PrsInv ==
    \A i \in DOMAIN prs :
        /\ prs[i].head # MainLine
        /\ prs[i].doc # NoBranch => prs[i].head = prs[i].doc /\ prs[i].doc \in Papers

PubInv ==
    ~entangled =>
        /\ PubFrame
        /\ RowsInv /\ CallsInv /\ BranchesInv /\ IndexInv /\ PrsInv

-----------------------------------------------------------------------------
LEMMA FilledLen == ASSUME NEW l \in Seq(PubSteps), l # <<>> PROVE Len(l) \in Nat \ {0}
OBVIOUS

LEMMA RestOf ==
  ASSUME NEW l \in Seq(PubSteps), l # <<>>
  PROVE  /\ Tail(l) \in Seq(PubSteps) /\ Len(Tail(l)) = Len(l) - 1 /\ Len(l) \in Nat \ {0}
         /\ \A i \in 1..Len(Tail(l)) : Tail(l)[i] = l[i + 1]
         /\ Head(l) = l[1]
         /\ Tail(l) # <<>> <=> Len(l) > 1
         /\ Tail(l) # <<>> => Head(Tail(l)) = l[2]
<1>1. Len(l) \in Nat \ {0} /\ Head(l) = l[1]
  OBVIOUS
<1>2. Tail(l) \in Seq(PubSteps) /\ Len(Tail(l)) = Len(l) - 1
  BY <1>1
<1>3. \A i \in 1..Len(Tail(l)) : Tail(l)[i] = l[i + 1]
  BY <1>1
<1>4. Tail(l) # <<>> <=> Len(l) > 1
  <2>1. Tail(l) # <<>> => Len(Tail(l)) # 0
    BY <1>2, FilledLen
  <2>2. Len(<<>>) = 0
    OBVIOUS
  <2>3. Tail(l) = <<>> => Len(Tail(l)) = 0
    BY <2>2, Zenon
  <2> QED
    BY <1>1, <1>2, <2>1, <2>3
<1>5. Tail(l) # <<>> => Head(Tail(l)) = l[2]
  BY <1>1, <1>2, <1>3, <1>4
<1> QED
  BY <1>1, <1>2, <1>3, <1>4, <1>5

\* What follows a step of a request. (create_branch, commit_document, publish)
LEMMA OrderGoesOn ==
  ASSUME NEW l \in Seq(PubSteps), l # <<>>, InOrder(l)
  PROVE  /\ InOrder(Tail(l))
         /\ Head(l) \in {"switch", "name", "render", "add", "open", "openIssue"} => Tail(l) # <<>>
         /\ Head(l) = "switch" => Head(Tail(l)) = "name"
         /\ Head(l) = "add" => Head(Tail(l)) = "commit"
         /\ Tail(l) # <<>> /\ Head(Tail(l)) = "name" => Head(l) = "switch"
         /\ ToOpen(Tail(l)) => ToOpen(l) \/ Head(l) = "name"
         /\ Head(l) = "open" => ToOpen(l)
<1> DEFINE rest == Tail(l)
<1>1. /\ rest \in Seq(PubSteps) /\ Len(rest) = Len(l) - 1 /\ Len(l) \in Nat \ {0}
      /\ \A i \in 1..Len(rest) : rest[i] = l[i + 1]
      /\ Head(l) = l[1]
      /\ rest # <<>> <=> Len(l) > 1
      /\ rest # <<>> => Head(rest) = l[2]
  BY RestOf
<1> HIDE DEF rest
<1>2. InOrder(rest)
  <2> SUFFICES ASSUME NEW i \in 1..Len(rest)
               PROVE  /\ rest[i] \in {"switch", "name", "render", "add", "open", "openIssue"} => i < Len(rest)
                      /\ rest[i] = "switch" => i = 1 /\ rest[i + 1] = "name"
                      /\ rest[i] = "add" => rest[i + 1] = "commit"
                      /\ rest[i] = "name" /\ i > 1 => rest[i - 1] = "switch"
    BY DEF InOrder
  <2>1. i + 1 \in 1..Len(l) /\ rest[i] = l[i + 1] /\ i + 1 # 1
    BY <1>1
  <2>2. /\ l[i + 1] \in {"switch", "name", "render", "add", "open", "openIssue"} => i + 1 < Len(l)
        /\ l[i + 1] # "switch"
        /\ l[i + 1] = "add" => l[i + 1 + 1] = "commit"
        /\ l[i + 1] = "name" => l[i + 1 - 1] = "switch"
    BY <2>1 DEF InOrder
  <2>3. i < Len(rest) => rest[i + 1] = l[i + 1 + 1]
    BY <1>1
  <2>4. i > 1 => rest[i - 1] = l[i]
    BY <1>1
  <2>5. i + 1 - 1 = i
    OBVIOUS
  <2> QED
    BY <1>1, <2>1, <2>2, <2>3, <2>4, <2>5
<1>3. /\ l[1] \in {"switch", "name", "render", "add", "open", "openIssue"} => 1 < Len(l)
      /\ l[1] = "switch" => l[2] = "name"
      /\ l[1] = "add" => l[2] = "commit"
      /\ Len(l) > 1 /\ l[2] = "name" => l[1] = "switch"
  <2>1. 1 \in 1..Len(l) /\ (Len(l) > 1 => 2 \in 1..Len(l))
    BY <1>1
  <2> QED
    BY <2>1 DEF InOrder
<1>4. ASSUME ToOpen(rest), Head(l) # "name" PROVE ToOpen(l)
  <2>1. PICK i \in 1..Len(rest) : rest[i] = "open"
    BY <1>4 DEF ToOpen, Includes
  <2>2. i + 1 \in 1..Len(l) /\ l[i + 1] = "open"
    BY <1>1, <2>1
  <2>3. ASSUME NEW j \in 1..Len(l), l[j] = "name" PROVE FALSE
    <3>1. j # 1
      BY <1>1, <1>4, <2>3
    <3>2. j - 1 \in 1..Len(rest) /\ rest[j - 1] = l[j]
      BY <1>1, <3>1
    <3> QED
      BY <1>4, <2>3, <3>2 DEF ToOpen, Includes
  <2> QED
    BY <2>2, <2>3 DEF ToOpen, Includes
<1>5. ASSUME Head(l) = "open" PROVE ToOpen(l)
  <2>1. 1 \in 1..Len(l) /\ l[1] = "open"
    BY <1>1, <1>5
  <2>2. ASSUME NEW j \in 1..Len(l), l[j] = "name" PROVE FALSE
    <3>1. j > 1
      BY <2>1, <2>2
    <3>2. l[j - 1] = "switch" /\ j - 1 \in 1..Len(l)
      BY <2>2, <3>1 DEF InOrder
    <3>3. j - 1 = 1
      BY <3>2 DEF InOrder
    <3> QED
      BY <2>1, <3>2, <3>3
  <2> QED
    BY <2>1, <2>2 DEF ToOpen, Includes
<1>6. rest # <<>> /\ Head(rest) = "name" => Head(l) = "switch"
  BY <1>1, <1>3
<1>7. /\ Head(l) \in {"switch", "name", "render", "add", "open", "openIssue"} => rest # <<>>
      /\ Head(l) = "switch" => Head(rest) = "name"
      /\ Head(l) = "add" => Head(rest) = "commit"
  BY <1>1, <1>3
<1> QED
  BY <1>2, <1>4, <1>5, <1>6, <1>7 DEF rest

LEMMA ProgramsAre ==
    /\ DOMAIN Program = {"edit", "setRepo", "branch", "commit", "commitPush", "pr", "issue", "publish"}
    /\ Program["edit"] = <<"save">> /\ Program["setRepo"] = <<"save">>
    /\ Program["branch"] = <<"switch", "name", "save">>
    /\ Program["commit"] = <<"render", "write", "add", "commit">>
    /\ Program["commitPush"] = <<"render", "write", "add", "commit", "push">>
    /\ Program["pr"] = <<"open", "save">> /\ Program["issue"] = <<"openIssue", "save">>
    /\ Program["publish"] =
         <<"switch", "name", "render", "write", "add", "commit", "push", "open", "save">>
BY DEF Program

LEMMA PublishInOrder ==
  LET l == <<"switch", "name", "render", "write", "add", "commit", "push", "open", "save">>
  IN /\ l \in Seq(PubSteps) /\ l # <<>> /\ InOrder(l) /\ Head(l) # "name"
     /\ ~ToOpen(l)
<1> DEFINE l == <<"switch", "name", "render", "write", "add", "commit", "push", "open", "save">>
<1>1. l \in Seq(PubSteps)
  BY DEF PubSteps
<1>2. Len(l) = 9 /\ l[1] = "switch" /\ l[2] = "name" /\ l[3] = "render" /\ l[4] = "write" /\ l[5] = "add"
      /\ l[6] = "commit" /\ l[7] = "push" /\ l[8] = "open" /\ l[9] = "save"
  OBVIOUS
<1>3. l # <<>> /\ Head(l) = "switch"
  OBVIOUS
<1> HIDE DEF l
<1>4. InOrder(l)
  <2>1. \A i \in 1..Len(l) : i \in {1,2,3,4,5,6,7,8,9}
    BY <1>2
  <2> QED
    BY <1>2, <2>1 DEF InOrder
<1>5. ~ToOpen(l)
  BY <1>2 DEF ToOpen, Includes
<1> QED
  BY <1>1, <1>3, <1>4, <1>5 DEF l

\* Every request's steps are in order, and only opening a pull request asks
\* for a branch that was named before.
LEMMA ProgramsInOrder ==
  ASSUME NEW verb \in DOMAIN Program
  PROVE  LET l == Program[verb]
         IN /\ l \in Seq(PubSteps) /\ l # <<>> /\ InOrder(l) /\ Head(l) # "name"
            /\ ToOpen(l) => verb = "pr"
<1>1. CASE verb = "edit"
  BY <1>1, ProgramsAre DEF PubSteps, InOrder, ToOpen, Includes
<1>8. CASE verb = "setRepo"
  BY <1>8, ProgramsAre DEF PubSteps, InOrder, ToOpen, Includes
<1>2. CASE verb = "branch"
  BY <1>2, ProgramsAre DEF PubSteps, InOrder, ToOpen, Includes
<1>3. CASE verb = "commit"
  BY <1>3, ProgramsAre DEF PubSteps, InOrder, ToOpen, Includes
<1>4. CASE verb = "commitPush"
  BY <1>4, ProgramsAre DEF PubSteps, InOrder, ToOpen, Includes
<1>5. CASE verb = "pr"
  BY <1>5, ProgramsAre DEF PubSteps, InOrder, ToOpen, Includes
<1>6. CASE verb = "issue"
  BY <1>6, ProgramsAre DEF PubSteps, InOrder, ToOpen, Includes
<1>7. CASE verb = "publish"
  BY <1>7, ProgramsAre, PublishInOrder
<1> QED
  BY <1>1, <1>2, <1>3, <1>4, <1>5, <1>6, <1>7, <1>8, ProgramsAre

\* A request goes on: with the row it had, or with one that names the branch
\* of its document.
KeepsPlace(call, k) ==
    /\ k \in PubCalls /\ k.doc = call.doc /\ k.left = Tail(call.left)
    /\ k.row.branch = call.row.branch \/ k.row.branch = call.doc
    /\ Head(call.left) = "name" => k.row.branch = call.doc

LEMMA CallGoesOn ==
  ASSUME NEW call \in PubCalls, NEW branch, CallInOrder(call, branch), NEW k, KeepsPlace(call, k),
         Tail(call.left) # <<>>, NEW later, Head(call.left) = "switch" => later = call.doc
  PROVE  CallInOrder(k, later)
<1>1. call.left \in Seq(PubSteps) /\ call.left # <<>> /\ InOrder(call.left)
  BY DEF CallInOrder, PubCalls
<1>2. k.row.branch \in {NoBranch, call.doc}
  BY DEF CallInOrder, KeepsPlace
<1>3. ToOpen(k.left) => k.row.branch = call.doc
  BY <1>1, OrderGoesOn DEF CallInOrder, KeepsPlace
<1>4. Head(k.left) = "name" => later = call.doc
  BY <1>1, OrderGoesOn DEF KeepsPlace
<1>5. InOrder(k.left)
  BY <1>1, OrderGoesOn DEF KeepsPlace
<1> QED
  BY <1>2, <1>3, <1>4, <1>5 DEF CallInOrder, KeepsPlace

\* One request moves; the head moves only when no other is at its name.
LEMMA CallsKeep ==
  ASSUME PubFrame, CallsInv, NEW c \in Publishers, NEW k, pubCall' = [pubCall EXCEPT ![c] = k],
         k = NoPubCall \/ (k \in PubCalls /\ CallInOrder(k, headBranch')),
         headBranch' = headBranch \/ ~OthersInCheckout(c)
  PROVE  CallsInv' /\ pubCall' \in [Publishers -> PubCalls \cup {NoPubCall}]
<1>1. pubCall' \in [Publishers -> PubCalls \cup {NoPubCall}]
  BY DEF PubFrame
<1>2. ASSUME NEW d \in Publishers, d # c
      PROVE  pubCall'[d] = NoPubCall \/ CallInOrder(pubCall'[d], headBranch')
  <2>1. pubCall'[d] = pubCall[d]
    BY <1>2 DEF PubFrame
  <2>2. ASSUME CallInOrder(pubCall[d], headBranch) PROVE CallInOrder(pubCall[d], headBranch')
    <3>1. Head(pubCall[d].left) = "name" => headBranch' = headBranch
      BY <1>2, <2>2 DEF OthersInCheckout, InCheckout, NextIs, CallInOrder
    <3> QED
      BY <2>1, <2>2, <3>1 DEF CallInOrder
  <2> QED
    BY <2>1, <2>2 DEF CallsInv
<1>3. pubCall'[c] = k
  BY DEF PubFrame
<1> QED
  BY <1>1, <1>2, <1>3 DEF CallsInv

\* The index as it was, and nobody who has something in it gone.
LEMMA IndexStays ==
  ASSUME IndexInv, UNCHANGED <<headBranch, indexed>>, local'[headBranch] = local[headBranch],
         \A c \in Publishers : NextIs(c, "commit") => NextIs(c, "commit")' /\ pubCall'[c].doc = pubCall[c].doc
  PROVE  IndexInv'
<1>1. ASSUME NEW d \in Papers, ~(indexed[d] = local[headBranch].file[d])
      PROVE  \E c \in Publishers : NextIs(c, "commit")' /\ pubCall'[c].doc = d
  BY <1>1 DEF IndexInv
<1> QED
  BY <1>1 DEF IndexInv

\* Steps that touch neither the branches nor GitHub.
LEMMA DiskStep ==
  ASSUME PubInv, ~entangled, UNCHANGED <<headBranch, local, indexed, ghVars>>, onDisk' \in TextVersions,
         paperRow' \in [Papers -> PaperRows], RowsInv', paperText' \in TextVersions, pubCalls' \in Nat,
         CallsInv', pubCall' \in [Publishers -> PubCalls \cup {NoPubCall}],
         \A c \in Publishers : NextIs(c, "commit") => NextIs(c, "commit")' /\ pubCall'[c].doc = pubCall[c].doc
  PROVE  PubInv'
<1>1. PubFrame'
  BY DEF PubInv, PubFrame, ghVars
<1>2. BranchesInv' /\ PrsInv'
  BY DEF PubInv, BranchesInv, PrsInv, OwnOrBase, ghVars
<1>3. IndexInv'
  BY IndexStays DEF PubInv
<1> QED
  BY <1>1, <1>2, <1>3 DEF PubInv

LEMMA PlainStep ==
  ASSUME PubInv, ~entangled, UNCHANGED <<gitVars, ghVars>>,
         paperRow' \in [Papers -> PaperRows], RowsInv', paperText' \in TextVersions, pubCalls' \in Nat,
         CallsInv', pubCall' \in [Publishers -> PubCalls \cup {NoPubCall}],
         \A c \in Publishers : NextIs(c, "commit") => NextIs(c, "commit")' /\ pubCall'[c].doc = pubCall[c].doc
  PROVE  PubInv'
<1>1. onDisk' \in TextVersions /\ UNCHANGED <<headBranch, local, indexed, ghVars>>
  BY DEF PubInv, PubFrame, gitVars
<1> QED
  BY <1>1, DiskStep

\* A request that ends, not with something in the index.
LEMMA RefusedKeeps ==
  ASSUME PubInv, ~entangled', NEW c \in Publishers, Refused(c), UNCHANGED <<paperRow, paperText, pubCalls>>,
         NextIs(c, "commit") => \A d \in Papers : indexed[d] = local[headBranch].file[d]
  PROVE  PubInv'
<1>1. ~entangled /\ PubFrame /\ CallsInv /\ IndexInv
  BY DEF PubInv, Refused
<1>2. CallsInv' /\ pubCall' \in [Publishers -> PubCalls \cup {NoPubCall}]
  BY <1>1, CallsKeep DEF Refused, gitVars
<1>3. PubFrame'
  BY <1>1, <1>2 DEF PubFrame, Refused, gitVars, ghVars
<1>4. BranchesInv' /\ PrsInv' /\ RowsInv'
  BY <1>1 DEF PubInv, BranchesInv, PrsInv, OwnOrBase, RowsInv, Refused, gitVars, ghVars
<1>5. IndexInv'
  <2>1. CASE NextIs(c, "commit")
    BY <2>1 DEF Refused, gitVars, IndexInv
  <2>2. CASE ~NextIs(c, "commit")
    <3>1. \A d \in Publishers : NextIs(d, "commit") => pubCall'[d] = pubCall[d]
      BY <1>1, <2>2 DEF Refused, PubFrame
    <3> QED
      BY <1>1, <3>1, IndexStays DEF Refused, gitVars, NextIs
  <2> QED
    BY <2>1, <2>2
<1> QED
  BY <1>2, <1>3, <1>4, <1>5 DEF PubInv

\* A call at a step is one in order.
LEMMA AtStep ==
  ASSUME PubInv, ~entangled, NEW c \in Publishers, NEW s, NextIs(c, s)
  PROVE  /\ pubCall[c] \in PubCalls /\ CallInOrder(pubCall[c], headBranch) /\ Head(pubCall[c].left) = s
         /\ pubCall[c].left \in Seq(PubSteps) /\ pubCall[c].left # <<>> /\ InOrder(pubCall[c].left)
<1>1. pubCall[c] # NoPubCall
  BY DEF NextIs, NoPubCall
<1> QED
  BY <1>1 DEF PubInv, CallsInv, NextIs, CallInOrder, PubCalls

\* A request takes one of its steps.
LEMMA TakesStep ==
  ASSUME PubInv, ~entangled, NEW c \in Publishers, NEW s, NextIs(c, s),
         NEW k, pubCall' = [pubCall EXCEPT ![c] = k],
         IF Tail(pubCall[c].left) = <<>> THEN k = NoPubCall ELSE KeepsPlace(pubCall[c], k),
         s = "switch" => headBranch' = pubCall[c].doc,
         headBranch' = headBranch \/ ~OthersInCheckout(c)
  PROVE  /\ CallsInv' /\ pubCall' \in [Publishers -> PubCalls \cup {NoPubCall}]
         /\ \A d \in Publishers : d # c \/ s # "commit" =>
              (NextIs(d, "commit") => NextIs(d, "commit")' /\ pubCall'[d].doc = pubCall[d].doc)
         /\ s = "add" => NextIs(c, "commit")' /\ pubCall'[c].doc = pubCall[c].doc
<1> DEFINE call == pubCall[c]
           rest == Tail(call.left)
<1>1. /\ call \in PubCalls /\ CallInOrder(call, headBranch) /\ Head(call.left) = s
      /\ call.left \in Seq(PubSteps) /\ call.left # <<>> /\ InOrder(call.left)
  BY AtStep
<1>2. PubFrame /\ CallsInv
  BY DEF PubInv
<1>3. ASSUME rest # <<>>
      PROVE  k \in PubCalls /\ CallInOrder(k, headBranch') /\ k.doc = call.doc /\ k.left = rest
  <2>1. KeepsPlace(call, k) /\ (Head(call.left) = "switch" => headBranch' = call.doc)
    BY <1>1, <1>3
  <2>2. CallInOrder(k, headBranch')
    BY <1>1, <1>3, <2>1, CallGoesOn
  <2> QED
    BY <2>1, <2>2 DEF KeepsPlace
<1>4. k = NoPubCall \/ (k \in PubCalls /\ CallInOrder(k, headBranch'))
  BY <1>3
<1>5. CallsInv' /\ pubCall' \in [Publishers -> PubCalls \cup {NoPubCall}]
  BY <1>2, <1>4, CallsKeep
<1>6. pubCall'[c] = k /\ \A d \in Publishers \ {c} : pubCall'[d] = pubCall[d]
  BY <1>2 DEF PubFrame
<1>7. s = "add" => rest # <<>> /\ Head(rest) = "commit"
  BY <1>1, OrderGoesOn
<1>8. s = "add" => NextIs(c, "commit")' /\ pubCall'[c].doc = call.doc
  BY <1>3, <1>6, <1>7 DEF NextIs
<1>9. ASSUME NEW d \in Publishers, d # c \/ s # "commit", NextIs(d, "commit")
      PROVE  NextIs(d, "commit")' /\ pubCall'[d].doc = pubCall[d].doc
  <2>1. d # c
    BY <1>1, <1>9 DEF NextIs
  <2> QED
    BY <1>6, <1>9, <2>1 DEF NextIs
<1> QED
  BY <1>5, <1>8, <1>9

\* The same, when it keeps its row.
LEMMA Proceeding ==
  ASSUME PubInv, ~entangled, NEW c \in Publishers, NEW s, NextIs(c, s), s # "name",
         Proceeds(c), s = "switch" => headBranch' = pubCall[c].doc,
         headBranch' = headBranch \/ ~OthersInCheckout(c)
  PROVE  /\ CallsInv' /\ pubCall' \in [Publishers -> PubCalls \cup {NoPubCall}]
         /\ \A d \in Publishers : d # c \/ s # "commit" =>
              (NextIs(d, "commit") => NextIs(d, "commit")' /\ pubCall'[d].doc = pubCall[d].doc)
         /\ s = "add" => NextIs(c, "commit")' /\ pubCall'[c].doc = pubCall[c].doc
<1>1. /\ pubCall[c] \in PubCalls /\ Head(pubCall[c].left) = s
      /\ pubCall[c].left \in Seq(PubSteps) /\ pubCall[c].left # <<>>
  BY AtStep
<1>2. Tail(pubCall[c].left) \in Seq(PubSteps)
  BY <1>1, RestOf
<1>3. IF Tail(pubCall[c].left) = <<>> THEN Done(c) = NoPubCall ELSE KeepsPlace(pubCall[c], Done(c))
  BY <1>1, <1>2 DEF PubCalls, KeepsPlace, Done
<1>4. pubCall' = [pubCall EXCEPT ![c] = Done(c)]
  BY DEF Proceeds
<1> HIDE DEF Done
<1> QED
  BY <1>3, <1>4, TakesStep

\* And when it learns a new one.
LEMMA Learning ==
  ASSUME PubInv, ~entangled, NEW c \in Publishers, NEW s \in {"name", "open", "openIssue"}, NextIs(c, s),
         NEW row \in PaperRows, Learns(c, row),
         row.branch = pubCall[c].row.branch \/ row.branch = pubCall[c].doc,
         s = "name" => row.branch = pubCall[c].doc, headBranch' = headBranch
  PROVE  /\ CallsInv' /\ pubCall' \in [Publishers -> PubCalls \cup {NoPubCall}]
         /\ \A d \in Publishers :
              NextIs(d, "commit") => NextIs(d, "commit")' /\ pubCall'[d].doc = pubCall[d].doc
<1> DEFINE k == [Done(c) EXCEPT !.row = row]
<1>1. /\ pubCall[c] \in PubCalls /\ Head(pubCall[c].left) = s
      /\ pubCall[c].left \in Seq(PubSteps) /\ pubCall[c].left # <<>> /\ InOrder(pubCall[c].left)
  BY AtStep
<1>2. Tail(pubCall[c].left) \in Seq(PubSteps) /\ Tail(pubCall[c].left) # <<>>
  BY <1>1, RestOf, OrderGoesOn
<1>3. KeepsPlace(pubCall[c], k)
  BY <1>1, <1>2 DEF PubCalls, KeepsPlace, Done
<1>4. pubCall' = [pubCall EXCEPT ![c] = k]
  BY DEF Learns
<1>5. s # "commit" /\ s # "switch"
  OBVIOUS
<1> HIDE DEF k
<1> QED
  BY <1>2, <1>3, <1>4, <1>5, TakesStep

LEMMA BeginsKeeps ==
  ASSUME PubInv, ~entangled', NEW c \in Publishers, NEW verb \in DOMAIN Program, NEW d \in Papers,
         NEW row \in PaperRows, row.branch \in {NoBranch, d}, Begins(c, verb, d, row)
  PROVE  PubInv'
<1> DEFINE k == [verb |-> verb, doc |-> d, left |-> Program[verb], row |-> row, text |-> 0,
                 n |-> pubCalls + 1]
<1>1. ~entangled /\ PubFrame /\ CallsInv /\ RowsInv
  BY DEF PubInv, Begins
<1>2. k \in PubCalls /\ CallInOrder(k, headBranch')
  BY <1>1, ProgramsInOrder DEF PubCalls, CallInOrder, PubFrame, Begins, MayBegin
<1>3. pubCall' = [pubCall EXCEPT ![c] = k]
  BY DEF Begins
<1>4. UNCHANGED <<gitVars, ghVars, paperRow, paperText>> /\ pubCalls' \in Nat
  BY <1>1 DEF Begins, PubFrame
<1>5. CallsInv' /\ pubCall' \in [Publishers -> PubCalls \cup {NoPubCall}]
  BY <1>1, <1>2, <1>3, <1>4, CallsKeep DEF gitVars
<1>6. ASSUME NEW e \in Publishers, NextIs(e, "commit")
      PROVE  NextIs(e, "commit")' /\ pubCall'[e].doc = pubCall[e].doc
  <2>1. e # c
    BY <1>6 DEF Begins, NextIs, NoPubCall
  <2> QED
    BY <1>1, <1>3, <1>6, <2>1 DEF NextIs, PubFrame
<1>7. paperRow' \in [Papers -> PaperRows] /\ RowsInv' /\ paperText' \in TextVersions
  BY <1>1, <1>4 DEF PubFrame, RowsInv
<1> QED
  BY <1>1, <1>4, <1>5, <1>6, <1>7, PlainStep

LEMMA StartsKeep ==
  ASSUME PubInv, ~entangled', NEW c \in Publishers, NEW d \in Papers, RequestStarts(c, d)
  PROVE  PubInv'
<1>1. ~entangled /\ PubFrame /\ RowsInv
  BY DEF PubInv, RequestStarts, EditsPaper, StartsOther, SetsRepo, Begins
<1>2. paperRow[d] \in PaperRows /\ paperRow[d].branch \in {NoBranch, d}
  BY <1>1 DEF PubFrame, RowsInv
<1>3. CASE EditsPaper(c, d)
  BY <1>2, <1>3, ProgramsAre, BeginsKeeps DEF EditsPaper
<1>4. CASE StartsOther(c, d)
  BY <1>2, <1>4, BeginsKeeps DEF StartsOther
<1>5. ASSUME NEW base \in {MainLine, NoBranch}, SetsRepo(c, d, base) PROVE PubInv'
  <2>1. [paperRow[d] EXCEPT !.base = base] \in PaperRows
        /\ [paperRow[d] EXCEPT !.base = base].branch = paperRow[d].branch
    BY <1>2 DEF PaperRows
  <2> QED
    BY <1>2, <1>5, <2>1, ProgramsAre, BeginsKeeps DEF SetsRepo
<1> QED
  BY <1>3, <1>4, <1>5 DEF RequestStarts

LEMMA SavesKeeps ==
  ASSUME PubInv, ~entangled', NEW c \in Publishers, SavesRow(c)
  PROVE  PubInv'
<1>1. ~entangled /\ PubFrame /\ RowsInv /\ UNCHANGED <<gitVars, ghVars, paperText, pubCalls>>
  BY DEF PubInv, SavesRow, Bounds
<1>2. pubCall[c].row \in PaperRows /\ pubCall[c].doc \in Papers
      /\ pubCall[c].row.branch \in {NoBranch, pubCall[c].doc}
  BY <1>1, AtStep DEF SavesRow, PubCalls, CallInOrder
<1>3. paperRow' \in [Papers -> PaperRows] /\ RowsInv'
  BY <1>1, <1>2 DEF SavesRow, PubFrame, RowsInv
<1>4. /\ CallsInv' /\ pubCall' \in [Publishers -> PubCalls \cup {NoPubCall}]
      /\ \A d \in Publishers :
           NextIs(d, "commit") => NextIs(d, "commit")' /\ pubCall'[d].doc = pubCall[d].doc
  BY <1>1, Proceeding DEF SavesRow, gitVars
<1> QED
  BY <1>1, <1>3, <1>4, PlainStep DEF PubFrame

LEMMA RevisesKeeps ==
  ASSUME PubInv, ~entangled', NEW d \in Papers, RevisesText(d)
  PROVE  PubInv'
<1>1. /\ ~entangled /\ PubFrame /\ RowsInv /\ CallsInv
      /\ UNCHANGED <<gitVars, ghVars, paperRow, pubCall, pubCalls>>
  BY DEF PubInv, RevisesText, Bounds
<1>2. paperText' \in TextVersions
  BY <1>1 DEF RevisesText, PubFrame, TextVersions
<1> QED
  BY <1>1, <1>2, PlainStep DEF PubFrame, RowsInv, CallsInv, NextIs, gitVars

LEMMA NamesKeeps ==
  ASSUME PubInv, ~entangled', NEW c \in Publishers, NamesBranch(c)
  PROVE  PubInv'
<1> DEFINE row == [pubCall[c].row EXCEPT !.branch = headBranch]
<1>1. ~entangled /\ PubFrame /\ RowsInv /\ UNCHANGED <<gitVars, ghVars, paperRow, paperText, pubCalls>>
  BY DEF PubInv, NamesBranch, Bounds
<1>2. pubCall[c].row \in PaperRows /\ headBranch = pubCall[c].doc
  BY <1>1, AtStep DEF NamesBranch, PubCalls, CallInOrder
<1>3. row \in PaperRows /\ row.branch = pubCall[c].doc
  BY <1>1, <1>2 DEF PaperRows, PubFrame
<1>4. /\ CallsInv' /\ pubCall' \in [Publishers -> PubCalls \cup {NoPubCall}]
      /\ \A d \in Publishers :
           NextIs(d, "commit") => NextIs(d, "commit")' /\ pubCall'[d].doc = pubCall[d].doc
  BY <1>1, <1>3, Learning DEF NamesBranch, gitVars
<1> QED
  BY <1>1, <1>4, PlainStep DEF PubFrame, RowsInv

LEMMA IssueKeeps ==
  ASSUME PubInv, ~entangled', NEW c \in Publishers, OpensIssue(c)
  PROVE  PubInv'
<1> DEFINE row == [pubCall[c].row EXCEPT !.issue = TRUE]
<1>1. ~entangled /\ PubFrame /\ RowsInv /\ UNCHANGED <<gitVars, ghVars, paperRow, paperText, pubCalls>>
  BY DEF PubInv, OpensIssue, Bounds
<1>2. pubCall[c].row \in PaperRows
  BY <1>1, AtStep DEF OpensIssue, PubCalls
<1>3. row \in PaperRows /\ row.branch = pubCall[c].row.branch
  BY <1>2 DEF PaperRows
<1>4. /\ CallsInv' /\ pubCall' \in [Publishers -> PubCalls \cup {NoPubCall}]
      /\ \A d \in Publishers :
           NextIs(d, "commit") => NextIs(d, "commit")' /\ pubCall'[d].doc = pubCall[d].doc
  BY <1>1, <1>3, Learning DEF OpensIssue, gitVars
<1> QED
  BY <1>1, <1>4, PlainStep DEF PubFrame, RowsInv

LEMMA RendersKeeps ==
  ASSUME PubInv, ~entangled', NEW c \in Publishers, Renders(c)
  PROVE  PubInv'
<1> DEFINE k == [Done(c) EXCEPT !.text = paperText[pubCall[c].doc]]
<1>1. ~entangled /\ PubFrame /\ RowsInv /\ UNCHANGED <<gitVars, ghVars, paperRow, paperText, pubCalls>>
  BY DEF PubInv, Renders, Bounds
<1>2. /\ pubCall[c] \in PubCalls /\ pubCall[c].left # <<>> /\ Head(pubCall[c].left) = "render"
      /\ pubCall[c].left \in Seq(PubSteps) /\ InOrder(pubCall[c].left)
  BY <1>1, AtStep DEF Renders
<1>3. /\ paperText[pubCall[c].doc] \in Nat
      /\ Tail(pubCall[c].left) \in Seq(PubSteps) /\ Tail(pubCall[c].left) # <<>>
  BY <1>1, <1>2, RestOf, OrderGoesOn DEF PubCalls, PubFrame, TextVersions
<1>4. KeepsPlace(pubCall[c], k)
  BY <1>2, <1>3 DEF PubCalls, KeepsPlace, Done
<1>5. NextIs(c, "render") /\ headBranch' = headBranch /\ pubCall' = [pubCall EXCEPT ![c] = k]
  BY <1>1 DEF Renders, gitVars
<1> HIDE DEF k
<1>6. /\ CallsInv' /\ pubCall' \in [Publishers -> PubCalls \cup {NoPubCall}]
      /\ \A d \in Publishers :
           NextIs(d, "commit") => NextIs(d, "commit")' /\ pubCall'[d].doc = pubCall[d].doc
  <2>1. \A s : s = "render" => s # "commit" /\ s # "switch" /\ s # "add"
    OBVIOUS
  <2>2. PICK s : s = "render"
    OBVIOUS
  <2> QED
    BY <1>1, <1>3, <1>4, <1>5, <2>1, <2>2, TakesStep
<1> QED
  BY <1>1, <1>6, PlainStep DEF PubFrame, RowsInv

LEMMA WritesKeeps ==
  ASSUME PubInv, ~entangled', NEW c \in Publishers, WritesFile(c)
  PROVE  PubInv'
<1>1. ~entangled /\ PubFrame /\ RowsInv
      /\ UNCHANGED <<headBranch, local, indexed, ghVars, paperRow, paperText, pubCalls>>
  BY DEF PubInv, WritesFile, Meets, Bounds
<1>2. pubCall[c].text \in Nat
  BY <1>1, AtStep DEF WritesFile, PubCalls
<1>3. onDisk' \in TextVersions
  BY <1>1, <1>2 DEF WritesFile, PubFrame, TextVersions
<1>4. /\ CallsInv' /\ pubCall' \in [Publishers -> PubCalls \cup {NoPubCall}]
      /\ \A d \in Publishers :
           NextIs(d, "commit") => NextIs(d, "commit")' /\ pubCall'[d].doc = pubCall[d].doc
  BY <1>1, Proceeding DEF WritesFile
<1> QED
  BY <1>1, <1>3, <1>4, DiskStep DEF PubFrame, RowsInv

LEMMA AddsKeeps ==
  ASSUME PubInv, ~entangled', NEW c \in Publishers, AddsFile(c)
  PROVE  PubInv'
<1>1. ~entangled /\ PubFrame /\ RowsInv /\ IndexInv /\ BranchesInv /\ PrsInv
      /\ UNCHANGED <<headBranch, local, onDisk, ghVars, paperRow, paperText, pubCalls>>
  BY DEF PubInv, AddsFile, Meets, Bounds
<1>2. pubCall[c].doc \in Papers
  BY <1>1, AtStep DEF AddsFile, PubCalls
<1>3. indexed' \in TextVersions
  BY <1>1, <1>2 DEF AddsFile, PubFrame, TextVersions
<1>4. /\ CallsInv' /\ pubCall' \in [Publishers -> PubCalls \cup {NoPubCall}]
      /\ \A d \in Publishers :
           NextIs(d, "commit") => NextIs(d, "commit")' /\ pubCall'[d].doc = pubCall[d].doc
      /\ NextIs(c, "commit")' /\ pubCall'[c].doc = pubCall[c].doc
  BY <1>1, Proceeding DEF AddsFile
<1>5. PubFrame'
  BY <1>1, <1>3, <1>4 DEF PubFrame, ghVars
<1>6. BranchesInv' /\ PrsInv' /\ RowsInv'
  BY <1>1 DEF BranchesInv, OwnOrBase, PrsInv, RowsInv, ghVars
<1>7. IndexInv'
  <2>1. ASSUME NEW d \in Papers, indexed'[d] # local[headBranch].file[d]
        PROVE  \E e \in Publishers : NextIs(e, "commit")' /\ pubCall'[e].doc = d
    <3>1. CASE d = pubCall[c].doc
      BY <1>4, <3>1
    <3>2. CASE d # pubCall[c].doc
      <4>1. indexed'[d] = indexed[d]
        BY <1>1, <3>2 DEF AddsFile, PubFrame, TextVersions
      <4> QED
        BY <1>1, <1>4, <2>1, <4>1 DEF IndexInv
    <3> QED
      BY <3>1, <3>2
  <2> QED
    BY <1>1, <2>1 DEF IndexInv
<1> QED
  BY <1>4, <1>5, <1>6, <1>7 DEF PubInv

\* git switch, when nothing is in the index.
LEMMA SwitchTakes ==
  ASSUME PubFrame, NEW b, NEW target \in TextVersions, SwitchesTo(b, target),
         \A d \in Papers : indexed[d] = local[headBranch].file[d]
  PROVE  headBranch' = b /\ indexed' = target /\ onDisk' \in TextVersions
<1>1. ASSUME NEW d \in Papers PROVE indexed'[d] = target[d] /\ onDisk'[d] \in Nat
  BY <1>1 DEF SwitchesTo, Keeps, PapersAt, PubFrame, TextVersions
<1>2. indexed' = [d \in Papers |-> target[d]]
  BY <1>1 DEF SwitchesTo
<1>3. onDisk' \in TextVersions
  BY <1>1 DEF SwitchesTo, TextVersions
<1> QED
  BY <1>2, <1>3 DEF SwitchesTo, TextVersions

LEMMA NothingIndexed ==
  ASSUME IndexInv, \A c \in Publishers : ~NextIs(c, "commit")
  PROVE  \A d \in Papers : indexed[d] = local[headBranch].file[d]
BY DEF IndexInv

LEMMA CreatesKeeps ==
  ASSUME PubInv, ~entangled', NEW c \in Publishers, CreatesBranch(c)
  PROVE  PubInv'
<1> DEFINE d == pubCall[c].doc
           start == StartPoint(c)
<1>1. NextIs(c, "switch") /\ UNCHANGED <<paperRow, paperText, pubCalls>>
  BY DEF CreatesBranch, Bounds
<1>2. CASE ~CanMake(d, start)
  BY <1>1, <1>2, RefusedKeeps DEF CreatesBranch, NextIs
<1>3. CASE CanMake(d, start)
  <2>1. /\ MakesBranch(d, start) /\ Proceeds(c) /\ UNCHANGED ghVars
        /\ ~entangled /\ ~OthersInCheckout(c)
        /\ ~(pubCall[c].row.base = NoBranch /\ headBranch # MainLine)
    BY <1>3 DEF CreatesBranch, Meets
  <2>2. PubFrame /\ BranchesInv /\ IndexInv /\ PrsInv /\ RowsInv
    BY <2>1 DEF PubInv
  <2>3. d \in Papers /\ pubCall[c].row.base \in {MainLine, NoBranch}
    BY <1>1, <2>1, AtStep DEF PubCalls, PaperRows
  <2>4. start = MainLine
    BY <2>1, <2>3 DEF StartPoint
  <2>5. local[MainLine] # NoBranch /\ local[MainLine] \in BranchStates
    BY <1>3, <2>2, <2>4 DEF CanMake, PubFrame, PubBranches
  <2>6. \A e \in Publishers : ~NextIs(e, "commit")
    BY <1>1, <2>1 DEF OthersInCheckout, InCheckout, NextIs
  <2>7. headBranch' = d /\ indexed' = local[MainLine].file /\ onDisk' \in TextVersions
    BY <2>1, <2>2, <2>4, <2>5, <2>6, NothingIndexed, SwitchTakes DEF MakesBranch, PapersAt, BranchStates
  <2>8. local' = [local EXCEPT ![d] = local[MainLine]] /\ d \in PubBranches /\ d # MainLine
    BY <2>1, <2>3, <2>4, PublishConstants DEF MakesBranch, PubBranches
  <2>9. CallsInv' /\ pubCall' \in [Publishers -> PubCalls \cup {NoPubCall}]
    BY <1>1, <2>1, <2>7, Proceeding
  <2>10. PubFrame'
    BY <1>1, <2>1, <2>2, <2>5, <2>7, <2>8, <2>9 DEF PubFrame, BranchStates, ghVars
  <2>11. BranchesInv'
    <3>1. \A b \in PubBranches \ {d} : local'[b] = local[b]
      BY <2>2, <2>8 DEF PubFrame
    <3>2. local'[d] = local[MainLine] /\ MainLine \in PubBranches /\ Papers \subseteq PubBranches
      BY <2>2, <2>8 DEF PubFrame, PubBranches
    <3> QED
      BY <2>1, <2>2, <2>5, <2>8, <3>1, <3>2 DEF BranchesInv, OwnOrBase, ghVars
  <2>12. IndexInv'
    BY <2>2, <2>7, <2>8 DEF IndexInv, PubFrame
  <2>13. PrsInv' /\ RowsInv'
    BY <1>1, <2>1, <2>2 DEF PrsInv, RowsInv, ghVars
  <2> QED
    BY <2>9, <2>10, <2>11, <2>12, <2>13 DEF PubInv
<1> QED
  BY <1>2, <1>3

\* A commit of the index is of the one document that was added, and goes to
\* its branch.
LEMMA CommitsKeeps ==
  ASSUME PubInv, ~entangled', NEW c \in Publishers, CommitsIndex(c)
  PROVE  PubInv'
<1> DEFINE docs == {d \in Papers : indexed[d] # PapersAt(headBranch)[d]}
           own == pubCall[c].doc
           new == [n |-> pubCall[c].n, docs |-> docs]
           state == [has |-> local[headBranch].has \cup {new}, file |-> indexed]
<1>1. NextIs(c, "commit") /\ UNCHANGED <<paperRow, paperText, pubCalls>>
  BY DEF CommitsIndex, Bounds
<1>2. CASE docs = {}
  BY <1>1, <1>2, RefusedKeeps DEF CommitsIndex, PapersAt
<1>3. CASE docs # {}
  <2>1. /\ local' = [local EXCEPT ![headBranch] = state]
        /\ Proceeds(c) /\ UNCHANGED <<headBranch, indexed, onDisk, ghVars>>
        /\ ~entangled /\ ~OthersInCheckout(c) /\ headBranch = own
    BY <1>3 DEF CommitsIndex, Meets
  <2>2. PubFrame /\ BranchesInv /\ IndexInv /\ PrsInv /\ RowsInv
    BY <2>1 DEF PubInv
  <2>3. own \in Papers /\ pubCall[c].n \in Nat
    BY <1>1, <2>1, AtStep DEF PubCalls
  <2>4. ASSUME NEW d \in docs PROVE d = own
    <3>1. PICK e \in Publishers : NextIs(e, "commit") /\ pubCall[e].doc = d
      BY <2>2 DEF IndexInv, PapersAt
    <3>2. e = c
      BY <2>1, <3>1 DEF OthersInCheckout, InCheckout
    <3> QED
      BY <3>1, <3>2
  <2>5. docs = {own}
    BY <1>3, <2>4
  <2>6. state \in BranchStates
    BY <2>2, <2>3 DEF BranchStates, Changes, PubFrame
  <2>7. CallsInv' /\ pubCall' \in [Publishers -> PubCalls \cup {NoPubCall}]
    BY <1>1, <2>1, Proceeding
  <2>8. local'[own] = state /\ (\A b \in PubBranches \ {own} : local'[b] = local[b])
        /\ own # MainLine /\ MainLine \in PubBranches /\ Papers \subseteq PubBranches
    BY <2>1, <2>2, <2>3, PublishConstants DEF PubFrame, PubBranches
  <2>9. PubFrame'
    BY <1>1, <2>1, <2>2, <2>6, <2>7, <2>8 DEF PubFrame, ghVars
  <2>10. local[own] # NoBranch
    BY <2>1, <2>2, PublishConstants DEF PubFrame, BranchStates, Changes, TextVersions
  <2>11. OwnOrBase(own, state.has)
    <3>1. OwnOrBase(own, local[own].has)
      BY <2>2, <2>3, <2>10 DEF BranchesInv
    <3> QED
      BY <2>1, <2>5, <3>1 DEF OwnOrBase
  <2>12. BranchesInv'
    BY <2>1, <2>2, <2>8, <2>11 DEF BranchesInv, OwnOrBase, ghVars
  <2>13. IndexInv'
    BY <2>1, <2>8 DEF IndexInv
  <2>14. PrsInv' /\ RowsInv'
    BY <1>1, <2>1, <2>2 DEF PrsInv, RowsInv, ghVars
  <2> QED
    BY <2>7, <2>9, <2>12, <2>13, <2>14 DEF PubInv
<1> QED
  BY <1>2, <1>3

LEMMA PushesKeeps ==
  ASSUME PubInv, ~entangled', NEW c \in Publishers, PushesPaper(c)
  PROVE  PubInv'
<1> DEFINE b == Pushed(c)
<1>1. NextIs(c, "push") /\ UNCHANGED <<paperRow, paperText, pubCalls>>
  BY DEF PushesPaper, Bounds
<1>2. CASE ~(local[b] # NoBranch /\ upstream[b].has \subseteq local[b].has)
  BY <1>1, <1>2, RefusedKeeps DEF PushesPaper, NextIs
<1>3. CASE local[b] # NoBranch /\ upstream[b].has \subseteq local[b].has
  <2>1. /\ upstream' = [upstream EXCEPT ![b] = local[b]]
        /\ Proceeds(c) /\ UNCHANGED <<gitVars, prs>> /\ ~entangled
    BY <1>3 DEF PushesPaper
  <2>2. PubFrame /\ BranchesInv /\ IndexInv /\ PrsInv /\ RowsInv
    BY <2>1 DEF PubInv
  <2>3. pubCall[c].row.branch \in PubBranches \cup {NoBranch}
    BY <1>1, <2>1, AtStep DEF PubCalls, PaperRows
  <2>4. b \in PubBranches
    BY <2>2, <2>3 DEF Pushed, PubFrame
  <2> HIDE DEF b
  <2>5. local[b] \in BranchStates
    BY <1>3, <2>2, <2>4 DEF PubFrame
  <2>6. CallsInv' /\ pubCall' \in [Publishers -> PubCalls \cup {NoPubCall}]
        /\ \A d \in Publishers :
             NextIs(d, "commit") => NextIs(d, "commit")' /\ pubCall'[d].doc = pubCall[d].doc
    BY <1>1, <2>1, Proceeding DEF gitVars
  <2>7. PubFrame'
    BY <1>1, <2>1, <2>2, <2>4, <2>5, <2>6 DEF PubFrame, gitVars
  <2>8. /\ upstream'[b] = local[b] /\ \A e \in PubBranches \ {b} : upstream'[e] = upstream[e]
        /\ MainLine \in PubBranches /\ Papers \subseteq PubBranches
    BY <2>1, <2>2, <2>4 DEF PubFrame, PubBranches
  <2>9. upstream'[MainLine].has = upstream[MainLine].has
    <3>1. CASE b = MainLine
      <4>1. local[MainLine].has \subseteq upstream[MainLine].has
        BY <1>3, <2>2, <3>1 DEF BranchesInv, b
      <4>2. upstream[MainLine].has \subseteq local[MainLine].has
        BY <1>3, <3>1 DEF b
      <4> QED
        BY <2>8, <3>1, <4>1, <4>2
    <3>2. CASE b # MainLine
      BY <2>8, <3>2
    <3> QED
      BY <3>1, <3>2
  <2>10. BranchesInv'
    BY <1>3, <2>1, <2>2, <2>8, <2>9 DEF BranchesInv, OwnOrBase, gitVars
  <2>11. IndexInv'
    BY <2>1, <2>2, <2>6, IndexStays DEF gitVars
  <2>12. PrsInv' /\ RowsInv'
    BY <1>1, <2>1, <2>2 DEF PrsInv, RowsInv
  <2> QED
    BY <2>6, <2>7, <2>10, <2>11, <2>12 DEF PubInv
<1> QED
  BY <1>2, <1>3

\* A pull request more.
LEMMA PrsGrow ==
  ASSUME NEW list \in Seq(PrRows), NEW pr \in PrRows
  PROVE  /\ Append(list, pr) \in Seq(PrRows) /\ DOMAIN Append(list, pr) = DOMAIN list \cup {Len(list) + 1}
         /\ Len(Append(list, pr)) \in Nat
         /\ \A i \in DOMAIN list : Append(list, pr)[i] = list[i]
         /\ Append(list, pr)[Len(list) + 1] = pr
OBVIOUS

LEMMA OpensKeeps ==
  ASSUME PubInv, ~entangled', NEW c \in Publishers, OpensPr(c)
  PROVE  PubInv'
<1> DEFINE b == pubCall[c].row.branch
           pr == [doc |-> pubCall[c].doc, head |-> b, state |-> "open"]
           row == [pubCall[c].row EXCEPT !.pr = Len(prs')]
<1>1. NextIs(c, "open") /\ UNCHANGED <<paperRow, paperText, pubCalls>>
  BY DEF OpensPr, Bounds
<1>2. CASE ~MayOpen(b)
  BY <1>1, <1>2, RefusedKeeps DEF OpensPr, NextIs
<1>3. CASE MayOpen(b)
  <2>1. prs' = Append(prs, pr) /\ Learns(c, row) /\ UNCHANGED <<gitVars, upstream>> /\ ~entangled
    BY <1>3 DEF OpensPr
  <2>2. PubFrame /\ BranchesInv /\ IndexInv /\ PrsInv /\ RowsInv
    BY <2>1 DEF PubInv
  <2>3. /\ pubCall[c] \in PubCalls /\ CallInOrder(pubCall[c], headBranch)
        /\ Head(pubCall[c].left) = "open" /\ pubCall[c].left \in Seq(PubSteps)
        /\ pubCall[c].left # <<>> /\ InOrder(pubCall[c].left)
    BY <1>1, <2>1, AtStep
  <2>4. b = pubCall[c].doc /\ pubCall[c].doc \in Papers /\ b # MainLine /\ pubCall[c].row \in PaperRows
    BY <2>3, OrderGoesOn, PublishConstants DEF CallInOrder, PubCalls
  <2>5. pr \in PrRows
    BY <2>4 DEF PrRows, PubBranches
  <2>6. /\ prs' \in Seq(PrRows) /\ Len(prs') \in Nat /\ DOMAIN prs' = DOMAIN prs \cup {Len(prs) + 1}
        /\ (\A i \in DOMAIN prs : prs'[i] = prs[i]) /\ prs'[Len(prs) + 1] = pr
    BY <2>1, <2>2, <2>5, PrsGrow DEF PubFrame
  <2>7. row \in PaperRows /\ row.branch = pubCall[c].row.branch
    BY <2>4, <2>6 DEF PaperRows
  <2>8. CallsInv' /\ pubCall' \in [Publishers -> PubCalls \cup {NoPubCall}]
        /\ \A d \in Publishers :
             NextIs(d, "commit") => NextIs(d, "commit")' /\ pubCall'[d].doc = pubCall[d].doc
    BY <1>1, <2>1, <2>7, Learning DEF gitVars
  <2>9. PubFrame'
    BY <1>1, <2>1, <2>2, <2>6, <2>8 DEF PubFrame, gitVars
  <2>10. BranchesInv' /\ RowsInv'
    BY <1>1, <2>1, <2>2 DEF BranchesInv, OwnOrBase, RowsInv, gitVars
  <2>11. IndexInv'
    BY <2>1, <2>2, <2>8, IndexStays DEF gitVars
  <2>12. PrsInv'
    BY <2>2, <2>4, <2>6 DEF PrsInv
  <2> QED
    BY <2>8, <2>9, <2>10, <2>11, <2>12 DEF PubInv
<1> QED
  BY <1>2, <1>3

LEMMA FailsKeeps ==
  ASSUME PubInv, ~entangled', NEW c \in Publishers, RequestFails(c)
  PROVE  PubInv'
<1>1. /\ ~entangled /\ ~NextIs(c, "commit") /\ pubCall' = [pubCall EXCEPT ![c] = NoPubCall]
      /\ UNCHANGED <<paperRow, paperText, gitVars, ghVars, pubCalls>>
  BY DEF RequestFails
<1>2. PubFrame /\ CallsInv /\ RowsInv
  BY <1>1 DEF PubInv
<1>3. CallsInv' /\ pubCall' \in [Publishers -> PubCalls \cup {NoPubCall}]
  BY <1>1, <1>2, CallsKeep DEF gitVars
<1>4. \A d \in Publishers :
        NextIs(d, "commit") => NextIs(d, "commit")' /\ pubCall'[d].doc = pubCall[d].doc
  BY <1>1, <1>2 DEF PubFrame, NextIs
<1> QED
  BY <1>1, <1>2, <1>3, <1>4, PlainStep DEF PubFrame, RowsInv

-----------------------------------------------------------------------------
(***************************************************************************)
(* The panel.                                                              *)
(***************************************************************************)
LEMMA PanelCalls ==
  ASSUME PubInv, ~entangled, Panel
  PROVE  /\ UNCHANGED <<paperRow, paperText, pubCall, pubCalls>>
         /\ \A c \in Publishers :
              NextIs(c, "commit") => NextIs(c, "commit")' /\ pubCall'[c].doc = pubCall[c].doc
BY DEF Panel, NextIs

\* Where the head moves, no request is in the checkout.
LEMMA HeadMoves ==
  ASSUME PubInv, ~entangled, CallsInv, UNCHANGED pubCall, \A c \in Publishers : ~InCheckout(c)
  PROVE  CallsInv'
<1>1. ASSUME NEW c \in Publishers, CallInOrder(pubCall[c], headBranch)
      PROVE  CallInOrder(pubCall[c], headBranch')
  BY <1>1 DEF InCheckout, NextIs, CallInOrder
<1> QED
  BY <1>1 DEF CallsInv

LEMMA SideKeeps ==
  ASSUME PubInv, ~entangled', NEW from \in PubBranches, PanelCreatesBranch(from)
  PROVE  PubInv'
<1>1. /\ Panel /\ MakesBranch(Side, from) /\ UNCHANGED ghVars /\ ~entangled
      /\ \A c \in Publishers : ~InCheckout(c)
  BY DEF PanelCreatesBranch, PanelMovesHead
<1>2. PubFrame /\ BranchesInv /\ IndexInv /\ PrsInv /\ RowsInv /\ CallsInv
  BY <1>1 DEF PubInv
<1>3. UNCHANGED <<paperRow, paperText, pubCall, pubCalls>>
  BY <1>1 DEF Panel
<1>4. local[from] # NoBranch /\ local[from] \in BranchStates
  BY <1>1, <1>2 DEF MakesBranch, CanMake, PubFrame
<1>5. \A d \in Papers : indexed[d] = local[headBranch].file[d]
  BY <1>1, <1>2, NothingIndexed DEF InCheckout
<1>6. headBranch' = Side /\ indexed' = local[from].file /\ onDisk' \in TextVersions
  BY <1>1, <1>2, <1>4, <1>5, SwitchTakes DEF MakesBranch, PapersAt, BranchStates
<1>7. /\ local' = [local EXCEPT ![Side] = local[from]]
      /\ Side \in PubBranches /\ Side \notin Papers /\ Side # MainLine
      /\ MainLine \in PubBranches /\ Papers \subseteq PubBranches
  BY <1>1, PublishConstants DEF MakesBranch, PubBranches
<1>8. PubFrame'
  BY <1>1, <1>2, <1>3, <1>4, <1>6, <1>7 DEF PubFrame, BranchStates, ghVars
<1>9. BranchesInv'
  BY <1>1, <1>2, <1>7 DEF BranchesInv, OwnOrBase, PubFrame, ghVars
<1>10. IndexInv'
  BY <1>2, <1>6, <1>7 DEF IndexInv, PubFrame
<1>11. CallsInv' /\ PrsInv' /\ RowsInv'
  BY <1>1, <1>2, <1>3, HeadMoves DEF PrsInv, RowsInv, ghVars
<1> QED
  BY <1>8, <1>9, <1>10, <1>11 DEF PubInv

LEMMA ChecksOutKeeps ==
  ASSUME PubInv, ~entangled', NEW b \in PubBranches, PanelChecksOut(b)
  PROVE  PubInv'
<1>1. /\ Panel /\ local[b] # NoBranch /\ SwitchesTo(b, PapersAt(b)) /\ UNCHANGED <<local, ghVars>>
      /\ ~entangled /\ \A c \in Publishers : ~InCheckout(c)
  BY DEF PanelChecksOut, PanelMovesHead
<1>2. PubFrame /\ BranchesInv /\ IndexInv /\ PrsInv /\ RowsInv /\ CallsInv
  BY <1>1 DEF PubInv
<1>3. UNCHANGED <<paperRow, paperText, pubCall, pubCalls>>
  BY <1>1 DEF Panel
<1>4. local[b] \in BranchStates
  BY <1>1, <1>2 DEF PubFrame
<1>5. \A d \in Papers : indexed[d] = local[headBranch].file[d]
  BY <1>1, <1>2, NothingIndexed DEF InCheckout
<1>6. headBranch' = b /\ indexed' = local[b].file /\ onDisk' \in TextVersions
  BY <1>1, <1>2, <1>4, <1>5, SwitchTakes DEF PapersAt, BranchStates
<1>7. PubFrame'
  BY <1>1, <1>2, <1>3, <1>4, <1>6 DEF PubFrame, BranchStates, ghVars
<1>8. BranchesInv'
  BY <1>1, <1>2 DEF BranchesInv, OwnOrBase, ghVars
<1>9. IndexInv'
  BY <1>1, <1>6 DEF IndexInv
<1>10. CallsInv' /\ PrsInv' /\ RowsInv'
  BY <1>1, <1>2, <1>3, HeadMoves DEF PrsInv, RowsInv, ghVars
<1> QED
  BY <1>7, <1>8, <1>9, <1>10 DEF PubInv

LEMMA DeletesKeeps ==
  ASSUME PubInv, ~entangled', NEW b \in PubBranches, NEW force \in BOOLEAN, PanelDeletesBranch(b, force)
  PROVE  PubInv'
<1>1. /\ Panel /\ b # headBranch /\ local' = [local EXCEPT ![b] = NoBranch]
      /\ UNCHANGED <<headBranch, indexed, onDisk, ghVars>> /\ ~entangled
  BY DEF PanelDeletesBranch
<1>2. PubFrame /\ BranchesInv /\ IndexInv /\ PrsInv /\ RowsInv /\ CallsInv
  BY <1>1 DEF PubInv
<1>3. UNCHANGED <<paperRow, paperText, pubCall, pubCalls>>
  BY <1>1 DEF Panel
<1>4. local'[b] = NoBranch /\ \A e \in PubBranches \ {b} : local'[e] = local[e]
  BY <1>1, <1>2 DEF PubFrame
<1>5. local'[headBranch] = local[headBranch] /\ MainLine \in PubBranches /\ Papers \subseteq PubBranches
  BY <1>1, <1>2, <1>4 DEF PubFrame, PubBranches
<1>6. PubFrame'
  BY <1>1, <1>2, <1>3, <1>5 DEF PubFrame, ghVars
<1>7. BranchesInv'
  BY <1>1, <1>2, <1>4, <1>5 DEF BranchesInv, OwnOrBase, ghVars
<1>8. IndexInv'
  BY <1>1, <1>2, <1>3, <1>5, PanelCalls, IndexStays
<1>9. CallsInv' /\ PrsInv' /\ RowsInv'
  BY <1>1, <1>2, <1>3 DEF CallsInv, PrsInv, RowsInv, ghVars
<1> QED
  BY <1>6, <1>7, <1>8, <1>9 DEF PubInv

\* The list of pull requests grows by one of the panel's, or one of them
\* changes its state.
LEMMA ListKeeps ==
  ASSUME PubInv, ~entangled, Panel, UNCHANGED <<gitVars, upstream>>, prs' \in Seq(PrRows), PrsInv'
  PROVE  PubInv'
<1>1. PubFrame /\ BranchesInv /\ IndexInv /\ RowsInv /\ CallsInv
  BY DEF PubInv
<1>2. UNCHANGED <<paperRow, paperText, pubCall, pubCalls>>
  BY DEF Panel
<1>3. PubFrame'
  BY <1>1, <1>2 DEF PubFrame, gitVars
<1>4. BranchesInv' /\ RowsInv' /\ CallsInv'
  BY <1>1, <1>2 DEF BranchesInv, OwnOrBase, RowsInv, CallsInv, gitVars
<1>5. IndexInv'
  BY <1>1, <1>2, PanelCalls, IndexStays DEF gitVars
<1> QED
  BY <1>3, <1>4, <1>5 DEF PubInv

LEMMA PanelOpensKeeps ==
  ASSUME PubInv, ~entangled', NEW b \in PubBranches, PanelOpensPr(b)
  PROVE  PubInv'
<1> DEFINE pr == [doc |-> NoBranch, head |-> b, state |-> "open"]
<1>1. Panel /\ UNCHANGED <<gitVars, upstream>> /\ ~entangled /\ prs' = Append(prs, pr) /\ b # MainLine
  BY DEF PanelOpensPr, MayOpen
<1>2. pr \in PrRows /\ PubFrame /\ PrsInv
  BY <1>1 DEF PrRows, PubInv
<1>3. /\ prs' \in Seq(PrRows) /\ DOMAIN prs' = DOMAIN prs \cup {Len(prs) + 1}
      /\ (\A i \in DOMAIN prs : prs'[i] = prs[i]) /\ prs'[Len(prs) + 1] = pr
  BY <1>1, <1>2, PrsGrow DEF PubFrame
<1>4. PrsInv'
  BY <1>1, <1>2, <1>3 DEF PrsInv
<1> QED
  BY <1>1, <1>3, <1>4, ListKeeps

LEMMA PrSettled ==
  ASSUME PubFrame, PrsInv, NEW i \in DOMAIN prs, NEW s \in {"open", "closed", "merged"},
         prs' = [prs EXCEPT ![i].state = s]
  PROVE  prs' \in Seq(PrRows) /\ PrsInv' /\ prs[i].head \in PubBranches \ {MainLine}
<1>1. prs \in Seq(PrRows) /\ DOMAIN prs = 1..Len(prs) /\ Len(prs) \in Nat
  BY DEF PubFrame
<1>2. prs[i] \in PrRows
  BY <1>1
<1>3. [prs[i] EXCEPT !.state = s] \in PrRows
  BY <1>2 DEF PrRows
<1>4. /\ DOMAIN prs' = DOMAIN prs
      /\ \A j \in DOMAIN prs : prs'[j] = IF j = i THEN [prs[i] EXCEPT !.state = s] ELSE prs[j]
  OBVIOUS
<1>5. prs' \in [1..Len(prs) -> PrRows]
  BY <1>1, <1>3
<1>6. prs' \in Seq(PrRows)
  BY <1>1, <1>5
<1>7. \A j \in DOMAIN prs : prs'[j].head = prs[j].head /\ prs'[j].doc = prs[j].doc
  BY <1>2, <1>4 DEF PrRows
<1> QED
  BY <1>2, <1>4, <1>6, <1>7 DEF PrsInv, PrRows

LEMMA ClosesKeeps ==
  ASSUME PubInv, ~entangled', NEW i \in DOMAIN prs, PanelClosesPr(i)
  PROVE  PubInv'
<1>1. Panel /\ UNCHANGED <<gitVars, upstream>> /\ ~entangled /\ PubFrame /\ PrsInv
  BY DEF PanelClosesPr, PubInv
<1> QED
  BY <1>1, PrSettled, ListKeeps DEF PanelClosesPr

\* The base after a merge of b: what it had and what b brought.
LEMMA BaseGrows ==
  ASSUME PubFrame, NEW b \in PubBranches
  PROVE  /\ BaseWith(b) \in BranchStates
         /\ upstream[MainLine].has \subseteq BaseWith(b).has
<1>1. MainLine \in PubBranches
  BY DEF PubBranches
<1>2. upstream[b] \in BranchStates /\ upstream[MainLine] \in BranchStates
  BY <1>1 DEF PubFrame
<1> DEFINE brought == upstream[b].has \ upstream[MainLine].has
           file == [d \in Papers |-> IF \E k \in brought : d \in k.docs
                                     THEN upstream[b].file[d] ELSE upstream[MainLine].file[d]]
<1>3. file \in TextVersions
  BY <1>2 DEF BranchStates, TextVersions
<1>4. upstream[MainLine].has \cup brought \in SUBSET Changes
  BY <1>2 DEF BranchStates
<1>5. BaseWith(b) = [has |-> upstream[MainLine].has \cup brought, file |-> file]
  BY DEF BaseWith
<1> HIDE DEF file, brought
<1> QED
  BY <1>3, <1>4, <1>5 DEF BranchStates

\* GitHub after a merge, the head kept or deleted.
LEMMA MergedBranches ==
  ASSUME PubFrame, BranchesInv, NEW b \in PubBranches \ {MainLine},
         LET merged == [upstream EXCEPT ![MainLine] = BaseWith(b)]
         IN upstream' \in {merged, [merged EXCEPT ![b] = Bare]}
  PROVE  /\ upstream' \in [PubBranches -> BranchStates]
         /\ upstream'[MainLine] = BaseWith(b)
         /\ upstream[MainLine].has \subseteq upstream'[MainLine].has
         /\ \A d \in Papers : OwnOrBase(d, upstream[d].has)' /\ upstream'[d].has \subseteq upstream[d].has
<1> DEFINE merged == [upstream EXCEPT ![MainLine] = BaseWith(b)]
<1>1. /\ MainLine \in PubBranches /\ Papers \subseteq PubBranches /\ MainLine \notin Papers
      /\ Bare \in BranchStates /\ Bare.has = {}
  BY PublishConstants DEF PubBranches, Bare, BranchStates, TextVersions
<1>2. upstream \in [PubBranches -> BranchStates]
  BY DEF PubFrame
<1>3. BaseWith(b) \in BranchStates /\ upstream[MainLine].has \subseteq BaseWith(b).has
  BY BaseGrows
<1>4. upstream' \in {merged, [merged EXCEPT ![b] = Bare]}
  OBVIOUS
<1>5. upstream' \in [PubBranches -> BranchStates] /\ upstream'[MainLine] = BaseWith(b)
  BY <1>1, <1>2, <1>3, <1>4
<1>6. \A d \in Papers : upstream'[d] \in {upstream[d], Bare}
  BY <1>1, <1>2, <1>4
<1>7. \A d \in Papers : upstream'[d].has \subseteq upstream[d].has
  BY <1>1, <1>6
<1>8. \A d \in Papers : OwnOrBase(d, upstream[d].has)'
  BY <1>3, <1>5, <1>7 DEF BranchesInv, OwnOrBase
<1> QED
  BY <1>3, <1>5, <1>7, <1>8

LEMMA MergesKeeps ==
  ASSUME PubInv, ~entangled', NEW i \in DOMAIN prs, PanelMergesPr(i)
  PROVE  PubInv'
<1> DEFINE b == prs[i].head
           merged == [upstream EXCEPT ![MainLine] = BaseWith(b)]
           onBase == Pulled(merged[MainLine])
           bare == [merged EXCEPT ![b] = Bare]
<1>1. Panel /\ prs' = [prs EXCEPT ![i].state = "merged"]
  BY DEF PanelMergesPr
<1>2. \/ upstream' = merged /\ UNCHANGED <<gitVars, entangled>>
      \/ /\ upstream' = bare /\ headBranch # b
         /\ local' = [local EXCEPT ![b] = NoBranch]
         /\ UNCHANGED <<headBranch, indexed, onDisk, entangled>>
      \/ /\ upstream' = bare /\ headBranch = b
         /\ SwitchesTo(MainLine, onBase.file)
         /\ local' = [local EXCEPT ![b] = NoBranch, ![MainLine] = onBase]
         /\ PanelMovesHead
  BY DEF PanelMergesPr
<1>3. ~entangled
  BY <1>2 DEF PanelMovesHead
<1>4. PubFrame /\ BranchesInv /\ IndexInv /\ PrsInv /\ RowsInv /\ CallsInv
  BY <1>3 DEF PubInv
<1>5. UNCHANGED <<paperRow, paperText, pubCall, pubCalls>>
  BY <1>1 DEF Panel
<1>6. prs' \in Seq(PrRows) /\ PrsInv' /\ b \in PubBranches \ {MainLine}
  BY <1>1, <1>4, PrSettled
<1>7. /\ MainLine \in PubBranches /\ Papers \subseteq PubBranches /\ MainLine \notin Papers
      /\ upstream \in [PubBranches -> BranchStates]
      /\ local \in [PubBranches -> BranchStates \cup {NoBranch}]
  BY <1>4, PublishConstants DEF PubBranches, PubFrame
<1>8. upstream' \in {merged, bare}
  BY <1>2
<1>9. /\ upstream' \in [PubBranches -> BranchStates]
      /\ upstream'[MainLine] = BaseWith(b)
      /\ upstream[MainLine].has \subseteq upstream'[MainLine].has
      /\ \A d \in Papers : OwnOrBase(d, upstream[d].has)'
  BY <1>4, <1>6, <1>8, MergedBranches
<1>10. merged[MainLine] = BaseWith(b) /\ BaseWith(b) \in BranchStates
  BY <1>4, <1>6, <1>7, BaseGrows
<1>11. onBase = BaseWith(b)
  BY <1>4, <1>9, <1>10 DEF Pulled, BranchesInv
<1> HIDE DEF b, merged, onBase, bare
<1>12. RowsInv'
  BY <1>4, <1>5 DEF RowsInv
<1>13. ASSUME \A d \in Papers : local'[d] \in {local[d], NoBranch},
              local'[MainLine] \in {local[MainLine], BaseWith(b)}
       PROVE  BranchesInv'
  <2>1. ASSUME NEW d \in Papers, local'[d] # NoBranch PROVE OwnOrBase(d, local[d].has)'
    BY <1>4, <1>9, <1>13, <2>1 DEF BranchesInv, OwnOrBase
  <2>2. local'[MainLine] # NoBranch => local'[MainLine].has \subseteq upstream'[MainLine].has
    BY <1>4, <1>9, <1>13 DEF BranchesInv
  <2> QED
    BY <1>9, <2>1, <2>2 DEF BranchesInv
<1>14. CASE upstream' = merged /\ UNCHANGED <<gitVars, entangled>>
  <2>1. PubFrame'
    BY <1>4, <1>5, <1>6, <1>9, <1>14 DEF PubFrame, gitVars
  <2>2. BranchesInv'
    BY <1>13, <1>14 DEF gitVars
  <2>3. IndexInv'
    BY <1>1, <1>3, <1>4, <1>14, PanelCalls, IndexStays DEF gitVars
  <2>4. CallsInv'
    BY <1>4, <1>5, <1>14 DEF CallsInv, gitVars
  <2> QED
    BY <1>6, <1>12, <2>1, <2>2, <2>3, <2>4 DEF PubInv
<1>15. CASE /\ upstream' = bare /\ headBranch # b
            /\ local' = [local EXCEPT ![b] = NoBranch]
            /\ UNCHANGED <<headBranch, indexed, onDisk, entangled>>
  <2>1. local'[b] = NoBranch /\ \A e \in PubBranches \ {b} : local'[e] = local[e]
    BY <1>6, <1>7, <1>15
  <2>2. local'[headBranch] = local[headBranch]
    BY <1>4, <1>15, <2>1 DEF PubFrame
  <2>3. PubFrame'
    BY <1>4, <1>5, <1>6, <1>7, <1>9, <1>15, <2>2 DEF PubFrame
  <2>4. BranchesInv'
    BY <1>6, <1>7, <1>13, <2>1
  <2>5. IndexInv'
    BY <1>1, <1>3, <1>4, <1>15, <2>2, PanelCalls, IndexStays
  <2>6. CallsInv'
    BY <1>4, <1>5, <1>15 DEF CallsInv
  <2> QED
    BY <1>6, <1>12, <2>3, <2>4, <2>5, <2>6 DEF PubInv
<1>16. CASE /\ upstream' = bare /\ headBranch = b
            /\ SwitchesTo(MainLine, onBase.file)
            /\ local' = [local EXCEPT ![b] = NoBranch, ![MainLine] = onBase]
            /\ PanelMovesHead
  <2>1. \A c \in Publishers : ~InCheckout(c)
    BY <1>16 DEF PanelMovesHead
  <2>2. \A d \in Papers : indexed[d] = local[headBranch].file[d]
    BY <1>4, <2>1, NothingIndexed DEF InCheckout
  <2>3. onBase.file \in TextVersions
    BY <1>10, <1>11 DEF BranchStates
  <2>4. headBranch' = MainLine /\ indexed' = onBase.file /\ onDisk' \in TextVersions
    BY <1>4, <1>16, <2>2, <2>3, SwitchTakes
  <2>5. /\ local'[b] = NoBranch /\ local'[MainLine] = onBase
        /\ \A e \in PubBranches \ {b, MainLine} : local'[e] = local[e]
        /\ local' \in [PubBranches -> BranchStates \cup {NoBranch}]
    BY <1>6, <1>7, <1>10, <1>11, <1>16
  <2>6. PubFrame'
    BY <1>4, <1>5, <1>6, <1>7, <1>9, <1>10, <1>11, <2>3, <2>4, <2>5 DEF PubFrame
  <2>7. BranchesInv'
    BY <1>6, <1>7, <1>11, <1>13, <2>5
  <2>8. IndexInv'
    BY <2>4, <2>5 DEF IndexInv
  <2>9. CallsInv'
    BY <1>3, <1>4, <1>5, <2>1, HeadMoves
  <2> QED
    BY <1>6, <1>12, <2>6, <2>7, <2>8, <2>9 DEF PubInv
<1> QED
  BY <1>2, <1>14, <1>15, <1>16

-----------------------------------------------------------------------------
LEMMA PubStutters == ASSUME PubInv, UNCHANGED pubVars PROVE PubInv'
<1>1. UNCHANGED <<paperRow, paperText, gitVars, ghVars, pubCall, pubCalls, entangled>>
  BY DEF pubVars, gitVars, ghVars
<1>2. CASE entangled
  BY <1>1, <1>2 DEF PubInv
<1>3. CASE ~entangled
  <2>1. PubFrame /\ RowsInv /\ CallsInv
    BY <1>3 DEF PubInv
  <2>2. /\ paperRow' \in [Papers -> PaperRows] /\ RowsInv' /\ paperText' \in TextVersions /\ pubCalls' \in Nat
        /\ pubCall' \in [Publishers -> PubCalls \cup {NoPubCall}]
    BY <1>1, <2>1 DEF PubFrame, RowsInv
  <2>3. CallsInv'
    BY <1>1, <2>1 DEF CallsInv, gitVars
  <2>4. \A c \in Publishers :
          NextIs(c, "commit") => NextIs(c, "commit")' /\ pubCall'[c].doc = pubCall[c].doc
    BY <1>1 DEF NextIs
  <2> QED
    BY <1>1, <1>3, <2>2, <2>3, <2>4, PlainStep
<1> QED
  BY <1>2, <1>3

LEMMA RequestsKeep ==
  ASSUME PubInv, ~entangled', NEW c \in Publishers, RequestSteps(c)
  PROVE  PubInv'
BY SavesKeeps, CreatesKeeps, NamesKeeps, RendersKeeps, WritesKeeps, AddsKeeps, CommitsKeeps,
   PushesKeeps, OpensKeeps, IssueKeeps DEF RequestSteps

LEMMA PanelKeeps == ASSUME PubInv, ~entangled', PanelSteps PROVE PubInv'
BY SideKeeps, ChecksOutKeeps, PanelOpensKeeps, DeletesKeeps, ClosesKeeps, MergesKeeps
   DEF PanelSteps

LEMMA PubInductive == PubInv /\ [PublishNext]_pubVars => PubInv'
<1> SUFFICES ASSUME PubInv, [PublishNext]_pubVars, ~entangled' PROVE PubInv'
  BY DEF PubInv
<1>1. ASSUME NEW c \in Publishers,
             RequestSteps(c) \/ RequestFails(c) \/ \E d \in Papers : RequestStarts(c, d)
      PROVE  PubInv'
  BY <1>1, RequestsKeep, FailsKeeps, StartsKeep
<1>2. ASSUME NEW d \in Papers, RevisesText(d) PROVE PubInv'
  BY <1>2, RevisesKeeps
<1>3. CASE PanelSteps
  BY <1>3, PanelKeeps
<1>4. CASE UNCHANGED pubVars
  BY <1>4, PubStutters
<1> QED
  BY <1>1, <1>2, <1>3, <1>4 DEF PublishNext

LEMMA PubBegins == PublishInit => PubInv
<1> SUFFICES ASSUME PublishInit PROVE PubInv
  OBVIOUS
<1> USE DEF PublishInit
<1>1. /\ MainLine \in PubBranches /\ Papers \subseteq PubBranches /\ MainLine \notin Papers
      /\ Bare \in BranchStates /\ Bare.has = {} /\ \A d \in Papers : Bare.file[d] = 0
  BY PublishConstants DEF PubBranches, Bare, BranchStates, TextVersions
<1>2. NoBranch # Bare
  <2>1. NoBranch \notin BranchStates
    BY PublishConstants DEF BranchStates, Changes, TextVersions
  <2> QED
    BY <1>1, <2>1
<1>3. /\ local[MainLine] = Bare /\ \A d \in Papers : local[d] = NoBranch /\ upstream[d] = Bare
      /\ upstream[MainLine] = Bare
  BY <1>1
<1>4. local \in [PubBranches -> BranchStates \cup {NoBranch}] /\ upstream \in [PubBranches -> BranchStates]
  BY <1>1
<1>5. PubFrame
  <2>1. paperRow \in [Papers -> PaperRows]
    BY DEF PaperRows
  <2>2. headBranch \in PubBranches /\ local[headBranch] \in BranchStates
    BY <1>1, <1>3
  <2>3. indexed \in TextVersions /\ onDisk \in TextVersions /\ paperText \in TextVersions
    BY DEF TextVersions
  <2>4. prs \in Seq(PrRows) /\ pubCalls \in Nat
    OBVIOUS
  <2>5. pubCall \in [Publishers -> PubCalls \cup {NoPubCall}]
    OBVIOUS
  <2> HIDE DEF PublishInit
  <2> QED
    BY <1>4, <2>1, <2>2, <2>3, <2>4, <2>5 DEF PubFrame
<1>6. BranchesInv
  BY <1>1, <1>3 DEF BranchesInv, OwnOrBase
<1>7. IndexInv
  BY <1>1, <1>3 DEF IndexInv
<1> QED
  BY <1>5, <1>6, <1>7 DEF PubInv, RowsInv, CallsInv, PrsInv

\* Whatever documents are published from the one checkout, and whatever the
\* panel does with it: until two requests meet there, a pull request opened
\* for a document asks to merge that document's commits. (publish,
\* create_branch, commit_document)
THEOREM PrsShowTheirDocument == PublishSpec => []PrShowsOnlyItsDocument
<1>1. PubInv => PrShowsOnlyItsDocument
  <2> SUFFICES ASSUME PubInv, ~entangled, NEW i \in DOMAIN prs, prs[i].doc # NoBranch,
                      NEW k \in upstream[prs[i].head].has \ upstream[MainLine].has
               PROVE  k.docs = {prs[i].doc}
    BY DEF PrShowsOnlyItsDocument
  <2>1. BranchesInv /\ PrsInv
    BY DEF PubInv
  <2>2. prs[i].head = prs[i].doc /\ prs[i].doc \in Papers
    BY <2>1 DEF PrsInv
  <2> QED
    BY <2>1, <2>2 DEF BranchesInv, OwnOrBase
<1> QED
  BY <1>1, PubBegins, PubInductive, PTL DEF PublishSpec



-----------------------------------------------------------------------------
(***************************************************************************)
(* The types of the sync: no log is longer than a checkout's bound.        *)
(***************************************************************************)
LogsShort ==
    /\ Len(cloud) <= MaxCommits
    /\ \A m \in Machines : CheckedOut(m) => Len(head[m]) <= MaxCommits

SyncRest ==
    /\ LogsShort
    /\ spoiled \subseteq {"unsaved", "stale", "unsent"}
    /\ syncUpsets \in 0..regime.upsets

LEMMA SameLogs == LogsShort /\ UNCHANGED <<cloud, head>> => LogsShort'
BY DEF LogsShort, CheckedOut

\* One checkout has another log.
LEMMA LogMoves ==
  ASSUME SyncFrame, LogsShort, NEW m \in Machines, cloud' = cloud, NEW log,
         head' = [head EXCEPT ![m] = log], Len(log) <= MaxCommits
  PROVE  LogsShort'
<1>1. head = [k \in Machines |-> head[k]]
  BY DEF SyncFrame
<1>2. head'[m] = log /\ \A k \in Machines \ {m} : head'[k] = head[k]
  BY <1>1
<1> QED
  BY <1>2 DEF LogsShort, CheckedOut

LEMMA CheckoutsShort ==
  ASSUME SyncFrame, LogsShort, NEW m \in Machines, cloud' = cloud, ChecksOut(m)
  PROVE  LogsShort'
<1>1. CASE UsesCheckout(m)
  BY <1>1, SameLogs DEF UsesCheckout
<1>2. CASE Clones(m)
  BY <1>2, LogMoves DEF Clones, LogsShort
<1>3. CASE InitsEmpty(m)
  <2>1. Len(<<>>) <= MaxCommits
    BY SyncBoundsAssumption
  <2> QED
    BY <1>3, <2>1, LogMoves DEF InitsEmpty
<1> QED
  BY <1>1, <1>2, <1>3 DEF ChecksOut

LEMMA PullsKeepShort ==
  ASSUME SyncFrame, SyncRest, NEW m \in Machines, regime' = regime,
         \/ PullStarts(m) \/ PullOpens(m) \/ PullForwards(m) \/ PullReads(m)
         \/ PullEnds(m) \/ \E r \in Records : PullWrites(m, r)
  PROVE  SyncRest'
<1>0. regime.upsets \in Nat /\ LogsShort
  BY SyncBoundsAssumption DEF SyncFrame, SyncRest
<1>1. syncUpsets' \in 0..regime'.upsets
  <2>1. UNCHANGED syncUpsets \/ SyncUpset
    <3>1. CASE PullOpens(m)
      BY <3>1 DEF PullOpens, ChecksOut, UsesCheckout, Clones, InitsEmpty
    <3>2. CASE PullForwards(m)
      BY <3>2 DEF PullForwards
    <3>3. CASE \E r \in Records : PullWrites(m, r)
      BY <3>3 DEF PullWrites
    <3>4. CASE PullStarts(m) \/ PullReads(m) \/ PullEnds(m)
      BY <3>4 DEF PullStarts, PullReads, PullEnds
    <3> QED
      BY <3>1, <3>2, <3>3, <3>4
  <2> QED
    BY <1>0, <2>1 DEF SyncRest, SyncUpset
<1>2. spoiled' \subseteq {"unsaved", "stale", "unsent"}
  BY DEF SyncRest, PullStarts, PullOpens, PullForwards, PullReads, PullEnds, PullWrites, SpoiledBy
<1>3. LogsShort'
  <2>1. CASE PullOpens(m)
    BY <1>0, <2>1, CheckoutsShort DEF PullOpens
  <2>2. CASE PullForwards(m)
    <3>1. cloud' = cloud /\ (head' = head \/ head' = [head EXCEPT ![m] = cloud])
      BY <2>2 DEF PullForwards
    <3> QED
      BY <1>0, <3>1, SameLogs, LogMoves DEF LogsShort
  <2>3. CASE ~PullOpens(m) /\ ~PullForwards(m)
    BY <1>0, <2>3, SameLogs DEF PullStarts, PullReads, PullEnds, PullWrites
  <2> QED
    BY <2>1, <2>2, <2>3
<1> QED
  BY <1>1, <1>2, <1>3 DEF SyncRest

LEMMA PushesKeepShort ==
  ASSUME SyncFrame, SyncRest, NEW m \in Machines, regime' = regime,
         PushStarts(m) \/ PushOpens(m) \/ PushExports(m) \/ PushCommits(m) \/ PushSends(m)
  PROVE  SyncRest'
<1>0. regime.upsets \in Nat /\ LogsShort
  BY SyncBoundsAssumption DEF SyncFrame, SyncRest
<1>1. syncUpsets' \in 0..regime'.upsets
  BY <1>0 DEF SyncRest, PushStarts, PushOpens, ChecksOut, UsesCheckout, Clones, InitsEmpty, PushExports,
              PushCommits, PushSends, SyncUpset
<1>2. spoiled' \subseteq {"unsaved", "stale", "unsent"}
  BY DEF SyncRest, PushStarts, PushOpens, PushExports, PushCommits, PushSends, SpoiledBy
<1>3. LogsShort'
  <2>1. CASE PushOpens(m)
    BY <1>0, <2>1, CheckoutsShort DEF PushOpens
  <2>2. CASE PushCommits(m)
    <3>1. CheckedOut(m) /\ head[m] \in Seq(Commits)
      BY <2>2 DEF PushCommits, SyncFrame, AtCheckout
    <3> DEFINE log == Append(head[m], [by |-> m, files |-> files[m]])
    <3>2. \/ UNCHANGED <<cloud, head>>
          \/ Len(head[m]) < MaxCommits /\ head' = [head EXCEPT ![m] = log] /\ cloud' = cloud
      BY <2>2 DEF PushCommits
    <3>3. Len(log) = Len(head[m]) + 1
      BY <3>1
    <3> HIDE DEF log
    <3>4. Len(head[m]) < MaxCommits => Len(log) <= MaxCommits
      <4>1. Len(head[m]) \in Nat /\ MaxCommits \in Nat
        BY <3>1, SyncBoundsAssumption
      <4> QED
        BY <3>3, <4>1
    <3> QED
      BY <1>0, <3>2, <3>4, SameLogs, LogMoves
  <2>3. CASE PushSends(m)
    <3>1. CheckedOut(m)
      BY <2>3 DEF PushSends, SyncFrame, AtCheckout
    <3>2. head' = head /\ (cloud' = cloud \/ cloud' = head[m])
      BY <2>3 DEF PushSends
    <3> QED
      BY <1>0, <3>1, <3>2 DEF LogsShort, CheckedOut
  <2>4. CASE PushStarts(m) \/ PushExports(m)
    BY <1>0, <2>4, SameLogs DEF PushStarts, PushExports
  <2> QED
    BY <2>1, <2>2, <2>3, <2>4
<1> QED
  BY <1>1, <1>2, <1>3 DEF SyncRest

\* They hold at first, every step keeps them, and they give the types.
LEMMA SyncTypesInductive ==
  /\ SyncInit => SyncFrame /\ SyncRest
  /\ SyncFrame /\ SyncRest /\ [SyncNext]_syncVars => SyncFrame' /\ SyncRest'
  /\ SyncFrame /\ SyncRest => SyncTypeOK
<1>1. ASSUME SyncInit PROVE SyncRest
  <2>1. regime.upsets \in Nat
    BY <1>1, SyncBoundsAssumption DEF SyncInit
  <2>2. LogsShort
    BY <1>1, SyncBoundsAssumption DEF SyncInit, LogsShort, CheckedOut
  <2> QED
    BY <1>1, <2>1, <2>2 DEF SyncInit, SyncRest
<1>2. ASSUME SyncFrame, SyncRest, [SyncNext]_syncVars PROVE SyncRest'
  <2>0. regime.upsets \in Nat /\ LogsShort
    BY <1>2, SyncBoundsAssumption DEF SyncFrame, SyncRest
  <2>1. CASE UNCHANGED syncVars
    BY <1>2, <2>0, <2>1, SameLogs DEF syncVars, SyncRest
  <2>2. ASSUME NEW m \in Machines, regime' = regime,
               \/ \E b \in BOOLEAN : Boots(m, b)
               \/ \E q \in regime.records : Edits(m, q)
               \/ \E q \in SyncRuns : LifecycleMoves(m, q)
               \/ \E n \in Machines : Leaves(m, n)
        PROVE  SyncRest'
    BY <1>2, <2>0, <2>2, SameLogs DEF Boots, Edits, LifecycleMoves, Leaves, SyncUpset, SyncRest
  <2> QED
    BY <1>2, <2>1, <2>2, PullsKeepShort, PushesKeepShort, SyncStepIs
<1>3. ASSUME SyncFrame, SyncRest PROVE SyncTypeOK
  <2>1. \A m \in Machines : pulls[m] \in SyncJob /\ pushes[m] \in SyncJob
    BY <1>3 DEF SyncFrame
  <2>2. \A m \in Machines : /\ pulls[m].at \in JobStates /\ pushes[m].at \in JobStates
                            /\ pulls[m].todo \subseteq Records
    BY <2>1 DEF SyncJob
  <2> QED
    BY <1>3, <2>2 DEF SyncFrame, SyncRest, LogsShort, SyncTypeOK, SyncStores
<1> QED
  BY <1>1, <1>2, <1>3, SyncFrameAtFirst, SyncFrameOn


-----------------------------------------------------------------------------
(***************************************************************************)
(* The types of the tree and of its viewer.                                *)
(***************************************************************************)
ViewTyped == opened = NoView \/ (opened.file \in Files /\ opened.shows \in Texts \cup {"diff", "none"})

\* They hold at first, every step keeps them, and they give the types.
LEMMA TreeTypesInductive ==
  /\ TreeInit => TreeInv /\ ViewTyped
  /\ TreeInv /\ ViewTyped /\ [TreeNext]_treeVars => TreeInv' /\ ViewTyped'
  /\ TreeInv /\ ViewTyped => TreeTypeOK
<1>1. TreeInit => ViewTyped
  BY DEF TreeInit, ViewTyped
<1>2. ASSUME TreeInv, ViewTyped, [TreeNext]_treeVars PROVE ViewTyped'
  <2>1. worked \in Snapshots
    BY <1>2 DEF TreeInv, TreeFrame
  <2>2. ASSUME NEW f \in Files, ReadFile(f) \/ Diff(f) PROVE ViewTyped'
    <3>1. worked[f] \in Texts \cup {NoFile}
      BY <2>1 DEF Snapshots
    <3>2. \E shows \in Texts \cup {"diff", "none"} : opened' = [file |-> f, shows |-> shows]
      BY <2>2, <3>1 DEF ReadFile, Diff
    <3> QED
      BY <3>2 DEF ViewTyped
  <2>3. opened' = NoView => ViewTyped'
    BY DEF ViewTyped
  <2>4. opened' = opened => ViewTyped'
    BY <1>2 DEF ViewTyped
  <2> QED
    BY <1>2, <2>2, <2>3, <2>4
       DEF treeVars, TreeNext, ListTree, LsFiles, ReadsStatus, ReadsBranch, TreeFails, EditsFile, MovesFile,
           Stages, CommitsIndexed, Lands, Touches
<1>3. ASSUME TreeInv, ViewTyped PROVE TreeTypeOK
  <2>1. tree \in Listings /\ tree.status \in StatusMaps
    BY <1>3 DEF TreeInv, TreeFrame, Listings
  <2>2. /\ DOMAIN tree.status \subseteq Files \cup Dirs
        /\ \A key \in DOMAIN tree.status : tree.status[key] \in ChangeKinds
    BY <2>1 DEF StatusMaps
  <2>3. tree.listed \subseteq Files /\ tree.differ \cup tree.same \subseteq Files
    BY <2>1 DEF Listings
  <2> QED
    BY <1>3, <2>2, <2>3 DEF TreeInv, TreeFrame, ViewTyped, TreeTypeOK
<1> QED
  BY <1>1, <1>2, <1>3, TreeBegins, TreeInductive


-----------------------------------------------------------------------------
(***************************************************************************)
(* The types of publishing, which hold whoever meets in the checkout: a    *)
(* request that opens a pull request has a branch by then, and what is     *)
(* checked out exists.                                                     *)
(***************************************************************************)
Kept == [Papers -> 0..MaxTexts]
TypedStates == [has : SUBSET Changes, file : Kept]
TypedCalls == [verb : DOMAIN Program, doc : Papers, left : Seq(PubSteps), row : PaperRows,
               text : 0..MaxTexts, n : Nat]

StepsInOrder(call) ==
    /\ call.left # <<>> /\ InOrder(call.left)
    /\ ToOpen(call.left) => call.row.branch # NoBranch

CallsTyped ==
    /\ pubCall \in [Publishers -> TypedCalls \cup {NoPubCall}]
    /\ \A c \in Publishers : pubCall[c] = NoPubCall \/ StepsInOrder(pubCall[c])

CheckoutTyped ==
    /\ headBranch \in PubBranches /\ local[headBranch] # NoBranch
    /\ local \in [PubBranches -> TypedStates \cup {NoBranch}]
    /\ indexed \in Kept /\ onDisk \in Kept

RemoteTyped == upstream \in [PubBranches -> TypedStates] /\ prs \in Seq(PrRows)

PapersTyped ==
    /\ pubDesk \in PublishDesks /\ pubCalls \in Nat
    /\ paperRow \in [Papers -> PaperRows]
    /\ paperText \in [Papers -> 1..MaxTexts]

PubTypes == PapersTyped /\ CheckoutTyped /\ RemoteTyped /\ CallsTyped

LEMMA EmptyIsTyped == Bare \in TypedStates /\ Bare # NoBranch /\ NoBranch \notin TypedStates
<1>1. Bare \in TypedStates
  BY PublishConstants DEF Bare, TypedStates, Kept
<1>2. TypedStates \subseteq BranchStates
  BY PublishConstants DEF TypedStates, BranchStates, TextVersions, Kept
<1> QED
  BY <1>1, <1>2, PublishConstants DEF BranchStates, Changes, TextVersions

LEMMA CallMovesTyped ==
  ASSUME CallsTyped, NEW c \in Publishers, NEW k, pubCall' = [pubCall EXCEPT ![c] = k],
         k = NoPubCall \/ (k \in TypedCalls /\ StepsInOrder(k))
  PROVE  CallsTyped'
BY DEF CallsTyped

LEMMA StepTyped ==
  ASSUME CallsTyped, NEW c \in Publishers, NEW s, NextIs(c, s)
  PROVE  /\ pubCall[c] \in TypedCalls /\ StepsInOrder(pubCall[c]) /\ Head(pubCall[c].left) = s
         /\ pubCall[c].left \in Seq(PubSteps) /\ pubCall[c].left # <<>> /\ InOrder(pubCall[c].left)
<1>1. pubCall[c] # NoPubCall
  BY DEF NextIs, NoPubCall
<1>2. pubCall[c] \in TypedCalls /\ StepsInOrder(pubCall[c])
  BY <1>1 DEF CallsTyped
<1>3. Head(pubCall[c].left) = s
  BY DEF NextIs
<1> QED
  BY <1>2, <1>3 DEF StepsInOrder, TypedCalls

\* What is left of a request's steps is in turn.
LEMMA RestInTurn ==
  ASSUME CallsTyped, NEW c \in Publishers, NEW s, NextIs(c, s), NEW k \in TypedCalls,
         k.left = Tail(pubCall[c].left), Tail(pubCall[c].left) # <<>>,
         k.row.branch = pubCall[c].row.branch \/ k.row.branch # NoBranch,
         s = "name" => k.row.branch # NoBranch
  PROVE  StepsInOrder(k)
<1>1. /\ pubCall[c] \in TypedCalls /\ StepsInOrder(pubCall[c]) /\ Head(pubCall[c].left) = s
      /\ pubCall[c].left \in Seq(PubSteps) /\ pubCall[c].left # <<>> /\ InOrder(pubCall[c].left)
  BY StepTyped
<1>2. /\ InOrder(Tail(pubCall[c].left))
      /\ ToOpen(Tail(pubCall[c].left)) => ToOpen(pubCall[c].left) \/ s = "name"
  BY <1>1, OrderGoesOn
<1> QED
  BY <1>1, <1>2 DEF StepsInOrder

LEMMA ProceedsTyped ==
  ASSUME CallsTyped, NEW c \in Publishers, NEW s, NextIs(c, s), s # "name", Proceeds(c)
  PROVE  CallsTyped'
<1>1. /\ pubCall[c] \in TypedCalls /\ pubCall[c].left \in Seq(PubSteps) /\ pubCall[c].left # <<>>
  BY StepTyped
<1>2. Tail(pubCall[c].left) \in Seq(PubSteps)
  BY <1>1, RestOf
<1> DEFINE k == [pubCall[c] EXCEPT !.left = Tail(pubCall[c].left)]
<1>3. k \in TypedCalls /\ k.left = Tail(pubCall[c].left) /\ k.row = pubCall[c].row
  BY <1>1, <1>2 DEF TypedCalls
<1>4. Done(c) = IF Tail(pubCall[c].left) = <<>> THEN NoPubCall ELSE k
  BY DEF Done
<1> HIDE DEF k
<1>5. Tail(pubCall[c].left) # <<>> => StepsInOrder(k)
  BY <1>3, RestInTurn
<1>6. pubCall' = [pubCall EXCEPT ![c] = Done(c)]
  BY DEF Proceeds
<1> QED
  BY <1>3, <1>4, <1>5, <1>6, CallMovesTyped

LEMMA LearnsTyped ==
  ASSUME CallsTyped, NEW c \in Publishers, NEW s \in {"name", "open", "openIssue"}, NextIs(c, s),
         NEW row \in PaperRows, Learns(c, row),
         row.branch = pubCall[c].row.branch \/ row.branch # NoBranch,
         s = "name" => row.branch # NoBranch
  PROVE  CallsTyped'
<1>1. /\ pubCall[c] \in TypedCalls /\ pubCall[c].left \in Seq(PubSteps) /\ pubCall[c].left # <<>>
      /\ InOrder(pubCall[c].left) /\ Head(pubCall[c].left) = s
  BY StepTyped
<1>2. Tail(pubCall[c].left) \in Seq(PubSteps) /\ Tail(pubCall[c].left) # <<>>
  BY <1>1, RestOf, OrderGoesOn
<1> DEFINE k == [Done(c) EXCEPT !.row = row]
<1>3. k \in TypedCalls /\ k.left = Tail(pubCall[c].left) /\ k.row = row
  BY <1>1, <1>2 DEF TypedCalls, Done
<1>4. pubCall' = [pubCall EXCEPT ![c] = k]
  BY DEF Learns
<1> HIDE DEF k
<1>5. StepsInOrder(k)
  BY <1>2, <1>3, RestInTurn
<1> QED
  BY <1>3, <1>4, <1>5, CallMovesTyped

LEMMA RefusedTyped ==
  ASSUME CallsTyped, CheckoutTyped, RemoteTyped, NEW c \in Publishers, Refused(c)
  PROVE  CallsTyped' /\ CheckoutTyped' /\ RemoteTyped'
<1>1. CallsTyped'
  BY CallMovesTyped DEF Refused
<1> QED
  BY <1>1 DEF Refused, CheckoutTyped, RemoteTyped, gitVars, ghVars

\* git switch leaves versions that were committed, added or written.
LEMMA SwitchTyped ==
  ASSUME CheckoutTyped, NEW b, NEW target \in Kept, SwitchesTo(b, target)
  PROVE  headBranch' = b /\ indexed' \in Kept /\ onDisk' \in Kept
BY DEF CheckoutTyped, SwitchesTo, Kept

LEMMA StartsTyped ==
  ASSUME PubTypes, NEW c \in Publishers, NEW d \in Papers, RequestStarts(c, d)
  PROVE  PubTypes'
<1>1. PapersTyped /\ CheckoutTyped /\ RemoteTyped /\ CallsTyped /\ paperRow[d] \in PaperRows
  BY DEF PubTypes, PapersTyped
<1>2. ASSUME NEW verb \in DOMAIN Program, NEW row \in PaperRows, Begins(c, verb, d, row)
      PROVE  PubTypes'
  <2> DEFINE k == [verb |-> verb, doc |-> d, left |-> Program[verb], row |-> row, text |-> 0,
                   n |-> pubCalls + 1]
  <2>1. k \in TypedCalls /\ StepsInOrder(k)
    BY <1>1, <1>2, ProgramsInOrder, PublishConstants DEF TypedCalls, StepsInOrder, Begins, MayBegin, PapersTyped
  <2>2. /\ pubCall' = [pubCall EXCEPT ![c] = k] /\ pubCalls' = pubCalls + 1
        /\ UNCHANGED <<pubDesk, paperRow, paperText, gitVars, ghVars>>
    BY <1>2 DEF Begins
  <2> HIDE DEF k
  <2>3. CallsTyped'
    BY <1>1, <2>1, <2>2, CallMovesTyped
  <2> QED
    BY <1>1, <2>2, <2>3 DEF PubTypes, PapersTyped, CheckoutTyped, RemoteTyped, gitVars, ghVars
<1>3. CASE EditsPaper(c, d)
  BY <1>1, <1>2, <1>3, ProgramsAre DEF EditsPaper
<1>4. CASE StartsOther(c, d)
  BY <1>1, <1>2, <1>4 DEF StartsOther
<1>5. ASSUME NEW base \in {MainLine, NoBranch}, SetsRepo(c, d, base) PROVE PubTypes'
  <2>1. [paperRow[d] EXCEPT !.base = base] \in PaperRows
    BY <1>1 DEF PaperRows
  <2> QED
    BY <1>2, <1>5, <2>1, ProgramsAre DEF SetsRepo
<1> QED
  BY <1>3, <1>4, <1>5 DEF RequestStarts

\* The steps that write a row, a text or a file.
LEMMA RowStepsTyped ==
  ASSUME PubTypes, NEW c \in Publishers,
         \/ SavesRow(c) \/ NamesBranch(c) \/ OpensIssue(c) \/ Renders(c)
         \/ WritesFile(c) \/ AddsFile(c)
  PROVE  PubTypes'
<1>1. PapersTyped /\ CheckoutTyped /\ RemoteTyped /\ CallsTyped
  BY DEF PubTypes
<1>2. CASE SavesRow(c)
  <2>1. CallsTyped' /\ pubCall[c].row \in PaperRows
    BY <1>1, <1>2, ProceedsTyped, StepTyped DEF SavesRow, TypedCalls
  <2> QED
    BY <1>1, <1>2, <2>1
       DEF SavesRow, PubTypes, PapersTyped, CheckoutTyped, RemoteTyped, gitVars, ghVars, Bounds
<1>3. CASE NamesBranch(c)
  <2> DEFINE row == [pubCall[c].row EXCEPT !.branch = headBranch]
  <2>1. pubCall[c].row \in PaperRows /\ headBranch \in PubBranches /\ headBranch # NoBranch
    <3>1. pubCall[c].row \in PaperRows
      BY <1>1, <1>3, StepTyped DEF NamesBranch, TypedCalls
    <3> QED
      BY <1>1, <3>1, PublishConstants DEF CheckoutTyped, PubBranches
  <2>2. row \in PaperRows /\ row.branch # NoBranch
    BY <2>1 DEF PaperRows
  <2>3. CallsTyped'
    BY <1>1, <1>3, <2>2, LearnsTyped DEF NamesBranch
  <2> QED
    BY <1>1, <1>3, <2>3
       DEF NamesBranch, PubTypes, PapersTyped, CheckoutTyped, RemoteTyped, gitVars, ghVars, Bounds
<1>4. CASE OpensIssue(c)
  <2> DEFINE row == [pubCall[c].row EXCEPT !.issue = TRUE]
  <2>1. pubCall[c].row \in PaperRows
    BY <1>1, <1>4, StepTyped DEF OpensIssue, TypedCalls
  <2>2. row \in PaperRows /\ row.branch = pubCall[c].row.branch
    BY <2>1 DEF PaperRows
  <2>3. CallsTyped'
    BY <1>1, <1>4, <2>2, LearnsTyped DEF OpensIssue
  <2> QED
    BY <1>1, <1>4, <2>3
       DEF OpensIssue, PubTypes, PapersTyped, CheckoutTyped, RemoteTyped, gitVars, ghVars, Bounds
<1>5. CASE Renders(c)
  <2> DEFINE k == [Done(c) EXCEPT !.text = paperText[pubCall[c].doc]]
  <2>1. /\ pubCall[c] \in TypedCalls /\ pubCall[c].left # <<>> /\ Head(pubCall[c].left) = "render"
        /\ pubCall[c].left \in Seq(PubSteps) /\ InOrder(pubCall[c].left)
    BY <1>1, <1>5, StepTyped DEF Renders
  <2>2. Tail(pubCall[c].left) \in Seq(PubSteps) /\ Tail(pubCall[c].left) # <<>>
    BY <2>1, RestOf, OrderGoesOn
  <2>3. paperText[pubCall[c].doc] \in 0..MaxTexts
    BY <1>1, <2>1, PublishConstants DEF PapersTyped, TypedCalls
  <2>4. k \in TypedCalls /\ k.left = Tail(pubCall[c].left) /\ k.row = pubCall[c].row
    BY <2>1, <2>2, <2>3 DEF TypedCalls, Done
  <2>5. pubCall' = [pubCall EXCEPT ![c] = k] /\ NextIs(c, "render")
    BY <1>5 DEF Renders
  <2> HIDE DEF k
  <2>6. StepsInOrder(k)
    BY <1>1, <2>2, <2>4, <2>5, RestInTurn
  <2>7. CallsTyped'
    BY <1>1, <2>4, <2>5, <2>6, CallMovesTyped
  <2> QED
    BY <1>1, <1>5, <2>7
       DEF Renders, PubTypes, PapersTyped, CheckoutTyped, RemoteTyped, gitVars, ghVars, Bounds
<1>6. CASE WritesFile(c)
  <2>1. CallsTyped' /\ pubCall[c].text \in 0..MaxTexts
    BY <1>1, <1>6, ProceedsTyped, StepTyped DEF WritesFile, TypedCalls
  <2>2. onDisk' \in Kept
    BY <1>1, <1>6, <2>1 DEF WritesFile, CheckoutTyped, Kept
  <2> QED
    BY <1>1, <1>6, <2>1, <2>2
       DEF WritesFile, PubTypes, PapersTyped, CheckoutTyped, RemoteTyped, ghVars, Bounds
<1>7. CASE AddsFile(c)
  <2>1. CallsTyped' /\ pubCall[c].doc \in Papers
    BY <1>1, <1>7, ProceedsTyped, StepTyped DEF AddsFile, TypedCalls
  <2>2. indexed' \in Kept
    BY <1>1, <1>7, <2>1 DEF AddsFile, CheckoutTyped, Kept
  <2> QED
    BY <1>1, <1>7, <2>1, <2>2
       DEF AddsFile, PubTypes, PapersTyped, CheckoutTyped, RemoteTyped, ghVars, Bounds
<1> QED
  BY <1>2, <1>3, <1>4, <1>5, <1>6, <1>7

\* Those that make a branch, commit, push and open a pull request.
LEMMA GitStepsTyped ==
  ASSUME PubTypes, NEW c \in Publishers,
         CreatesBranch(c) \/ CommitsIndex(c) \/ PushesPaper(c) \/ OpensPr(c)
  PROVE  PubTypes'
<1>1. PapersTyped /\ CheckoutTyped /\ RemoteTyped /\ CallsTyped
  BY DEF PubTypes
<1>2. PapersTyped'
  BY <1>1 DEF CreatesBranch, CommitsIndex, PushesPaper, OpensPr, PapersTyped, Bounds
<1>3. CASE Refused(c)
  BY <1>1, <1>2, <1>3, RefusedTyped DEF PubTypes
<1>4. CASE CreatesBranch(c) /\ ~Refused(c)
  <2> DEFINE b == pubCall[c].doc
             from == StartPoint(c)
  <2>1. /\ NextIs(c, "switch") /\ Proceeds(c) /\ MakesBranch(b, from) /\ UNCHANGED ghVars
        /\ local[from] # NoBranch
    BY <1>4 DEF CreatesBranch, MakesBranch, CanMake
  <2>2. CallsTyped' /\ b \in Papers /\ pubCall[c].row.base \in {MainLine, NoBranch}
    BY <1>1, <2>1, ProceedsTyped, StepTyped DEF TypedCalls, PaperRows
  <2>3. from \in PubBranches /\ b \in PubBranches
    BY <1>1, <2>2 DEF StartPoint, PubBranches, CheckoutTyped
  <2> HIDE DEF b, from
  <2>4. local[from] \in TypedStates /\ local[from].file \in Kept
    BY <1>1, <2>1, <2>3 DEF CheckoutTyped, TypedStates
  <2>5. headBranch' = b /\ indexed' \in Kept /\ onDisk' \in Kept
    BY <1>1, <2>1, <2>4, SwitchTyped DEF MakesBranch, PapersAt
  <2>6. local' = [local EXCEPT ![b] = local[from]]
    BY <2>1 DEF MakesBranch
  <2>7. CheckoutTyped'
    BY <1>1, <2>1, <2>3, <2>4, <2>5, <2>6 DEF CheckoutTyped
  <2> QED
    BY <1>1, <1>2, <2>1, <2>2, <2>7 DEF PubTypes, RemoteTyped, ghVars
<1>5. CASE CommitsIndex(c) /\ ~Refused(c)
  <2> DEFINE docs == {d \in Papers : indexed[d] # PapersAt(headBranch)[d]}
             state == [has |-> local[headBranch].has \cup {[n |-> pubCall[c].n, docs |-> docs]},
                       file |-> indexed]
  <2>1. /\ NextIs(c, "commit") /\ Proceeds(c) /\ local' = [local EXCEPT ![headBranch] = state]
        /\ UNCHANGED <<headBranch, indexed, onDisk, ghVars>>
    BY <1>5 DEF CommitsIndex
  <2>2. CallsTyped' /\ pubCall[c].n \in Nat
    BY <1>1, <2>1, ProceedsTyped, StepTyped DEF TypedCalls
  <2>3. state \in TypedStates
    <3>1. local[headBranch] \in TypedStates
      BY <1>1 DEF CheckoutTyped
    <3> QED
      BY <1>1, <2>2, <3>1 DEF TypedStates, Changes, CheckoutTyped
  <2> HIDE DEF state
  <2>4. CheckoutTyped'
    BY <1>1, <2>1, <2>3, EmptyIsTyped DEF CheckoutTyped
  <2> QED
    BY <1>1, <1>2, <2>1, <2>2, <2>4 DEF PubTypes, RemoteTyped, ghVars
<1>6. CASE PushesPaper(c) /\ ~Refused(c)
  <2> DEFINE b == Pushed(c)
  <2>1. /\ NextIs(c, "push") /\ Proceeds(c) /\ UNCHANGED <<gitVars, prs>>
        /\ local[b] # NoBranch /\ upstream' = [upstream EXCEPT ![b] = local[b]]
    BY <1>6 DEF PushesPaper
  <2>2. CallsTyped' /\ pubCall[c].row \in PaperRows
    BY <1>1, <2>1, ProceedsTyped, StepTyped DEF TypedCalls
  <2>3. b \in PubBranches
    BY <1>1, <2>2 DEF Pushed, PaperRows, CheckoutTyped
  <2> HIDE DEF b
  <2>4. local[b] \in TypedStates
    BY <1>1, <2>1, <2>3 DEF CheckoutTyped
  <2> QED
    BY <1>1, <1>2, <2>1, <2>2, <2>4 DEF PubTypes, RemoteTyped, CheckoutTyped, gitVars
<1>7. CASE OpensPr(c) /\ ~Refused(c)
  <2> DEFINE b == pubCall[c].row.branch
             pr == [doc |-> pubCall[c].doc, head |-> b, state |-> "open"]
             row == [pubCall[c].row EXCEPT !.pr = Len(prs')]
  <2>1. /\ NextIs(c, "open") /\ prs' = Append(prs, pr) /\ Learns(c, row)
        /\ UNCHANGED <<gitVars, upstream>>
    BY <1>7 DEF OpensPr
  <2>2. /\ pubCall[c] \in TypedCalls /\ StepsInOrder(pubCall[c]) /\ Head(pubCall[c].left) = "open"
        /\ pubCall[c].left \in Seq(PubSteps) /\ pubCall[c].left # <<>> /\ InOrder(pubCall[c].left)
    BY <1>1, <2>1, StepTyped
  <2>3. b # NoBranch /\ pubCall[c].row \in PaperRows /\ pubCall[c].doc \in Papers
    BY <2>2, OrderGoesOn DEF StepsInOrder, TypedCalls
  <2>4. b \in PubBranches
    BY <2>3 DEF PaperRows
  <2>5. pr \in PrRows
    BY <2>3, <2>4 DEF PrRows
  <2> HIDE DEF pr
  <2>6. prs' \in Seq(PrRows) /\ Len(prs') \in Nat
    BY <1>1, <2>1, <2>5 DEF RemoteTyped
  <2>7. row \in PaperRows /\ row.branch = b
    BY <2>3, <2>6 DEF PaperRows
  <2>8. CallsTyped'
    BY <1>1, <2>1, <2>7, LearnsTyped
  <2> QED
    BY <1>1, <1>2, <2>1, <2>6, <2>8 DEF PubTypes, RemoteTyped, CheckoutTyped, gitVars
<1> QED
  BY <1>3, <1>4, <1>5, <1>6, <1>7

\* The panel's own moves in the checkout and on GitHub.
LEMMA PanelStepsTyped ==
  ASSUME PubTypes, PanelSteps
  PROVE  PubTypes'
<1>1. PapersTyped /\ CheckoutTyped /\ RemoteTyped /\ CallsTyped
  BY DEF PubTypes
<1>2. MainLine \in PubBranches /\ Side \in PubBranches
  BY DEF PubBranches
<1>3. ASSUME Panel PROVE PapersTyped' /\ CallsTyped'
  BY <1>1, <1>3 DEF Panel, PapersTyped, CallsTyped
<1>4. ASSUME NEW b \in PubBranches, PanelCreatesBranch(b) PROVE PubTypes'
  <2>1. /\ Panel /\ local[b] # NoBranch /\ SwitchesTo(Side, PapersAt(b))
        /\ local' = [local EXCEPT ![Side] = local[b]] /\ UNCHANGED ghVars
    BY <1>4 DEF PanelCreatesBranch, MakesBranch, CanMake
  <2>2. local[b] \in TypedStates /\ PapersAt(b) \in Kept
    BY <1>1, <2>1 DEF CheckoutTyped, TypedStates, PapersAt
  <2>3. headBranch' = Side /\ indexed' \in Kept /\ onDisk' \in Kept
    BY <1>1, <2>1, <2>2, SwitchTyped
  <2>4. CheckoutTyped'
    BY <1>1, <1>2, <2>1, <2>2, <2>3 DEF CheckoutTyped
  <2> QED
    BY <1>1, <1>3, <2>1, <2>4 DEF PubTypes, RemoteTyped, ghVars
<1>5. ASSUME NEW b \in PubBranches, PanelChecksOut(b) PROVE PubTypes'
  <2>1. /\ Panel /\ local[b] # NoBranch /\ SwitchesTo(b, PapersAt(b)) /\ UNCHANGED <<local, ghVars>>
    BY <1>5 DEF PanelChecksOut
  <2>2. PapersAt(b) \in Kept
    BY <1>1, <2>1 DEF CheckoutTyped, TypedStates, PapersAt
  <2>3. headBranch' = b /\ indexed' \in Kept /\ onDisk' \in Kept
    BY <1>1, <2>1, <2>2, SwitchTyped
  <2> QED
    BY <1>1, <1>3, <2>1, <2>3 DEF PubTypes, RemoteTyped, CheckoutTyped, ghVars
<1>6. ASSUME NEW b \in PubBranches, NEW force \in BOOLEAN, PanelDeletesBranch(b, force) PROVE PubTypes'
  <2>1. /\ Panel /\ b # headBranch /\ local' = [local EXCEPT ![b] = NoBranch]
        /\ UNCHANGED <<headBranch, indexed, onDisk, ghVars>>
    BY <1>6 DEF PanelDeletesBranch
  <2> QED
    BY <1>1, <1>3, <2>1 DEF PubTypes, RemoteTyped, CheckoutTyped, ghVars
<1>7. ASSUME NEW b \in PubBranches, PanelOpensPr(b) PROVE PubTypes'
  <2> DEFINE pr == [doc |-> NoBranch, head |-> b, state |-> "open"]
  <2>1. Panel /\ prs' = Append(prs, pr) /\ UNCHANGED <<gitVars, upstream>>
    BY <1>7 DEF PanelOpensPr
  <2>2. pr \in PrRows
    BY DEF PrRows
  <2> HIDE DEF pr
  <2> QED
    BY <1>1, <1>3, <2>1, <2>2 DEF PubTypes, RemoteTyped, CheckoutTyped, gitVars
<1>8. ASSUME NEW i \in DOMAIN prs
      PROVE  /\ prs[i] \in PrRows /\ prs[i].head \in PubBranches
             /\ \A s \in {"closed", "merged"} : [prs EXCEPT ![i].state = s] \in Seq(PrRows)
  <2>1. prs[i] \in PrRows /\ prs[i].head \in PubBranches
    <3>1. prs[i] \in PrRows
      BY <1>1, <1>8 DEF RemoteTyped
    <3> QED
      BY <3>1 DEF PrRows
  <2>2. ASSUME NEW s \in {"closed", "merged"} PROVE [prs EXCEPT ![i].state = s] \in Seq(PrRows)
    <3> DEFINE r == [prs[i] EXCEPT !.state = s]
    <3>1. r \in PrRows
      BY <2>1, <2>2 DEF PrRows
    <3> HIDE DEF r
    <3>2. [prs EXCEPT ![i] = r] \in Seq(PrRows)
      BY <1>1, <1>8, <3>1 DEF RemoteTyped
    <3> QED
      BY <3>2 DEF r
  <2> QED
    BY <2>1, <2>2
<1>9. ASSUME NEW i \in DOMAIN prs, PanelClosesPr(i) PROVE PubTypes'
  <2>1. Panel /\ prs' = [prs EXCEPT ![i].state = "closed"] /\ UNCHANGED <<gitVars, upstream>>
    BY <1>9 DEF PanelClosesPr
  <2> QED
    BY <1>1, <1>3, <1>8, <2>1 DEF PubTypes, RemoteTyped, CheckoutTyped, gitVars
<1>10. ASSUME NEW i \in DOMAIN prs, PanelMergesPr(i) PROVE PubTypes'
  <2> DEFINE b == prs[i].head
             merged == [upstream EXCEPT ![MainLine] = BaseWith(b)]
             onBase == Pulled(merged[MainLine])
  <2>1. Panel /\ prs' = [prs EXCEPT ![i].state = "merged"]
    BY <1>10 DEF PanelMergesPr
  <2>2. b \in PubBranches
    BY <1>8
  <2>3. prs' \in Seq(PrRows) /\ PapersTyped' /\ CallsTyped'
    BY <1>3, <1>8, <2>1
  <2>4. \/ upstream' = merged /\ UNCHANGED gitVars
        \/ /\ upstream' = [merged EXCEPT ![b] = Bare] /\ headBranch # b
           /\ local' = [local EXCEPT ![b] = NoBranch] /\ UNCHANGED <<headBranch, indexed, onDisk>>
        \/ /\ upstream' = [merged EXCEPT ![b] = Bare]
           /\ SwitchesTo(MainLine, onBase.file)
           /\ local' = [local EXCEPT ![b] = NoBranch, ![MainLine] = onBase]
    BY <1>10 DEF PanelMergesPr
  <2> HIDE DEF b
  <2>5. BaseWith(b) \in TypedStates
    <3>1. upstream[b] \in TypedStates /\ upstream[MainLine] \in TypedStates
      BY <1>1, <1>2, <2>2 DEF RemoteTyped
    <3> QED
      BY <3>1 DEF BaseWith, TypedStates, Kept
  <2>6. merged \in [PubBranches -> TypedStates] /\ merged[MainLine] \in TypedStates
    BY <1>1, <1>2, <2>5 DEF RemoteTyped
  <2> HIDE DEF merged
  <2>7. onBase \in TypedStates
    BY <1>1, <1>2, <2>6 DEF Pulled, CheckoutTyped
  <2>8. onBase # NoBranch /\ onBase.file \in Kept
    BY <2>7, EmptyIsTyped DEF TypedStates
  <2> HIDE DEF onBase
  <2>9. upstream' \in [PubBranches -> TypedStates]
    BY <2>4, <2>6, EmptyIsTyped
  <2>10. CheckoutTyped'
    <3>1. CASE UNCHANGED gitVars
      BY <1>1, <3>1 DEF CheckoutTyped, gitVars
    <3>2. CASE /\ headBranch # b /\ local' = [local EXCEPT ![b] = NoBranch]
               /\ UNCHANGED <<headBranch, indexed, onDisk>>
      BY <1>1, <3>2 DEF CheckoutTyped
    <3>3. CASE /\ SwitchesTo(MainLine, onBase.file)
               /\ local' = [local EXCEPT ![b] = NoBranch, ![MainLine] = onBase]
      <4>1. headBranch' = MainLine /\ indexed' \in Kept /\ onDisk' \in Kept
        BY <1>1, <2>8, <3>3, SwitchTyped
      <4>2. local' \in [PubBranches -> TypedStates \cup {NoBranch}] /\ local'[MainLine] = onBase
        BY <1>1, <1>2, <2>2, <2>7, <3>3 DEF CheckoutTyped
      <4> QED
        BY <1>2, <2>8, <4>1, <4>2 DEF CheckoutTyped
    <3> QED
      BY <2>4, <3>1, <3>2, <3>3
  <2> QED
    BY <2>3, <2>9, <2>10 DEF PubTypes, RemoteTyped
<1> QED
  BY <1>4, <1>5, <1>6, <1>7, <1>9, <1>10 DEF PanelSteps

\* They hold at first, every step keeps them, and they give the types.
LEMMA PubTypesInductive ==
  /\ PublishInit => PubTypes
  /\ PubTypes /\ [PublishNext]_pubVars => PubTypes'
  /\ PubTypes => PublishTypeOK
<1>1. ASSUME PublishInit PROVE PubTypes
  <2>1. PapersTyped
    BY <1>1, PublishConstants DEF PublishInit, PapersTyped, PaperRows
  <2>2. CheckoutTyped
    BY <1>1, EmptyIsTyped, PublishConstants DEF PublishInit, CheckoutTyped, PubBranches, Kept
  <2>3. RemoteTyped
    BY <1>1, EmptyIsTyped DEF PublishInit, RemoteTyped
  <2>4. CallsTyped
    BY <1>1 DEF PublishInit, CallsTyped
  <2> QED
    BY <2>1, <2>2, <2>3, <2>4 DEF PubTypes
<1>2. ASSUME PubTypes, [PublishNext]_pubVars PROVE PubTypes'
  <2>0. PapersTyped /\ CheckoutTyped /\ RemoteTyped /\ CallsTyped
    BY <1>2 DEF PubTypes
  <2>1. CASE UNCHANGED pubVars
    BY <2>0, <2>1 DEF pubVars, PubTypes, PapersTyped, CheckoutTyped, RemoteTyped, CallsTyped
  <2>2. ASSUME NEW c \in Publishers, RequestSteps(c) PROVE PubTypes'
    BY <1>2, <2>2, RowStepsTyped, GitStepsTyped DEF RequestSteps
  <2>3. ASSUME NEW c \in Publishers, RequestFails(c) PROVE PubTypes'
    <3>1. CallsTyped'
      BY <2>0, <2>3, CallMovesTyped DEF RequestFails
    <3> QED
      BY <2>0, <2>3, <3>1
         DEF RequestFails, PubTypes, PapersTyped, CheckoutTyped, RemoteTyped, gitVars, ghVars
  <2>4. ASSUME NEW d \in Papers, RevisesText(d) PROVE PubTypes'
    <3>1. paperText' \in [Papers -> 1..MaxTexts]
      BY <2>0, <2>4, PublishConstants DEF RevisesText, PapersTyped
    <3> QED
      BY <2>0, <2>4, <3>1
         DEF RevisesText, PubTypes, PapersTyped, CheckoutTyped, RemoteTyped, CallsTyped, gitVars, ghVars,
             Bounds
  <2> QED
    BY <1>2, <2>1, <2>2, <2>3, <2>4, StartsTyped, PanelStepsTyped DEF PublishNext
<1>3. ASSUME PubTypes PROVE PublishTypeOK
  <2>1. \A i \in DOMAIN prs : prs[i] \in PrRows
    BY <1>3 DEF PubTypes, RemoteTyped
  <2>2. \A c \in Publishers : pubCall[c] # NoPubCall => pubCall[c] \in TypedCalls
    BY <1>3 DEF PubTypes, CallsTyped
  <2> QED
    BY <1>3, <2>1, <2>2
       DEF PubTypes, PapersTyped, CheckoutTyped, Kept, PrRows, TypedCalls, PublishTypeOK
<1> QED
  BY <1>1, <1>2, <1>3
-----------------------------------------------------------------------------
(***************************************************************************)
(* The document: what is deleted, made anew and uploaded.                  *)
(***************************************************************************)
BookVerbs == {"none", "create", "delete", "addPage", "updatePage", "deletePage",
              "addReference", "removeReference", "addLink", "addFile", "removeSource",
              "upload", "deleteAsset"}
BookPhases == {"none", "write", "list", "pages", "select", "find", "attach", "unlink",
               "source", "row", "look", "insert", "put", "bytes"}
BookCalls == [verb : BookVerbs, at : BookPhases, id : Ids \cup {NoRow}, seen : SUBSET PageIds,
              made : Nat, scope : Scopes, lone : BOOLEAN]

BookFrame ==
    /\ bookCall \in [Clients -> BookCalls]
    /\ pageRow \in [PageIds -> {"unused", "held", "gone"}]
    /\ pageOf \in [PageIds -> Nat] /\ bookMade \in Nat
    /\ assetRow \in Scopes \cup {NoRow}
    /\ \A c \in Clients :
          bookCall[c].verb \in {"addPage", "updatePage", "deletePage"} => bookCall[c].id \in PageIds

Holds(p) == pageRow[p] = "held"

\* While a deletion drops pages, those there are in its list or came in since;
\* when the row is gone, only the latter are left.
PagesSafe ==
    /\ MadeAnewIsEmpty
    /\ ~bookHeld => \A p \in PageIds : Holds(p) => p \in strays
    /\ \A c \in Clients : OnBook(c, "delete", "pages") =>
          \A p \in PageIds : Holds(p) => p \in bookCall[c].seen \cup strays

\* Nothing answered is being deleted, and an upload that nobody's deletion
\* meets writes its bytes beside its row.
FileSafe ==
    /\ UploadedIsServed /\ served \subseteq Scopes
    /\ DeletingFile => served = {} /\ \A c \in Clients : ~bookCall[c].lone
    /\ \A c \in Clients : bookCall[c].lone /\ bookCall[c].at = "put" => assetRow = bookCall[c].scope

BookInv == BookFrame /\ PagesSafe /\ FileSafe

\* One request moves on; the others stay where they are.
CallIs(c, r) ==
    /\ bookCall' \in [Clients -> BookCalls] /\ bookCall'[c] = r
    /\ \A d \in Clients \ {c} : bookCall'[d] = bookCall[d]

\* A step of a request writes its call, within the types.
LEMMA CallSteps ==
  ASSUME BookFrame, NEW c \in Clients
  PROVE  /\ bookCall[c] \in BookCalls /\ NoBookCall \in BookCalls
         /\ Answers(c) => CallIs(c, NoBookCall)
         /\ \A p \in BookPhases : Goes(c, p) => CallIs(c, [bookCall[c] EXCEPT !.at = p])
<1>1. bookCall \in [Clients -> BookCalls] /\ bookCall[c] \in BookCalls
  BY DEF BookFrame
<1>2. NoBookCall \in BookCalls
  BY BookConstants DEF NoBookCall, BookCalls, BookVerbs, BookPhases, Ids
<1>3. ASSUME NEW p \in BookPhases PROVE [bookCall[c] EXCEPT !.at = p] \in BookCalls
  BY <1>1 DEF BookCalls
<1> QED
  BY <1>1, <1>2, <1>3 DEF Answers, Goes, CallIs

\* A call that goes on keeps what it is about.
LEMMA CallGoes ==
  ASSUME NEW r \in BookCalls, NEW p \in BookPhases
  PROVE  LET s == [r EXCEPT !.at = p] IN
         /\ s.at = p /\ s.verb = r.verb /\ s.id = r.id /\ s.seen = r.seen
         /\ s.scope = r.scope /\ s.lone = r.lone
BY DEF BookCalls

\* What a step that writes no page and lists none leaves safe.
LEMMA PagesQuiet ==
  ASSUME PagesSafe, UNCHANGED pageVars,
         \A c \in Clients : OnBook(c, "delete", "pages")' =>
             OnBook(c, "delete", "pages") /\ bookCall'[c].seen = bookCall[c].seen
  PROVE  PagesSafe'
BY DEF PagesSafe, MadeAnewIsEmpty, pageVars, Holds

\* And one that drops pages and inserts none.
LEMMA PagesFewer ==
  ASSUME PagesSafe, UNCHANGED <<bookHeld, bookMade, pageOf, strays>>,
         \A c \in Clients : OnBook(c, "delete", "pages")' =>
             OnBook(c, "delete", "pages")
             /\ \A p \in bookCall[c].seen : p \in bookCall'[c].seen \/ ~Holds(p)',
         \A p \in PageIds : Holds(p)' => Holds(p)
  PROVE  PagesSafe'
BY DEF PagesSafe, MadeAnewIsEmpty, Holds

\* What a step that touches no file leaves safe.
LEMMA FileQuiet ==
  ASSUME FileSafe, UNCHANGED fileVars,
         \A c \in Clients :
             /\ bookCall'[c].verb = "deleteAsset" => bookCall[c].verb = "deleteAsset"
             /\ bookCall'[c].lone => bookCall[c].lone \/ ~DeletingFile
             /\ bookCall'[c].lone /\ bookCall'[c].at = "put" =>
                  bookCall[c].lone /\ bookCall[c].at = "put" /\ bookCall'[c].scope = bookCall[c].scope
  PROVE  FileSafe'
<1>1. DeletingFile' => DeletingFile
  BY DEF DeletingFile
<1> QED
  BY <1>1 DEF FileSafe, UploadedIsServed, fileVars

\* A request that begins is none of the deletions' steps. (require_document and
\* the handlers' first lines)
LEMMA AskingKeeps ==
  ASSUME BookInv, NEW c \in Clients, NEW verb \in BookVerbs \ {"deleteAsset"},
         NEW at \in BookPhases \ {"pages", "put"}, NEW id \in Ids \cup {NoRow}, NEW scope \in Scopes,
         verb \in {"addPage", "updatePage", "deletePage"} => id \in PageIds,
         Asks(c, verb, at, id, scope)
  PROVE  BookInv'
<1> DEFINE r == [verb |-> verb, at |-> at, id |-> id, seen |-> {}, made |-> bookMade,
                 scope |-> scope, lone |-> ~DeletingFile]
<1>1. /\ bookCall' = [bookCall EXCEPT ![c] = r] /\ UNCHANGED <<pageVars, fileVars>>
      /\ BookFrame /\ PagesSafe /\ FileSafe
  BY DEF Asks, BookInv
<1>2. r \in BookCalls
  BY <1>1 DEF BookCalls, BookFrame
<1>3. /\ r.verb = verb /\ r.at = at /\ r.id = id /\ (r.lone <=> ~DeletingFile)
  OBVIOUS
<1> HIDE DEF r
<1>4. CallIs(c, r)
  BY <1>1, <1>2 DEF CallIs, BookFrame
<1>5. BookFrame'
  BY <1>1, <1>3, <1>4 DEF BookFrame, CallIs, pageVars, fileVars
<1>6. PagesSafe'
  BY <1>1, <1>3, <1>4, PagesQuiet DEF CallIs, OnBook
<1>7. FileSafe'
  BY <1>1, <1>3, <1>4, FileQuiet DEF CallIs
<1> QED
  BY <1>5, <1>6, <1>7 DEF BookInv

\* A step of a request that writes no page, or a link or a source only.
LEMMA LinksKeep ==
  ASSUME BookInv, NEW c \in Clients,
         \/ SelectsPage(c) \/ InsertsSource(c) \/ DropsSource(c)
         \/ FindsLink(c) \/ Attaches(c) \/ Detaches(c)
  PROVE  BookInv'
<1>1. /\ UNCHANGED <<pageVars, fileVars>> /\ BookFrame /\ PagesSafe /\ FileSafe
      /\ Answers(c) \/ \E at \in {"write", "find", "attach", "unlink"} : Goes(c, at)
  BY DEF SelectsPage, InsertsSource, DropsSource, FindsLink, Attaches, Detaches, OnPages, OnLinks,
         BookInv, linkVars, fileVars, pageVars
<1>2. \E r \in BookCalls :
         /\ CallIs(c, r) /\ r.at \notin {"pages", "put"}
         /\ r.lone => bookCall[c].lone
         /\ r.verb = "none" \/ (r.verb = bookCall[c].verb /\ r.id = bookCall[c].id)
  <2>1. CASE Answers(c)
    BY <1>1, <2>1, CallSteps DEF NoBookCall
  <2>2. ASSUME NEW at \in {"write", "find", "attach", "unlink"}, Goes(c, at)
        PROVE  \E r \in BookCalls :
                  /\ CallIs(c, r) /\ r.at \notin {"pages", "put"}
                  /\ r.lone => bookCall[c].lone
                  /\ r.verb = "none" \/ (r.verb = bookCall[c].verb /\ r.id = bookCall[c].id)
    <3> DEFINE s == [bookCall[c] EXCEPT !.at = at]
    <3>1. at \in BookPhases
      BY DEF BookPhases
    <3>2. CallIs(c, s) /\ bookCall[c] \in BookCalls
      BY <1>1, <2>2, <3>1, CallSteps
    <3>3. s.at = at /\ s.verb = bookCall[c].verb /\ s.id = bookCall[c].id /\ s.lone = bookCall[c].lone
      BY <3>1, <3>2, CallGoes
    <3> HIDE DEF s
    <3>4. s \in BookCalls
      BY <3>2 DEF CallIs
    <3> QED
      BY <3>2, <3>3, <3>4
  <2> QED
    BY <1>1, <2>1, <2>2
<1>3. PICK r \in BookCalls :
         /\ CallIs(c, r) /\ r.at \notin {"pages", "put"}
         /\ r.lone => bookCall[c].lone
         /\ r.verb = "none" \/ (r.verb = bookCall[c].verb /\ r.id = bookCall[c].id)
  BY <1>2
<1>4. BookFrame'
  BY <1>1, <1>3 DEF BookFrame, CallIs, pageVars, fileVars
<1>5. PagesSafe'
  BY <1>1, <1>3, PagesQuiet DEF CallIs, OnBook
<1>6. FileSafe'
  BY <1>1, <1>3, FileQuiet DEF CallIs
<1> QED
  BY <1>4, <1>5, <1>6 DEF BookInv

\* A request that ends, answered or failed, with the store as it may be left.
LEMMA AnswersFrame ==
  ASSUME BookFrame, NEW c \in Clients, Answers(c), UNCHANGED fileVars, FileSafe,
         pageRow' \in [PageIds -> {"unused", "held", "gone"}],
         pageOf' \in [PageIds -> Nat], bookMade' \in Nat
  PROVE  /\ BookFrame' /\ FileSafe'
         /\ \A d \in Clients : OnBook(d, "delete", "pages")' =>
               OnBook(d, "delete", "pages") /\ bookCall'[d].seen = bookCall[d].seen /\ d # c
<1>1. CallIs(c, NoBookCall)
  BY CallSteps
<1>2. NoBookCall.verb = "none" /\ NoBookCall.at = "none" /\ ~NoBookCall.lone
  BY DEF NoBookCall
<1>3. BookFrame'
  BY <1>1, <1>2 DEF BookFrame, CallIs, fileVars
<1>4. FileSafe'
  BY <1>1, <1>2, FileQuiet DEF CallIs
<1> QED
  BY <1>1, <1>2, <1>3, <1>4 DEF CallIs, OnBook

\* The steps of a document and its pages. (create_document, delete_document,
\* add_page, update_page, delete_page)
LEMMA PagesKeep ==
  ASSUME BookInv, NEW c \in Clients,
         \/ CreatesDocument(c) \/ ListsPages(c) \/ DropsDocument(c)
         \/ \E p \in PageIds : DropsPage(c, p)
         \/ InsertsPage(c) \/ UpdatesPage(c) \/ DeletesPage(c)
  PROVE  BookInv'
<1>1. BookFrame /\ PagesSafe /\ FileSafe
  BY DEF BookInv
<1>2. /\ bookCall[c] \in BookCalls
      /\ pageRow \in [PageIds -> {"unused", "held", "gone"}]
      /\ pageOf \in [PageIds -> Nat] /\ bookMade \in Nat
  BY <1>1 DEF BookFrame
<1>3. CASE CreatesDocument(c)
  <2>1. /\ bookHeld' = TRUE /\ bookMade' = IF bookHeld THEN bookMade ELSE bookMade + 1
        /\ Answers(c) /\ UNCHANGED <<fileVars, pageRow, pageOf, strays>>
    BY <1>3 DEF CreatesDocument, OnPages
  <2>2. BookFrame' /\ FileSafe' /\ \A d \in Clients : OnBook(d, "delete", "pages")' =>
               OnBook(d, "delete", "pages") /\ bookCall'[d].seen = bookCall[d].seen /\ d # c
    BY <1>1, <1>2, <2>1, AnswersFrame
  <2>3. PagesSafe'
    BY <1>1, <2>1, <2>2 DEF PagesSafe, MadeAnewIsEmpty, Holds
  <2> QED
    BY <2>2, <2>3 DEF BookInv
<1>4. CASE ListsPages(c)
  <2> DEFINE r == [bookCall[c] EXCEPT !.at = "pages", !.seen = {p \in PageIds : pageRow[p] = "held"}]
  <2>1. bookCall' = [bookCall EXCEPT ![c] = r] /\ UNCHANGED <<pageVars, fileVars>>
    BY <1>4 DEF ListsPages, OnPages
  <2>2. /\ r \in BookCalls /\ r.verb = bookCall[c].verb /\ r.id = bookCall[c].id
        /\ r.lone = bookCall[c].lone /\ r.at = "pages"
        /\ r.seen = {p \in PageIds : pageRow[p] = "held"}
    BY <1>2 DEF BookCalls, BookPhases
  <2> HIDE DEF r
  <2>3. CallIs(c, r)
    BY <1>1, <2>1, <2>2 DEF CallIs, BookFrame
  <2>4. BookFrame'
    BY <1>1, <2>1, <2>2, <2>3 DEF BookFrame, CallIs, pageVars, fileVars
  <2>5. FileSafe'
    BY <1>1, <2>1, <2>2, <2>3, FileQuiet DEF CallIs
  <2>6. PagesSafe'
    BY <1>1, <2>1, <2>2, <2>3 DEF PagesSafe, MadeAnewIsEmpty, pageVars, Holds, CallIs, OnBook
  <2> QED
    BY <2>4, <2>5, <2>6 DEF BookInv
<1>5. CASE DropsDocument(c)
  <2>1. /\ bookHeld' = FALSE /\ Answers(c) /\ UNCHANGED <<fileVars, pageRow, bookMade, pageOf, strays>>
        /\ OnBook(c, "delete", "pages") /\ bookCall[c].seen = {}
    BY <1>5 DEF DropsDocument, OnPages, RowGoesLast
  <2>2. BookFrame' /\ FileSafe' /\ \A d \in Clients : OnBook(d, "delete", "pages")' =>
               OnBook(d, "delete", "pages") /\ bookCall'[d].seen = bookCall[d].seen /\ d # c
    BY <1>1, <1>2, <2>1, AnswersFrame
  <2>3. PagesSafe'
    BY <1>1, <2>1, <2>2 DEF PagesSafe, MadeAnewIsEmpty, Holds
  <2> QED
    BY <2>2, <2>3 DEF BookInv
<1>6. ASSUME NEW p \in PageIds, DropsPage(c, p) PROVE BookInv'
  <2> DEFINE r == [bookCall[c] EXCEPT !.seen = bookCall[c].seen \ {p}]
  <2>1. /\ bookCall' = [bookCall EXCEPT ![c] = r] /\ UNCHANGED <<fileVars, bookHeld, bookMade, pageOf, strays>>
        /\ pageRow' = [pageRow EXCEPT ![p] = "gone"]
        /\ OnBook(c, "delete", "pages")
    BY <1>6 DEF DropsPage, OnPages
  <2>2. /\ r \in BookCalls /\ r.verb = bookCall[c].verb /\ r.id = bookCall[c].id
        /\ r.lone = bookCall[c].lone /\ r.at = bookCall[c].at
        /\ r.seen = bookCall[c].seen \ {p} /\ r.scope = bookCall[c].scope
    BY <1>2 DEF BookCalls
  <2> HIDE DEF r
  <2>3. CallIs(c, r)
    BY <1>1, <2>1, <2>2 DEF CallIs, BookFrame
  <2>4. BookFrame'
    BY <1>1, <2>1, <2>2, <2>3 DEF BookFrame, CallIs, fileVars
  <2>5. FileSafe'
    BY <1>1, <2>1, <2>2, <2>3, FileQuiet DEF CallIs
  <2>6. PagesSafe'
    BY <1>1, <1>2, <2>1, <2>2, <2>3, PagesFewer DEF CallIs, OnBook, Holds
  <2> QED
    BY <2>4, <2>5, <2>6 DEF BookInv
<1>7. CASE InsertsPage(c)
  <2> DEFINE p == bookCall[c].id
  <2>1. /\ Answers(c) /\ UNCHANGED <<fileVars, bookHeld, bookMade>> /\ p \in PageIds
        /\ pageRow' = [pageRow EXCEPT ![p] = "held"]
        /\ pageOf' = [pageOf EXCEPT ![p] = bookCall[c].made]
        /\ strays' = IF DeletionUnderWay \/ ~bookHeld \/ bookMade # bookCall[c].made
                     THEN strays \cup {p} ELSE strays
    BY <1>1, <1>7 DEF InsertsPage, OnPages, OnBook, BookFrame
  <2>2. bookCall[c].made \in Nat
    BY <1>2 DEF BookCalls
  <2> HIDE DEF p
  <2>3. BookFrame' /\ FileSafe' /\ \A d \in Clients : OnBook(d, "delete", "pages")' =>
               OnBook(d, "delete", "pages") /\ bookCall'[d].seen = bookCall[d].seen /\ d # c
    BY <1>1, <1>2, <2>1, <2>2, AnswersFrame
  <2>4. /\ \A q \in PageIds \ {p} : pageRow'[q] = pageRow[q] /\ pageOf'[q] = pageOf[q]
        /\ strays \subseteq strays'
        /\ p \in strays' \/ (~DeletionUnderWay /\ bookHeld /\ pageOf'[p] = bookMade)
    BY <1>2, <2>1
  <2>5. PagesSafe'
    BY <1>1, <2>1, <2>3, <2>4 DEF PagesSafe, MadeAnewIsEmpty, Holds, DeletionUnderWay
  <2> QED
    BY <2>3, <2>5 DEF BookInv
<1>8. CASE UpdatesPage(c) \/ DeletesPage(c)
  <2>1. /\ Answers(c) /\ UNCHANGED <<fileVars, bookHeld, bookMade, pageOf, strays>>
        /\ pageRow' \in [PageIds -> {"unused", "held", "gone"}]
        /\ \A p \in PageIds : Holds(p)' => Holds(p)
    BY <1>1, <1>2, <1>8 DEF UpdatesPage, DeletesPage, Updated, OnPages, Holds
  <2>2. BookFrame' /\ FileSafe' /\ \A d \in Clients : OnBook(d, "delete", "pages")' =>
               OnBook(d, "delete", "pages") /\ bookCall'[d].seen = bookCall[d].seen /\ d # c
    BY <1>1, <1>2, <2>1, AnswersFrame
  <2>3. PagesSafe'
    BY <1>1, <2>1, <2>2, PagesFewer
  <2> QED
    BY <2>2, <2>3 DEF BookInv
<1> QED
  BY <1>3, <1>4, <1>5, <1>6, <1>7, <1>8

\* What a step of an upload or a deletion leaves of the pages.
LEMMA FileStepsFrame ==
  ASSUME BookInv, NEW c \in Clients, UNCHANGED pageVars, assetRow' \in Scopes \cup {NoRow},
         NEW r, CallIs(c, r), r.at # "pages",
         r.verb = "none" \/ (r.verb = bookCall[c].verb /\ r.id = bookCall[c].id)
  PROVE  BookFrame' /\ PagesSafe'
<1>1. BookFrame'
  BY DEF BookInv, BookFrame, CallIs, pageVars
<1>2. PagesSafe'
  BY PagesQuiet DEF BookInv, CallIs, OnBook
<1> QED
  BY <1>1, <1>2

\* An upload looks, inserts its row and puts its bytes. (create_asset)
LEMMA UploadsKeep ==
  ASSUME BookInv, NEW c \in Clients, LooksUpAsset(c) \/ InsertsAsset(c) \/ PutsBytes(c)
  PROVE  BookInv'
<1> DEFINE row == bookCall[c]
<1>1. /\ BookFrame /\ PagesSafe /\ FileSafe /\ row \in BookCalls /\ assetRow \in Scopes \cup {NoRow}
      /\ row.scope \in Scopes /\ row.verb \in BookVerbs
  BY CallSteps DEF BookInv, BookFrame, BookCalls
<1>2. UNCHANGED pageVars /\ assetRow' \in Scopes \cup {NoRow}
  BY <1>1 DEF LooksUpAsset, InsertsAsset, PutsBytes, OnFiles
<1>3. \A p \in {"put", "insert", "source"} : p \in BookPhases
  BY DEF BookPhases
<1>4. ASSUME NEW p \in {"put", "insert", "source"}, Goes(c, p)
      PROVE  /\ BookFrame' /\ PagesSafe' /\ bookCall'[c].at = p /\ bookCall'[c].verb = row.verb
             /\ bookCall'[c].lone = row.lone /\ bookCall'[c].scope = row.scope
             /\ \A d \in Clients \ {c} : bookCall'[d] = bookCall[d]
  <2> DEFINE s == [row EXCEPT !.at = p]
  <2>1. CallIs(c, s)
    BY <1>1, <1>3, <1>4, CallSteps
  <2>2. s.at = p /\ s.verb = row.verb /\ s.id = row.id /\ s.lone = row.lone /\ s.scope = row.scope
    BY <1>1, <1>3, CallGoes
  <2> HIDE DEF s
  <2>3. BookFrame' /\ PagesSafe'
    BY <1>2, <2>1, <2>2, FileStepsFrame
  <2> QED
    BY <2>1, <2>2, <2>3 DEF CallIs
<1>5. ASSUME Answers(c)
      PROVE  /\ BookFrame' /\ PagesSafe' /\ bookCall'[c] = NoBookCall
             /\ \A d \in Clients \ {c} : bookCall'[d] = bookCall[d]
  <2>1. CallIs(c, NoBookCall) /\ NoBookCall.at # "pages" /\ NoBookCall.verb = "none"
    BY <1>1, <1>5, CallSteps DEF NoBookCall
  <2>2. BookFrame' /\ PagesSafe'
    BY <1>2, <2>1, FileStepsFrame
  <2> QED
    BY <2>1, <2>2 DEF CallIs
<1>6. NoBookCall.verb = "none" /\ NoBookCall.at = "none" /\ ~NoBookCall.lone
  BY DEF NoBookCall
<1>7. CASE LooksUpAsset(c)
  <2>1. /\ UNCHANGED fileVars
        /\ Goes(c, "insert") \/ (Goes(c, "put") /\ assetRow = row.scope)
    BY <1>7 DEF LooksUpAsset, AfterFound, fileVars
  <2>2. CASE Goes(c, "insert")
    BY <1>1, <1>4, <2>1, <2>2, FileQuiet DEF BookInv
  <2>3. CASE Goes(c, "put") /\ assetRow = row.scope
    <3>1. FileSafe'
      BY <1>1, <1>4, <2>1, <2>3 DEF FileSafe, UploadedIsServed, fileVars, DeletingFile
    <3> QED
      BY <1>4, <2>3, <3>1 DEF BookInv
  <2> QED
    BY <2>1, <2>2, <2>3
<1>8. CASE InsertsAsset(c)
  <2>1. /\ UNCHANGED <<blobs, served>>
        /\ \/ assetRow = NoRow /\ assetRow' = row.scope /\ Goes(c, "put")
           \/ Answers(c) /\ assetRow' = assetRow
    BY <1>8 DEF InsertsAsset, OnFiles
  <2>2. CASE assetRow = NoRow /\ assetRow' = row.scope /\ Goes(c, "put")
    <3>1. \A d \in Clients : bookCall[d].scope \in Scopes
      BY <1>1 DEF BookFrame, BookCalls
    <3>2. served = {} /\ served' = {}
      BY <1>1, <2>1, <2>2, BookConstants DEF FileSafe, UploadedIsServed
    <3>3. \A d \in Clients \ {c} : ~(bookCall[d].lone /\ bookCall[d].at = "put")
      BY <1>1, <2>2, <3>1, BookConstants DEF FileSafe
    <3>4. DeletingFile' => DeletingFile
      BY <1>4, <2>2 DEF DeletingFile
    <3>5. FileSafe'
      BY <1>1, <1>4, <2>2, <3>2, <3>3, <3>4 DEF FileSafe, UploadedIsServed
    <3> QED
      BY <1>4, <2>2, <3>5 DEF BookInv
  <2>3. CASE Answers(c) /\ assetRow' = assetRow
    BY <1>1, <1>5, <1>6, <2>1, <2>3, FileQuiet DEF BookInv, fileVars
  <2> QED
    BY <2>1, <2>2, <2>3
<1>9. CASE PutsBytes(c)
  <2>1. /\ row.at = "put" /\ assetRow' = assetRow /\ blobs' = blobs \cup {row.scope}
        /\ served' = IF row.lone THEN served \cup {row.scope} ELSE served
        /\ Goes(c, "source") \/ Answers(c)
    BY <1>9 DEF PutsBytes, OnFiles
  <2>2. /\ \A d \in Clients \ {c} : bookCall'[d] = bookCall[d]
        /\ bookCall'[c].verb = row.verb \/ bookCall'[c].verb = "none"
        /\ bookCall'[c].lone => row.lone
        /\ bookCall'[c].at # "put" /\ BookFrame' /\ PagesSafe'
    BY <1>4, <1>5, <1>6, <2>1
  <2>3. row.lone => assetRow = row.scope /\ ~DeletingFile
    BY <1>1, <2>1 DEF FileSafe
  <2>4. DeletingFile' => DeletingFile
    BY <2>2 DEF DeletingFile
  <2>5. FileSafe'
    BY <1>1, <2>1, <2>2, <2>3, <2>4 DEF FileSafe, UploadedIsServed
  <2> QED
    BY <2>2, <2>5 DEF BookInv
<1> QED
  BY <1>7, <1>8, <1>9

\* A deletion of the file takes its row, then its bytes. (delete_asset)
LEMMA DeletionKeeps ==
  ASSUME BookInv, NEW c \in Clients, AsksDeleteAsset(c) \/ DropsAsset(c) \/ DropsBytes(c)
  PROVE  BookInv'
<1> DEFINE row == bookCall[c]
<1>1. /\ BookFrame /\ PagesSafe /\ FileSafe /\ row \in BookCalls /\ assetRow \in Scopes \cup {NoRow}
      /\ bookCall \in [Clients -> BookCalls]
  BY CallSteps DEF BookInv, BookFrame
<1>2. CASE AsksDeleteAsset(c)
  <2> DEFINE r == [NoBookCall EXCEPT !.verb = "deleteAsset", !.at = "row", !.scope = assetRow]
             Alike(d) == [bookCall[d] EXCEPT !.lone = FALSE]
  <2>1. /\ bookCall' = [d \in Clients |-> IF d = c THEN r ELSE Alike(d)]
        /\ served' = {} /\ UNCHANGED <<pageVars, assetRow, blobs>> /\ assetRow \in Scopes
    BY <1>1, <1>2 DEF AsksDeleteAsset
  <2>2. /\ r \in BookCalls /\ ~r.lone /\ r.at = "row" /\ r.verb = "deleteAsset"
    BY <2>1, BookConstants DEF BookCalls, BookVerbs, BookPhases, NoBookCall, Ids
  <2>3. \A d \in Clients : /\ Alike(d) \in BookCalls /\ ~Alike(d).lone
                           /\ Alike(d).verb = bookCall[d].verb /\ Alike(d).at = bookCall[d].at
                           /\ Alike(d).seen = bookCall[d].seen /\ Alike(d).id = bookCall[d].id
    BY <1>1 DEF BookCalls
  <2> HIDE DEF r, Alike
  <2>4. /\ bookCall' \in [Clients -> BookCalls] /\ bookCall'[c] = r
        /\ \A d \in Clients \ {c} : bookCall'[d] = Alike(d)
    BY <2>1, <2>2, <2>3
  <2>5. BookFrame'
    BY <1>1, <2>1, <2>2, <2>3, <2>4 DEF BookFrame, pageVars
  <2>6. PagesSafe'
    BY <1>1, <2>1, <2>2, <2>3, <2>4, PagesQuiet DEF OnBook
  <2>7. FileSafe'
    BY <1>1, <2>1, <2>2, <2>3, <2>4 DEF FileSafe, UploadedIsServed
  <2> QED
    BY <2>5, <2>6, <2>7 DEF BookInv
<1>3. CASE DropsAsset(c) \/ DropsBytes(c)
  <2>1. /\ row.verb = "deleteAsset" /\ UNCHANGED pageVars /\ served' = served
        /\ assetRow' \in Scopes \cup {NoRow}
        /\ Goes(c, "bytes") \/ Answers(c)
    BY <1>1, <1>3 DEF DropsAsset, DropsBytes, OnBook, OnFiles
  <2>2. \E r \in BookCalls : /\ CallIs(c, r) /\ r.at # "pages" /\ (r.lone => row.lone)
                             /\ r.verb = "none" \/ (r.verb = row.verb /\ r.id = row.id)
    <3>1. CASE Answers(c)
      BY <1>1, <3>1, CallSteps DEF NoBookCall
    <3>2. CASE Goes(c, "bytes")
      <4> DEFINE s == [row EXCEPT !.at = "bytes"]
      <4>1. CallIs(c, s) /\ "bytes" \in BookPhases
        BY <1>1, <3>2, CallSteps DEF BookPhases
      <4>2. s.at = "bytes" /\ s.verb = row.verb /\ s.id = row.id /\ s.lone = row.lone
        BY <1>1, <4>1, CallGoes
      <4> HIDE DEF s
      <4>3. s \in BookCalls
        BY <4>1 DEF CallIs
      <4> QED
        BY <4>1, <4>2, <4>3
    <3> QED
      BY <2>1, <3>1, <3>2
  <2>3. PICK r \in BookCalls : /\ CallIs(c, r) /\ r.at # "pages" /\ (r.lone => row.lone)
                               /\ r.verb = "none" \/ (r.verb = row.verb /\ r.id = row.id)
    BY <2>2
  <2>4. BookFrame' /\ PagesSafe'
    BY <2>1, <2>3, FileStepsFrame
  <2>5. DeletingFile /\ served = {} /\ \A d \in Clients : ~bookCall[d].lone
    BY <1>1, <2>1 DEF DeletingFile, FileSafe
  <2>6. FileSafe'
    BY <2>1, <2>3, <2>5 DEF FileSafe, UploadedIsServed, CallIs
  <2> QED
    BY <2>4, <2>6 DEF BookInv
<1> QED
  BY <1>2, <1>3

\* A request dies, or all of them do.
LEMMA MishapsKeep ==
  ASSUME BookInv, BookDies \/ \E c \in Clients : Fails(c)
  PROVE  BookInv'
<1>1. BookFrame /\ PagesSafe /\ FileSafe
  BY DEF BookInv
<1>2. ASSUME NEW c \in Clients, Fails(c) PROVE BookInv'
  <2>1. Answers(c) /\ UNCHANGED <<pageVars, fileVars>>
    BY <1>2 DEF Fails
  <2>2. BookFrame' /\ FileSafe' /\ \A d \in Clients : OnBook(d, "delete", "pages")' =>
               OnBook(d, "delete", "pages") /\ bookCall'[d].seen = bookCall[d].seen /\ d # c
    BY <1>1, <2>1, AnswersFrame DEF BookFrame, pageVars
  <2>3. PagesSafe'
    BY <1>1, <2>1, <2>2, PagesQuiet
  <2> QED
    BY <2>2, <2>3 DEF BookInv
<1>3. CASE BookDies
  <2>1. /\ bookCall' = [c \in Clients |-> NoBookCall] /\ UNCHANGED <<pageVars, fileVars>>
        /\ Clients # {}
    BY <1>3 DEF BookDies
  <2>2. /\ NoBookCall \in BookCalls /\ NoBookCall.verb = "none" /\ NoBookCall.at = "none"
        /\ ~NoBookCall.lone
    BY <1>1, <2>1, CallSteps DEF NoBookCall
  <2>3. bookCall' \in [Clients -> BookCalls] /\ \A c \in Clients : bookCall'[c] = NoBookCall
    BY <2>1, <2>2
  <2>4. BookFrame'
    BY <1>1, <2>1, <2>2, <2>3 DEF BookFrame, pageVars, fileVars
  <2>5. PagesSafe'
    BY <1>1, <2>1, <2>2, <2>3, PagesQuiet DEF OnBook
  <2>6. FileSafe'
    BY <1>1, <2>1, <2>2, <2>3, FileQuiet
  <2> QED
    BY <2>4, <2>5, <2>6 DEF BookInv
<1> QED
  BY <1>2, <1>3

\* What the requests ask for, and with which id.
LEMMA VerbsKeep ==
  ASSUME BookInv, NEW c \in Clients,
         DocumentVerbs(c) \/ PageVerbs(c) \/ SourceVerbs(c) \/ FileVerbs(c)
  PROVE  BookInv'
<1>1. Global \in Scopes /\ NoRow \in Ids \cup {NoRow}
  BY BookConstants
<1>2. CASE DocumentVerbs(c)
  <2>1. CASE AsksCreate(c)
    BY <1>1, <2>1, AskingKeeps DEF AsksCreate, BookVerbs, BookPhases
  <2>2. CASE Asks(c, "delete", "list", NoRow, Global)
    BY <1>1, <2>2, AskingKeeps DEF BookVerbs, BookPhases
  <2>3. ASSUME NEW r \in References, AsksAddReference(c, r) PROVE BookInv'
    BY <1>1, <2>3, AskingKeeps DEF AsksAddReference, AsksOfBook, BookVerbs, BookPhases, Ids
  <2>4. ASSUME NEW r \in References, AsksRemoveReference(c, r) PROVE BookInv'
    BY <1>1, <2>4, AskingKeeps DEF AsksRemoveReference, AsksOfBook, BookVerbs, BookPhases, Ids
  <2> QED
    BY <1>2, <2>1, <2>2, <2>3, <2>4 DEF DocumentVerbs
<1>3. CASE PageVerbs(c)
  <2>1. ASSUME NEW p \in PageIds, AsksAddPage(c, p) PROVE BookInv'
    BY <1>1, <2>1, AskingKeeps DEF AsksAddPage, AsksOfBook, BookVerbs, BookPhases, Ids
  <2>2. ASSUME NEW p \in PageIds, AsksUpdatePage(c, p) PROVE BookInv'
    BY <1>1, <2>2, AskingKeeps DEF AsksUpdatePage, AsksOfBook, BookVerbs, BookPhases, Ids
  <2>3. ASSUME NEW p \in PageIds, AsksDeletePage(c, p) PROVE BookInv'
    BY <1>1, <2>3, AskingKeeps DEF AsksDeletePage, AsksOfBook, BookVerbs, BookPhases, Ids
  <2> QED
    BY <1>3, <2>1, <2>2, <2>3 DEF PageVerbs
<1>4. CASE SourceVerbs(c)
  <2>1. ASSUME NEW s \in SourceIds, AsksAddLink(c, s) PROVE BookInv'
    BY <1>1, <2>1, AskingKeeps DEF AsksAddLink, AsksOfBook, BookVerbs, BookPhases, Ids
  <2>2. ASSUME NEW s \in SourceIds, AsksAddFile(c, s) PROVE BookInv'
    BY <1>1, <2>2, AskingKeeps DEF AsksAddFile, AsksOfBook, BookVerbs, BookPhases, Ids
  <2>3. ASSUME NEW s \in SourceIds, AsksRemoveSource(c, s) PROVE BookInv'
    BY <1>1, <2>3, AskingKeeps DEF AsksRemoveSource, AsksOfBook, BookVerbs, BookPhases, Ids
  <2> QED
    BY <1>4, <2>1, <2>2, <2>3 DEF SourceVerbs
<1>5. CASE FileVerbs(c)
  <2>1. ASSUME NEW scope \in Scopes, AsksUpload(c, scope) PROVE BookInv'
    BY <1>1, <2>1, AskingKeeps DEF AsksUpload, BookVerbs, BookPhases
  <2> QED
    BY <1>5, <2>1, DeletionKeeps DEF FileVerbs
<1> QED
  BY <1>2, <1>3, <1>4, <1>5

\* Every step keeps the document and its file as they should be.
LEMMA BookKept == BookInv /\ [BookNext]_bookVars => BookInv'
<1> SUFFICES ASSUME BookInv, [BookNext]_bookVars PROVE BookInv'
  OBVIOUS
<1>1. CASE UNCHANGED bookVars
  <2>1. UNCHANGED <<bookHeld, pageRow, assetRow, blobs, bookCall, bookMade, pageOf, strays, served>>
    BY <1>1 DEF bookVars
  <2> QED
    BY <2>1 DEF BookInv, BookFrame, PagesSafe, FileSafe, MadeAnewIsEmpty, UploadedIsServed,
                Holds, OnBook, DeletingFile
<1>2. CASE BookNext
  BY <1>2, VerbsKeep, PagesKeep, LinksKeep, UploadsKeep, DeletionKeeps, MishapsKeep
     DEF BookNext, ContentStore, AssetStore, BlobStore
<1> QED
  BY <1>1, <1>2

\* A new document has no page and no call is under way.
LEMMA BookAtFirst == BookInit => BookInv
<1> SUFFICES ASSUME BookInit PROVE BookInv
  OBVIOUS
<1>1. /\ NoBookCall \in BookCalls /\ NoBookCall.verb = "none" /\ NoBookCall.at = "none"
      /\ ~NoBookCall.lone
  BY BookConstants DEF NoBookCall, BookCalls, BookVerbs, BookPhases, Ids
<1>2. bookCall \in [Clients -> BookCalls] /\ \A c \in Clients : bookCall[c] = NoBookCall
  BY <1>1 DEF BookInit
<1>3. BookFrame
  BY <1>1, <1>2 DEF BookInit, BookFrame
<1>4. PagesSafe
  BY <1>1, <1>2 DEF BookInit, PagesSafe, MadeAnewIsEmpty, OnBook, Holds
<1>5. FileSafe
  BY <1>1, <1>2 DEF BookInit, FileSafe, UploadedIsServed
<1> QED
  BY <1>3, <1>4, <1>5 DEF BookInv

\* A document made anew under an id that was used before has no page of the
\* old one, but those added while its deletion ran. (delete_document)
THEOREM AnewIsEmpty == BookSpec => []MadeAnewIsEmpty
<1>1. BookInv => MadeAnewIsEmpty
  BY DEF BookInv, PagesSafe
<1> QED
  BY <1>1, BookAtFirst, BookKept, PTL DEF BookSpec

\* An upload that was answered has row and bytes until somebody asks for its
\* deletion. (create_asset, delete_asset)
THEOREM AnsweredUploadsAreServed == BookSpec => []UploadedIsServed
<1>1. BookInv => UploadedIsServed
  BY DEF BookInv, FileSafe
<1> QED
  BY <1>1, BookAtFirst, BookKept, PTL DEF BookSpec

-----------------------------------------------------------------------------
(***************************************************************************)
(* The catalogue: what was answered holds.                                 *)
(***************************************************************************)
ShelfVerbs == {"none", "create", "update", "delete", "attach", "detach", "edit", "put", "file",
               "resolve"}
CurationRows == [kind : Kinds \cup {"none"}, verb : ShelfVerbs,
                 at : {"none", "require", "select", "write"}, n : Nat, found : BOOLEAN]

ShelfFrame ==
    /\ curation \in [Requesters -> CurationRows] /\ curations \in Nat
    /\ \A c \in Requesters : curation[c].at # "none" => Of(c) \in Kinds
    /\ entry \in [Kinds -> Nat \cup {Bundled, NoEntry}]
    /\ settled \in [Kinds -> Nat \cup {Bundled, NoEntry, Unsettled}]

\* A record known by its version has nobody at work on it; one known to be
\* gone has nobody who would make it, but for an agent that is being edited.
Recorded(kind) ==
    /\ settled[kind] \notin {NoEntry, Unsettled} =>
          entry[kind] = settled[kind] /\ \A d \in Requesters : Of(d) # kind
    /\ settled[kind] = NoEntry =>
          /\ kind # "agent" => entry[kind] = NoEntry
          /\ \A d \in Requesters : Of(d) = kind => ~Makes(curation[d].verb)

\* Nobody is served while the daemon seeds.
SeedsAlone == toSeed # {} => \A c \in Requesters : curation[c] = NoCuration

ShelfInv == ShelfFrame /\ SeedsAlone /\ \A kind \in Kinds : Recorded(kind)

\* The request that a step works on, before and after.
CurationIs(c, r) ==
    /\ curation' \in [Requesters -> CurationRows] /\ curation'[c] = r
    /\ \A d \in Requesters \ {c} : curation'[d] = curation[d]

\* An idle request is about nothing.
LEMMA IdleCuration ==
  /\ NoCuration \in CurationRows /\ NoCuration.kind = "none" /\ NoCuration.verb = "none"
  /\ NoCuration.at = "none" /\ "none" \notin Kinds
BY DEF NoCuration, CurationRows, ShelfVerbs, Kinds

\* A request goes on, is answered or dies, and writes nothing.
LEMMA CurationMoves ==
  ASSUME ShelfInv, NEW c \in Requesters, NEW r, CurationIs(c, r),
         r = NoCuration \/ (r.kind = Of(c) /\ Of(c) \in Kinds /\ r.verb = curation[c].verb /\ toSeed = {}),
         UNCHANGED <<entry, settled, toSeed>>, curations' \in Nat
  PROVE  ShelfInv'
<1>1. ShelfFrame' /\ SeedsAlone'
  BY IdleCuration DEF ShelfInv, ShelfFrame, SeedsAlone, CurationIs, Of
<1>2. ASSUME NEW kind \in Kinds PROVE Recorded(kind)'
  BY <1>2, IdleCuration DEF ShelfInv, Recorded, CurationIs, Of, Makes
<1> QED
  BY <1>1, <1>2 DEF ShelfInv

\* A request writes its record and is answered.
LEMMA CurationWrites ==
  ASSUME ShelfInv, NEW c \in Requesters, Of(c) \in Kinds,
         NEW v \in Nat \cup {Bundled, NoEntry}, NEW k \in Nat \cup {Bundled, NoEntry, Unsettled},
         Writes(c, v, k), toSeed = {},
         k \notin {NoEntry, Unsettled} => v = k /\ Others(c) = {},
         k = NoEntry => (Of(c) # "agent" => v = NoEntry) /\ Makers(c) = {}
  PROVE  ShelfInv'
<1>1. /\ entry' = [entry EXCEPT ![Of(c)] = v] /\ settled' = [settled EXCEPT ![Of(c)] = k]
      /\ curation' = [curation EXCEPT ![c] = NoCuration] /\ toSeed' = toSeed /\ curations' = curations
      /\ ShelfFrame
  BY DEF Writes, Ends, ShelfInv
<1>2. CurationIs(c, NoCuration)
  BY <1>1, IdleCuration DEF CurationIs, ShelfFrame
<1>3. ShelfFrame' /\ SeedsAlone'
  BY <1>1, <1>2, IdleCuration DEF ShelfFrame, CurationIs, SeedsAlone, Of
<1>4. /\ entry'[Of(c)] = v /\ settled'[Of(c)] = k
      /\ \A kind \in Kinds \ {Of(c)} : entry'[kind] = entry[kind] /\ settled'[kind] = settled[kind]
  BY <1>1 DEF ShelfFrame
<1>5. ASSUME NEW kind \in Kinds, kind # Of(c) PROVE Recorded(kind)'
  BY <1>2, <1>4, <1>5, IdleCuration DEF ShelfInv, Recorded, CurationIs, Of, Makes
<1>6. \A d \in Requesters : /\ Of(d)' = Of(c) => d \in Others(c)
                            /\ Of(d)' = Of(c) /\ Makes(curation[d].verb) => d \in Makers(c)
                            /\ Of(d)' = Of(c) => curation'[d] = curation[d]
  BY <1>2, IdleCuration DEF Others, Makers, CurationIs, Of
<1>7. ASSUME NEW kind \in Kinds, kind = Of(c) PROVE Recorded(kind)'
  <2>1. entry'[kind] = v /\ settled'[kind] = k
    BY <1>4, <1>7
  <2>2. \A d \in Requesters : /\ curation'[d].kind = kind => d \in Others(c)
                              /\ curation'[d].kind = kind /\ Makes(curation'[d].verb) => d \in Makers(c)
    BY <1>6, <1>7 DEF Of
  <2> QED
    BY <1>7, <2>1, <2>2 DEF Recorded, Of, Makes
<1> QED
  BY <1>3, <1>5, <1>7 DEF ShelfInv

\* A request comes in when nothing is being seeded; what it may change is not
\* known from then on. (the handlers)
LEMMA AskedFor ==
  ASSUME ShelfInv, NEW c \in Requesters, NEW kind \in Kinds, NEW verb \in ShelfVerbs,
         AsksFor(c, kind, verb)
  PROVE  ShelfInv'
<1> DEFINE r == [kind |-> kind, verb |-> verb, n |-> curations + 1, found |-> FALSE,
                 at |-> IF Requires(kind, verb) THEN "require" ELSE FirstLook(verb)]
           sure == settled[kind] = NoEntry /\ ~Makes(verb)
<1>1. /\ curation' = [curation EXCEPT ![c] = r] /\ toSeed = {} /\ toSeed' = {} /\ entry' = entry
      /\ settled' = IF sure THEN settled ELSE [settled EXCEPT ![kind] = Unsettled]
      /\ ShelfFrame /\ curations' = curations + 1
  BY DEF AsksFor, ShelfInv
<1>2. r \in CurationRows /\ r.kind = kind /\ r.verb = verb
  BY <1>1 DEF CurationRows, FirstLook, ShelfFrame
<1> HIDE DEF r
<1>3. CurationIs(c, r)
  BY <1>1, <1>2 DEF CurationIs, ShelfFrame
<1>4. /\ settled' \in [Kinds -> Nat \cup {Bundled, NoEntry, Unsettled}]
      /\ settled'[kind] = IF sure THEN settled[kind] ELSE Unsettled
      /\ \A k \in Kinds \ {kind} : settled'[k] = settled[k]
  BY <1>1 DEF ShelfFrame
<1>5. ShelfFrame' /\ SeedsAlone'
  BY <1>1, <1>2, <1>3, <1>4 DEF ShelfFrame, SeedsAlone, CurationIs, Of
<1>6. ASSUME NEW k \in Kinds, k # kind PROVE Recorded(k)'
  BY <1>1, <1>2, <1>3, <1>4, <1>6 DEF ShelfInv, Recorded, CurationIs, Of, Makes
<1>7. Recorded(kind)'
  <2>1. CASE sure
    BY <1>1, <1>2, <1>3, <1>4, <2>1 DEF ShelfInv, Recorded, CurationIs, Of, Makes
  <2>2. CASE ~sure
    BY <1>4, <2>2, ShelfConstants DEF Recorded
  <2> QED
    BY <2>1, <2>2
<1> QED
  BY <1>5, <1>6, <1>7 DEF ShelfInv

\* Whatever is asked, over HTTP or by a tool, is one of the verbs of a kind.
LEMMA AsksAre ==
  ASSUME (\E c \in Curators : OverHttp(c)) \/ (\E c \in ToolCurators : OverTools(c))
  PROVE  \E c \in Requesters, kind \in Kinds, verb \in ShelfVerbs : AsksFor(c, kind, verb)
<1>1. ASSUME NEW c \in Curators, OverHttp(c)
      PROVE  \E kind \in Kinds, verb \in ShelfVerbs : AsksFor(c, kind, verb)
  BY <1>1 DEF OverHttp, Kinds, ShelfVerbs, AsksCreateTemplate, AsksUpdateTemplate,
              AsksDeleteTemplate, AsksAttach, AsksDetach, AsksCreateSkill, AsksUpdateSkill,
              AsksDeleteSkill, AsksCreateBranding, AsksUpdateBranding, AsksDeleteBranding,
              AsksCreateAgent, AsksUpdateAgent, AsksDeleteAgent, AsksPutOverride,
              AsksDeleteOverride, AsksPutSecret, AsksDeleteSecret, AsksPutPreferences,
              AsksFileFollowUp, AsksResolveFollowUp
<1>2. ASSUME NEW c \in ToolCurators, OverTools(c)
      PROVE  \E kind \in Kinds, verb \in ShelfVerbs : AsksFor(c, kind, verb)
  BY <1>2 DEF OverTools, Kinds, ShelfVerbs, ToolOnTemplate, ToolOnSkill, ToolOnBranding,
              ToolFilesFollowUp
<1> QED
  BY <1>1, <1>2 DEF Requesters

\* Every verb of the store is a look or a write of one of its kinds.
LEMMA StoreIs ==
  ASSUME NEW c \in Requesters, RequiresAbove(c) \/ CatalogueStore(c) \/ CurationFails(c)
  PROVE  \/ RequiresAbove(c) \/ CurationFails(c) \/ SelectsEntry(c) \/ InsertsEntry(c)
         \/ UpdatesEntry(c) \/ PutsEntry(c) \/ (UpsertsAgent(c) /\ Of(c) = "agent") \/ RemovesEntry(c)
BY DEF CatalogueStore, AgentStore, ConfigStore, SecretStore, FollowUpStore,
       CreatesTemplate, UpdatesTemplate, DeletesTemplate, AttachesEntry, DetachesEntry,
       CreatesSkill, UpdatesSkill, DeletesSkill, CreatesBranding, UpdatesBranding,
       DeletesBranding, CreatesAgent, UpdatesAgent, DeletesAgent, PutsOverride, DeletesOverride,
       PutsSecret, DeletesSecret, PutsPreferences, FilesFollowUp, ResolvesFollowUp,
       Creating, Updating, Deleting, Putting, Doing

\* The looks and the writes of a request. (the store's verbs)
LEMMA StoreKeeps ==
  ASSUME ShelfInv, NEW c \in Requesters,
         \/ RequiresAbove(c) \/ CurationFails(c) \/ SelectsEntry(c) \/ InsertsEntry(c)
         \/ UpdatesEntry(c) \/ PutsEntry(c) \/ (UpsertsAgent(c) /\ Of(c) = "agent") \/ RemovesEntry(c)
  PROVE  ShelfInv'
<1>1. ShelfFrame /\ SeedsAlone /\ \A kind \in Kinds : Recorded(kind)
  BY DEF ShelfInv
<1>2. /\ curation[c] \in CurationRows /\ curation \in [Requesters -> CurationRows] /\ curations \in Nat
      /\ curation[c].at # "none" => Of(c) \in Kinds
  BY <1>1 DEF ShelfFrame
<1>3. curation[c] # NoCuration => toSeed = {}
  BY <1>1 DEF SeedsAlone
<1>4. curation[c].at # "none" => curation[c] # NoCuration
  BY IdleCuration
<1>5. ASSUME Ends(c), UNCHANGED <<entry, settled, toSeed, curations>> PROVE ShelfInv'
  <2>1. CurationIs(c, NoCuration)
    BY <1>2, <1>5, IdleCuration DEF Ends, CurationIs
  <2> QED
    BY <1>2, <1>5, <2>1, CurationMoves
<1>6. ASSUME NEW r \in CurationRows, curation' = [curation EXCEPT ![c] = r],
             curation[c].at # "none", r.kind = Of(c), r.verb = curation[c].verb,
             UNCHANGED <<entry, settled, toSeed, curations>> PROVE ShelfInv'
  <2>1. CurationIs(c, r)
    BY <1>2, <1>6 DEF CurationIs
  <2> QED
    BY <1>2, <1>3, <1>4, <1>6, <2>1, CurationMoves
<1>7. CASE RequiresAbove(c)
  <2>1. /\ curation[c].at = "require" /\ UNCHANGED <<entry, settled, toSeed, curations>>
        /\ Ends(c) \/ \E at \in {"write", "select"} : Steps(c, at)
    BY <1>7 DEF RequiresAbove, FirstLook
  <2>2. ASSUME NEW at \in {"write", "select"}, Steps(c, at) PROVE ShelfInv'
    <3> DEFINE r == [curation[c] EXCEPT !.at = at]
    <3>1. r \in CurationRows /\ r.kind = Of(c) /\ r.verb = curation[c].verb
      BY <1>2 DEF CurationRows, Of
    <3>2. curation' = [curation EXCEPT ![c] = r]
      BY <2>2 DEF Steps
    <3> QED
      BY <1>6, <2>1, <3>1, <3>2
  <2> QED
    BY <1>5, <2>1, <2>2
<1>8. CASE CurationFails(c)
  BY <1>5, <1>8 DEF CurationFails
<1>9. CASE SelectsEntry(c)
  <2> DEFINE r == [curation[c] EXCEPT !.at = "write", !.found = entry[Of(c)] # NoEntry]
  <2>1. /\ curation[c].at = "select" /\ UNCHANGED <<entry, settled, toSeed, curations>>
        /\ Ends(c) \/ curation' = [curation EXCEPT ![c] = r]
    BY <1>9 DEF SelectsEntry
  <2>2. r \in CurationRows /\ r.kind = Of(c) /\ r.verb = curation[c].verb
    BY <1>2 DEF CurationRows, Of
  <2> HIDE DEF r
  <2> QED
    BY <1>5, <1>6, <2>1, <2>2
<1>10. /\ curation[c].n \in Nat /\ KnownAfter(c) \in Nat \cup {Unsettled}
       /\ KnownAfter(c) # NoEntry /\ curation[c].n \notin {NoEntry, Unsettled}
       /\ KnownAfter(c) # Unsettled => KnownAfter(c) = curation[c].n /\ Others(c) = {}
  BY <1>2, ShelfConstants DEF CurationRows, KnownAfter
<1>11. CASE InsertsEntry(c)
  <2>1. curation[c].at = "write"
    BY <1>11 DEF InsertsEntry, At
  <2>2. CASE Writes(c, curation[c].n, KnownAfter(c))
    BY <1>2, <1>3, <1>4, <1>10, <2>1, <2>2, CurationWrites
  <2> QED
    BY <1>5, <1>11, <2>2 DEF InsertsEntry
<1>12. CASE PutsEntry(c)
  <2>1. curation[c].at = "write" /\ Writes(c, curation[c].n, KnownAfter(c))
    BY <1>12 DEF PutsEntry, At
  <2> QED
    BY <1>2, <1>3, <1>4, <1>10, <2>1, CurationWrites
\* An update of a row that is gone leaves what is known of it.
<1>13. ASSUME entry[Of(c)] = NoEntry, Of(c) \in Kinds
       PROVE  /\ settled[Of(c)] \in {NoEntry, Unsettled}
              /\ settled[Of(c)] = NoEntry => Makers(c) = {}
  BY <1>1, <1>13 DEF Recorded, Makers, Others, Of
<1>14. CASE UpdatesEntry(c)
  <2> DEFINE v == UpdatedVersion(entry[Of(c)], curation[c].n)
             k == IF entry[Of(c)] = NoEntry THEN settled[Of(c)] ELSE KnownAfter(c)
  <2>1. curation[c].at = "write" /\ Writes(c, v, k)
    BY <1>14 DEF UpdatesEntry, At
  <2>2. Of(c) \in Kinds /\ toSeed = {}
    BY <1>2, <1>3, <1>4, <2>1
  <2>3. CASE entry[Of(c)] = NoEntry
    <3>1. v = NoEntry /\ k = settled[Of(c)]
      BY <2>3 DEF UpdatedVersion
    <3> HIDE DEF v, k
    <3> QED
      BY <1>13, <2>1, <2>2, <2>3, <3>1, CurationWrites
  <2>4. CASE entry[Of(c)] # NoEntry
    <3>1. v = curation[c].n /\ k = KnownAfter(c)
      BY <2>4 DEF UpdatedVersion
    <3> HIDE DEF v, k
    <3> QED
      BY <1>10, <2>1, <2>2, <3>1, CurationWrites
  <2> QED
    BY <2>3, <2>4
<1>15. CASE UpsertsAgent(c) /\ Of(c) = "agent"
  <2> DEFINE k == IF entry["agent"] = NoEntry THEN settled["agent"] ELSE KnownAfter(c)
  <2>1. curation[c].at = "write" /\ Writes(c, curation[c].n, k)
    BY <1>15 DEF UpsertsAgent, At
  <2>2. Of(c) \in Kinds /\ toSeed = {}
    BY <1>2, <1>3, <1>4, <2>1
  <2>3. /\ k \in Nat \cup {Bundled, NoEntry, Unsettled}
        /\ k \notin {NoEntry, Unsettled} => curation[c].n = k /\ Others(c) = {}
        /\ k = NoEntry => Makers(c) = {}
    BY <1>10, <1>13, <1>15, <2>2
  <2> HIDE DEF k
  <2> QED
    BY <1>10, <1>15, <2>1, <2>2, <2>3, CurationWrites
<1>16. CASE RemovesEntry(c)
  <2> DEFINE k == IF Makers(c) = {} THEN NoEntry ELSE Unsettled
  <2>1. curation[c].at = "write" /\ Writes(c, NoEntry, k)
    BY <1>16 DEF RemovesEntry, At
  <2>2. /\ k \in Nat \cup {Bundled, NoEntry, Unsettled} /\ k \in {NoEntry, Unsettled}
        /\ k = NoEntry => Makers(c) = {}
    BY ShelfConstants
  <2> HIDE DEF k
  <2> QED
    BY <1>2, <1>3, <1>4, <2>1, <2>2, CurationWrites
<1> QED
  BY <1>7, <1>8, <1>9, <1>11, <1>12, <1>14, <1>15, <1>16

\* The daemon dies, and seeds when it starts. (seed_default_agents, skill/seed)
LEMMA SeedsKeep ==
  ASSUME ShelfInv, ShelfRestarts \/ \E kind \in Seeded : SeedsDefault(kind) \/ SkipsSeed(kind)
  PROVE  ShelfInv'
<1>1. ShelfFrame /\ SeedsAlone /\ \A kind \in Kinds : Recorded(kind)
  BY DEF ShelfInv
<1>2. CASE ShelfRestarts
  <2>1. /\ curation' = [c \in Requesters |-> NoCuration] /\ UNCHANGED <<entry, settled, curations>>
    BY <1>2 DEF ShelfRestarts
  <2>2. curation' \in [Requesters -> CurationRows] /\ \A c \in Requesters : curation'[c] = NoCuration
    BY <2>1, IdleCuration
  <2>3. ShelfFrame' /\ SeedsAlone'
    BY <1>1, <2>1, <2>2, IdleCuration DEF ShelfFrame, SeedsAlone
  <2>4. ASSUME NEW kind \in Kinds PROVE Recorded(kind)'
    BY <1>1, <2>1, <2>2, IdleCuration DEF Recorded, Of
  <2> QED
    BY <2>3, <2>4 DEF ShelfInv
<1>3. ASSUME NEW kind \in Seeded, SeedsDefault(kind) PROVE ShelfInv'
  <2>1. /\ kind \in Kinds /\ UNCHANGED <<curation, curations>> /\ toSeed # {} /\ toSeed' \subseteq toSeed
        /\ IF entry[kind] = NoEntry
           THEN /\ entry' = [entry EXCEPT ![kind] = Bundled]
                /\ settled' = [settled EXCEPT ![kind] = Bundled]
           ELSE UNCHANGED <<entry, settled>>
    BY <1>3 DEF SeedsDefault, Seeded, Kinds
  <2>2. \A c \in Requesters : curation[c] = NoCuration
    BY <1>1, <2>1 DEF SeedsAlone
  <2>3. ShelfFrame' /\ SeedsAlone'
    BY <1>1, <2>1, <2>2 DEF ShelfFrame, SeedsAlone, Of
  <2>4. ASSUME NEW k \in Kinds PROVE Recorded(k)'
    <3>1. \A c \in Requesters : Of(c) # k
      BY <2>2, IdleCuration DEF Of
    <3>2. CASE k = kind /\ entry[kind] = NoEntry
      <4>1. entry'[k] = Bundled /\ settled'[k] = Bundled
        BY <1>1, <2>1, <3>2 DEF ShelfFrame
      <4> QED
        BY <2>1, <3>1, <4>1, ShelfConstants DEF Recorded, Of
    <3>3. CASE ~(k = kind /\ entry[kind] = NoEntry)
      <4>1. entry'[k] = entry[k] /\ settled'[k] = settled[k]
        BY <1>1, <2>1, <3>3 DEF ShelfFrame
      <4> QED
        BY <1>1, <2>1, <4>1 DEF Recorded, Of
    <3> QED
      BY <3>2, <3>3
  <2> QED
    BY <2>3, <2>4 DEF ShelfInv
<1>4. ASSUME NEW kind \in Seeded, SkipsSeed(kind) PROVE ShelfInv'
  BY <1>1, <1>4 DEF SkipsSeed, ShelfInv, ShelfFrame, SeedsAlone, Recorded, Of
<1> QED
  BY <1>2, <1>3, <1>4

\* Every step keeps what is known of the records.
LEMMA ShelfKept == ShelfInv /\ [ShelfNext]_shelfVars => ShelfInv'
<1> SUFFICES ASSUME ShelfInv, [ShelfNext]_shelfVars PROVE ShelfInv'
  OBVIOUS
<1>1. CASE UNCHANGED shelfVars
  BY <1>1 DEF shelfVars, ShelfInv, ShelfFrame, SeedsAlone, Recorded, Of
<1>2. ASSUME NEW c \in Requesters, RequiresAbove(c) \/ CatalogueStore(c) \/ CurationFails(c)
      PROVE  ShelfInv'
  BY <1>2, StoreIs, StoreKeeps
<1>3. CASE ShelfNext
  BY <1>2, <1>3, AsksAre, AskedFor, SeedsKeep DEF ShelfNext
<1> QED
  BY <1>1, <1>3

\* Nothing is on the shelf at first, and the seeds come before the requests.
LEMMA ShelfAtFirst == ShelfInit => ShelfInv
<1> SUFFICES ASSUME ShelfInit PROVE ShelfInv
  OBVIOUS
<1>1. curation \in [Requesters -> CurationRows] /\ \A c \in Requesters : curation[c] = NoCuration
  BY IdleCuration DEF ShelfInit
<1>2. ShelfFrame /\ SeedsAlone
  BY <1>1, IdleCuration DEF ShelfInit, ShelfFrame, SeedsAlone
<1>3. ASSUME NEW kind \in Kinds PROVE Recorded(kind)
  BY <1>1, IdleCuration DEF ShelfInit, Recorded, Of
<1> QED
  BY <1>2, <1>3 DEF ShelfInv

\* A record that was answered as written says so until it is asked for again,
\* and one answered as deleted is gone, whatever overlaps, dies or is seeded.
\* (update_skill and its like, seed_default_agents, file_follow_up, attach)
THEOREM AnswersHold == ShelfSpec => []AnsweredWriteHolds
<1>1. ShelfInv => AnsweredWriteHolds
  BY DEF ShelfInv, Recorded, AnsweredWriteHolds
<1> QED
  BY <1>1, ShelfAtFirst, ShelfKept, PTL DEF ShelfSpec

-----------------------------------------------------------------------------
(***************************************************************************)
(* The types of the document: a request on a link or a source names one.   *)
(***************************************************************************)
LinkVerbs == {"addReference", "removeReference", "addLink", "addFile", "removeSource"}

NamesALink(r) ==
    /\ r.verb \in {"addLink", "addFile", "removeSource"} => r.id \in SourceIds
    /\ r.verb \in {"addReference", "removeReference"} => r.id \in References
    /\ r.at \in {"find", "attach", "unlink"} => r.verb \in LinkVerbs
    /\ r.at = "source" => r.verb \in {"addLink", "addFile"}

BookRows ==
    /\ desk \in Desks /\ bookHeld \in BOOLEAN
    /\ sourceRow \in [SourceIds -> {"unused", "held", "gone"}]
    /\ linked \subseteq References \cup SourceIds
    /\ blobs \subseteq Scopes

BookRest == BookRows /\ \A c \in Clients : NamesALink(bookCall[c])

\* A request that moves on names what it named.
LEMMA NamesOn ==
  ASSUME BookInv, BookRest, NEW c \in Clients, BookRows',
         \/ Answers(c)
         \/ \E p \in BookPhases :
               /\ Goes(c, p)
               /\ p \in {"find", "attach", "unlink"} => bookCall[c].verb \in LinkVerbs
               /\ p = "source" => bookCall[c].verb \in {"addLink", "addFile"}
  PROVE  BookRest'
<1>1. BookFrame /\ bookCall[c] \in BookCalls /\ NamesALink(bookCall[c])
  BY CallSteps DEF BookInv, BookRest
<1>2. CASE Answers(c)
  <2>1. CallIs(c, NoBookCall) /\ NamesALink(NoBookCall)
    BY <1>1, <1>2, CallSteps DEF NoBookCall, NamesALink, LinkVerbs
  <2> QED
    BY <2>1 DEF BookRest, CallIs
<1>3. ASSUME NEW p \in BookPhases, Goes(c, p),
             p \in {"find", "attach", "unlink"} => bookCall[c].verb \in LinkVerbs,
             p = "source" => bookCall[c].verb \in {"addLink", "addFile"}
      PROVE  BookRest'
  <2> DEFINE s == [bookCall[c] EXCEPT !.at = p]
  <2>1. CallIs(c, s)
    BY <1>1, <1>3, CallSteps
  <2>2. s.at = p /\ s.verb = bookCall[c].verb /\ s.id = bookCall[c].id
    BY <1>1, CallGoes
  <2> HIDE DEF s
  <2>3. NamesALink(s)
    BY <1>1, <1>3, <2>2 DEF NamesALink
  <2> QED
    BY <2>1, <2>3 DEF BookRest, CallIs
<1> QED
  BY <1>2, <1>3

\* A request that begins names what its path does.
LEMMA NamesAtFirst ==
  ASSUME BookInv, BookRest, NEW c \in Clients, NEW verb, NEW at, NEW id, NEW scope,
         Asks(c, verb, at, id, scope), at # "attach",
         at = "source" => verb \in {"addLink", "addFile"},
         verb \in {"addLink", "addFile", "removeSource"} => id \in SourceIds,
         verb \in {"addReference", "removeReference"} => id \in References,
         at \in {"find", "unlink"} => verb \in LinkVerbs
  PROVE  BookRest'
<1> DEFINE r == [verb |-> verb, at |-> at, id |-> id, seen |-> {}, made |-> bookMade,
                 scope |-> scope, lone |-> ~DeletingFile]
<1>1. /\ bookCall' = [bookCall EXCEPT ![c] = r] /\ bookCall \in [Clients -> BookCalls]
      /\ UNCHANGED <<desk, pageVars, linkVars, fileVars>>
  BY DEF Asks, BookInv, BookFrame
<1>2. NamesALink(r)
  BY DEF NamesALink
<1> HIDE DEF r
<1> QED
  BY <1>1, <1>2 DEF BookRest, BookRows, pageVars, linkVars, fileVars

\* A request for a deletion of the file touches only the flags of the others.
LEMMA NamesUnderDeletion ==
  ASSUME BookInv, BookRest, NEW c \in Clients, AsksDeleteAsset(c)
  PROVE  BookRest'
<1> DEFINE r == [NoBookCall EXCEPT !.verb = "deleteAsset", !.at = "row", !.scope = assetRow]
           Alike(d) == [bookCall[d] EXCEPT !.lone = FALSE]
<1>1. /\ bookCall \in [Clients -> BookCalls]
      /\ bookCall' = [d \in Clients |-> IF d = c THEN r ELSE Alike(d)]
      /\ UNCHANGED <<desk, pageVars, linkVars, assetRow, blobs>>
  BY DEF AsksDeleteAsset, BookInv, BookFrame
<1>2. NamesALink(r)
  BY DEF NamesALink, NoBookCall, LinkVerbs
<1>3. \A d \in Clients : /\ Alike(d).verb = bookCall[d].verb /\ Alike(d).at = bookCall[d].at
                         /\ Alike(d).id = bookCall[d].id
  BY <1>1 DEF BookCalls
<1> HIDE DEF r, Alike
<1>4. bookCall'[c] = r /\ \A d \in Clients \ {c} : bookCall'[d] = Alike(d)
  BY <1>1
<1> QED
  BY <1>1, <1>2, <1>3, <1>4 DEF BookRest, BookRows, NamesALink, pageVars, linkVars

\* What a step of a request writes of the rows.
LEMMA StepsWriteRows ==
  ASSUME BookInv, BookRest, NEW c \in Clients,
         ContentStore(c) \/ AssetStore(c) \/ BlobStore(c)
  PROVE  BookRest'
<1>1. BookRows /\ BookFrame /\ bookCall[c] \in BookCalls /\ NamesALink(bookCall[c])
  BY CallSteps DEF BookInv, BookRest
<1>2. bookCall[c].scope \in Scopes
  BY <1>1 DEF BookCalls
<1>3. CASE \/ CreatesDocument(c) \/ DropsDocument(c) \/ InsertsPage(c) \/ UpdatesPage(c)
           \/ DeletesPage(c)
  BY <1>1, <1>3, NamesOn
     DEF CreatesDocument, DropsDocument, InsertsPage, UpdatesPage, DeletesPage, OnPages, BookRows,
         linkVars, fileVars
<1>4. CASE SelectsPage(c)
  BY <1>1, <1>4, NamesOn DEF SelectsPage, OnPages, BookRows, pageVars, linkVars, fileVars, BookPhases
<1>5. CASE ListsPages(c) \/ \E p \in PageIds : DropsPage(c, p)
  <2> DEFINE lists == [bookCall[c] EXCEPT !.at = "pages",
                                          !.seen = {p \in PageIds : pageRow[p] = "held"}]
             drops(p) == [bookCall[c] EXCEPT !.seen = @ \ {p}]
  <2>1. NamesALink(lists) /\ \A p : NamesALink(drops(p))
    BY <1>1 DEF BookCalls, NamesALink
  <2>2. /\ UNCHANGED <<desk, bookHeld, linkVars, fileVars>>
        /\ bookCall' = [bookCall EXCEPT ![c] = lists] \/ \E p : bookCall' = [bookCall EXCEPT ![c] = drops(p)]
    BY <1>5 DEF ListsPages, DropsPage, OnPages, pageVars
  <2> HIDE DEF lists, drops
  <2>3. \E r : NamesALink(r) /\ bookCall' = [bookCall EXCEPT ![c] = r]
    BY <2>1, <2>2
  <2>4. \A d \in Clients : NamesALink(bookCall'[d])
    BY <2>3, <1>1 DEF BookRest, BookFrame
  <2> QED
    BY <1>1, <2>2, <2>4 DEF BookRest, BookRows, linkVars, fileVars
<1>6. CASE InsertsSource(c)
  BY <1>1, <1>6, NamesOn DEF InsertsSource, OnLinks, BookRows, pageVars, fileVars, NamesALink,
                             LinkVerbs, BookPhases
<1>7. CASE DropsSource(c)
  BY <1>1, <1>7, NamesOn DEF DropsSource, OnBook, OnLinks, BookRows, pageVars, fileVars, NamesALink,
                             LinkVerbs, BookPhases
<1>8. CASE FindsLink(c)
  BY <1>1, <1>8, NamesOn DEF FindsLink, OnLinks, BookRows, pageVars, linkVars, fileVars, NamesALink,
                             BookPhases
<1>9. CASE Attaches(c) \/ Detaches(c)
  BY <1>1, <1>9, NamesOn DEF Attaches, Detaches, OnLinks, BookRows, pageVars, fileVars, NamesALink,
                             LinkVerbs
<1>10. CASE LooksUpAsset(c)
  BY <1>1, <1>10, NamesOn DEF LooksUpAsset, AfterFound, OnFiles, BookRows, pageVars, linkVars, BookPhases
<1>11. CASE InsertsAsset(c)
  BY <1>1, <1>11, NamesOn DEF InsertsAsset, OnFiles, BookRows, pageVars, linkVars, BookPhases
<1>12. CASE PutsBytes(c)
  BY <1>1, <1>2, <1>12, NamesOn DEF PutsBytes, OnFiles, BookRows, pageVars, linkVars, BookPhases
<1>13. CASE DropsAsset(c) \/ DropsBytes(c)
  BY <1>1, <1>13, NamesOn DEF DropsAsset, DropsBytes, OnFiles, BookRows, pageVars, linkVars, BookPhases
<1> QED
  BY <1>3, <1>4, <1>5, <1>6, <1>7, <1>8, <1>9, <1>10, <1>11, <1>12, <1>13
     DEF ContentStore, AssetStore, BlobStore

\* They hold at first, every step keeps them, and they give the types.
LEMMA BookTypesInductive ==
  /\ BookInit => BookInv /\ BookRest
  /\ BookInv /\ BookRest /\ [BookNext]_bookVars => BookInv' /\ BookRest'
  /\ BookInv /\ BookRest => BookTypeOK
<1>1. BookInit => BookRest
  BY DEF BookInit, BookRest, BookRows, NamesALink, NoBookCall, LinkVerbs
<1>2. ASSUME BookInv, BookRest, [BookNext]_bookVars PROVE BookRest'
  <2>0. BookRows /\ BookFrame
    BY <1>2 DEF BookRest, BookInv
  <2>1. CASE UNCHANGED bookVars
    BY <1>2, <2>1 DEF bookVars, BookRest, BookRows, NamesALink
  <2>2. ASSUME NEW c \in Clients, DocumentVerbs(c) PROVE BookRest'
    BY <1>2, <2>2, NamesAtFirst DEF DocumentVerbs, AsksCreate, AsksAddReference, AsksRemoveReference,
                                    AsksOfBook, LinkVerbs
  <2>3. ASSUME NEW c \in Clients, PageVerbs(c) PROVE BookRest'
    BY <1>2, <2>3, NamesAtFirst DEF PageVerbs, AsksAddPage, AsksUpdatePage, AsksDeletePage, AsksOfBook
  <2>4. ASSUME NEW c \in Clients, SourceVerbs(c) PROVE BookRest'
    BY <1>2, <2>4, NamesAtFirst DEF SourceVerbs, AsksAddLink, AsksAddFile, AsksRemoveSource, AsksOfBook
  <2>5. ASSUME NEW c \in Clients, FileVerbs(c) PROVE BookRest'
    BY <1>2, <2>5, NamesAtFirst, NamesUnderDeletion DEF FileVerbs, AsksUpload
  <2>6. ASSUME NEW c \in Clients, Fails(c) PROVE BookRest'
    BY <1>2, <2>0, <2>6, NamesOn DEF Fails, BookRows, pageVars, linkVars, fileVars
  <2>7. CASE BookDies
    BY <2>0, <2>7 DEF BookDies, BookRest, BookRows, pageVars, linkVars, fileVars, NamesALink, NoBookCall,
                      LinkVerbs
  <2> QED
    BY <1>2, <2>1, <2>2, <2>3, <2>4, <2>5, <2>6, <2>7, StepsWriteRows DEF BookNext
<1>3. ASSUME BookInv, BookRest PROVE BookTypeOK
  <2>1. \A c \in Clients : bookCall[c] \in BookCalls
    BY <1>3 DEF BookInv, BookFrame
  <2> QED
    BY <1>3, <2>1 DEF BookInv, BookFrame, BookRest, BookRows, BookTypeOK, BookCalls
<1> QED
  BY <1>1, <1>2, <1>3, BookAtFirst, BookKept

-----------------------------------------------------------------------------
(***************************************************************************)
(* The types of the catalogue. A request's version is one that was given   *)
(* out; an idle request has none.                                          *)
(***************************************************************************)
ShelfRest ==
    /\ shelf \in Shelves /\ toSeed \subseteq Seeded
    /\ entry \in [Kinds -> Versions \cup {NoEntry}]
    /\ settled \in [Kinds -> Versions \cup {NoEntry, Unsettled}]
    /\ curations \in 0..MaxCurations
    /\ \A c \in Requesters : /\ curation[c].n \in 0..MaxCurations
                             /\ curation[c].at # "none" => curation[c].n > 0

\* What a request writes is a version, and it is answered.
LEMMA WritesVersions ==
  ASSUME ShelfInv, ShelfRest, NEW c \in Requesters, Of(c) \in Kinds,
         NEW v \in Versions \cup {NoEntry}, NEW k \in Versions \cup {NoEntry, Unsettled},
         Writes(c, v, k)
  PROVE  ShelfRest'
<1>1. /\ entry' = [entry EXCEPT ![Of(c)] = v] /\ settled' = [settled EXCEPT ![Of(c)] = k]
      /\ curation' = [curation EXCEPT ![c] = NoCuration] /\ UNCHANGED <<shelf, toSeed, curations>>
  BY DEF Writes, Ends
<1>2. curation \in [Requesters -> CurationRows]
  BY DEF ShelfInv, ShelfFrame
<1>3. \A d \in Requesters : curation'[d] = curation[d] \/ curation'[d] = NoCuration
  BY <1>1, <1>2
<1> QED
  BY <1>1, <1>3, ShelfConstants DEF ShelfRest, NoCuration

LEMMA ShelfKeepsVersions ==
  ASSUME ShelfInv, ShelfRest, NEW c \in Requesters,
         \/ RequiresAbove(c) \/ CurationFails(c) \/ SelectsEntry(c) \/ InsertsEntry(c)
         \/ UpdatesEntry(c) \/ PutsEntry(c) \/ (UpsertsAgent(c) /\ Of(c) = "agent") \/ RemovesEntry(c)
  PROVE  ShelfRest'
<1>1. /\ curation \in [Requesters -> CurationRows]
      /\ curation[c].at # "none" => Of(c) \in Kinds
  BY DEF ShelfInv, ShelfFrame
<1>2. NoCuration.n = 0 /\ NoCuration.at = "none"
  BY DEF NoCuration
<1>3. ASSUME UNCHANGED <<shelf, toSeed, entry, settled, curations>>,
             \A d \in Requesters : \/ curation'[d] = curation[d] \/ curation'[d] = NoCuration
                                   \/ curation'[d].n = curation[d].n /\ curation[d].at # "none"
      PROVE  ShelfRest'
  BY <1>2, <1>3, ShelfConstants DEF ShelfRest
<1>4. Ends(c) => \A d \in Requesters : curation'[d] = curation[d] \/ curation'[d] = NoCuration
  BY <1>1 DEF Ends
<1>5. CASE RequiresAbove(c) \/ CurationFails(c) \/ SelectsEntry(c)
  <2>1. curation[c] \in CurationRows
    BY <1>1
  <2>2. ASSUME NEW r, curation' = [curation EXCEPT ![c] = r], r.n = curation[c].n,
               curation[c].at # "none"
        PROVE  \A d \in Requesters : \/ curation'[d] = curation[d]
                                     \/ curation'[d].n = curation[d].n /\ curation[d].at # "none"
    <3>1. curation'[c] = r /\ \A d \in Requesters \ {c} : curation'[d] = curation[d]
      BY <1>1, <2>2
    <3> QED
      BY <2>2, <3>1
  <2>3. ASSUME NEW p, Steps(c, p), curation[c].at # "none"
        PROVE  \A d \in Requesters : \/ curation'[d] = curation[d]
                                     \/ curation'[d].n = curation[d].n /\ curation[d].at # "none"
    <3> DEFINE r == [curation[c] EXCEPT !.at = p]
    <3>1. r.n = curation[c].n
      BY <2>1 DEF CurationRows
    <3>2. curation' = [curation EXCEPT ![c] = r]
      BY <2>3 DEF Steps
    <3> QED
      BY <2>2, <2>3, <3>1, <3>2
  <2>4. CASE SelectsEntry(c) /\ ~Ends(c)
    <3> DEFINE r == [curation[c] EXCEPT !.at = "write", !.found = entry[Of(c)] # NoEntry]
    <3>1. r.n = curation[c].n
      BY <2>1 DEF CurationRows
    <3>2. /\ curation' = [curation EXCEPT ![c] = r] /\ curation[c].at # "none"
          /\ UNCHANGED <<shelf, toSeed, entry, settled, curations>>
      BY <2>4 DEF SelectsEntry
    <3> HIDE DEF r
    <3> QED
      BY <1>3, <2>2, <3>1, <3>2
  <2>5. CASE Ends(c)
    BY <1>3, <1>4, <1>5, <2>5 DEF RequiresAbove, CurationFails, SelectsEntry
  <2>6. CASE RequiresAbove(c) /\ ~Ends(c)
    <3>1. /\ \E p : Steps(c, p) 
          /\ curation[c].at # "none" /\ UNCHANGED <<shelf, toSeed, entry, settled, curations>>
      BY <2>6 DEF RequiresAbove
    <3> QED
      BY <1>3, <2>3, <3>1
  <2> QED
    BY <1>5, <2>4, <2>5, <2>6 DEF CurationFails
<1>6. CASE Ends(c) /\ UNCHANGED <<shelf, toSeed, entry, settled, curations>>
  BY <1>3, <1>4, <1>6
<1>7. CASE /\ ~(Ends(c) /\ UNCHANGED <<shelf, toSeed, entry, settled, curations>>)
           /\ \/ InsertsEntry(c) \/ UpdatesEntry(c) \/ PutsEntry(c) \/ RemovesEntry(c)
              \/ (UpsertsAgent(c) /\ Of(c) = "agent")
  <2>0. InsertsEntry(c) \/ UpdatesEntry(c) \/ PutsEntry(c) \/ RemovesEntry(c) \/ UpsertsAgent(c)
    BY <1>7
  <2>1. curation[c].at # "none" /\ Of(c) \in Kinds
    BY <1>1, <2>0 DEF InsertsEntry, UpdatesEntry, PutsEntry, RemovesEntry, UpsertsAgent, At
  <2>2. curation[c].n \in Versions
    BY <2>1, ShelfConstants DEF ShelfRest, Versions
  <2>3. settled[Of(c)] \in Versions \cup {NoEntry, Unsettled}
    BY <2>1 DEF ShelfRest
  <2>4. \E v \in Versions \cup {NoEntry}, k \in Versions \cup {NoEntry, Unsettled} : Writes(c, v, k)
    BY <1>7, <2>2, <2>3 DEF InsertsEntry, UpdatesEntry, PutsEntry, RemovesEntry, UpsertsAgent,
                            KnownAfter, UpdatedVersion
  <2> QED
    BY <2>1, <2>4, WritesVersions
<1> QED
  BY <1>5, <1>6, <1>7

\* They hold at first, every step keeps them, and they give the types.
LEMMA ShelfTypesInductive ==
  /\ ShelfInit => ShelfInv /\ ShelfRest
  /\ ShelfInv /\ ShelfRest /\ [ShelfNext]_shelfVars => ShelfInv' /\ ShelfRest'
  /\ ShelfInv /\ ShelfRest => ShelfTypeOK
<1>1. ShelfInit => ShelfRest
  BY ShelfConstants DEF ShelfInit, ShelfRest, NoCuration
<1>2. ASSUME ShelfInv, ShelfRest, [ShelfNext]_shelfVars PROVE ShelfRest'
  <2>0. curation \in [Requesters -> CurationRows]
    BY <1>2 DEF ShelfInv, ShelfFrame
  <2>1. CASE UNCHANGED shelfVars
    BY <1>2, <2>1 DEF shelfVars, ShelfRest
  <2>2. ASSUME NEW c \in Requesters, RequiresAbove(c) \/ CatalogueStore(c) \/ CurationFails(c)
        PROVE  ShelfRest'
    <3>1. \/ RequiresAbove(c) \/ CurationFails(c) \/ SelectsEntry(c) \/ InsertsEntry(c)
          \/ UpdatesEntry(c) \/ PutsEntry(c) \/ (UpsertsAgent(c) /\ Of(c) = "agent") \/ RemovesEntry(c)
      BY <2>2, StoreIs
    <3> QED
      BY <1>2, <3>1, ShelfKeepsVersions
  <2>3. ASSUME NEW c \in Requesters, NEW kind \in Kinds, NEW verb \in ShelfVerbs, AsksFor(c, kind, verb)
        PROVE  ShelfRest'
    <3> DEFINE r == [kind |-> kind, verb |-> verb, n |-> curations + 1, found |-> FALSE,
                     at |-> IF Requires(kind, verb) THEN "require" ELSE FirstLook(verb)]
    <3>1. /\ curation' = [curation EXCEPT ![c] = r] /\ r.n = curations + 1
          /\ curations < MaxCurations /\ curations' = curations + 1
          /\ settled' \in {settled, [settled EXCEPT ![kind] = Unsettled]}
          /\ UNCHANGED <<shelf, entry, toSeed>>
      BY <2>3 DEF AsksFor
    <3> HIDE DEF r
    <3>2. /\ curation'[c].n = curations + 1
          /\ \A d \in Requesters \ {c} : curation'[d] = curation[d]
      BY <2>0, <3>1
    <3>3. settled' \in [Kinds -> Versions \cup {NoEntry, Unsettled}]
      BY <1>2, <3>1 DEF ShelfRest
    <3> QED
      BY <1>2, <3>1, <3>2, <3>3, ShelfConstants DEF ShelfRest
  <2>4. CASE ShelfRestarts
    BY <1>2, <2>4, ShelfConstants DEF ShelfRestarts, ShelfRest, NoCuration
  <2>5. ASSUME NEW kind \in Seeded, SeedsDefault(kind) \/ SkipsSeed(kind) PROVE ShelfRest'
    BY <1>2, <2>5 DEF SeedsDefault, SkipsSeed, ShelfRest, Versions
  <2> QED
    BY <1>2, <2>1, <2>2, <2>3, <2>4, <2>5, AsksAre DEF ShelfNext
<1>3. ShelfInv /\ ShelfRest => ShelfTypeOK
  BY DEF ShelfRest, ShelfTypeOK
<1> QED
  BY <1>1, <1>2, <1>3, ShelfAtFirst, ShelfKept

=============================================================================
