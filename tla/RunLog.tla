------------------------------- MODULE RunLog -------------------------------
(***************************************************************************)
(* What the tail promises whoever reads a workflow's log, with the drains, *)
(* their batches and the torn rows left out: what an agent said is written *)
(* once, after all that was said before it for the same workflow, unless   *)
(* it was lost for a reason the reader can be told; and a workflow's mark  *)
(* stands behind nothing that is still to be written.                      *)
(***************************************************************************)
EXTENDS Naturals, Sequences

CONSTANTS
    Workflows,
    MaxSaid,    \* bound on what is said
    Reach,      \* how far back one reading of the stream goes
    NoMark      \* the mark of a workflow that there is not

VARIABLES
    said,       \* the workflow each event is of, in order
    gone,       \* the events of agents that are no longer there
    lines,      \* per event, its lines in the log
    bubbles,    \* per event, its bubbles in the conversation
    lost,       \* the events that may be missing
    mark        \* per workflow, how far it was read

vars == <<said, gone, lines, bubbles, lost, mark>>

Ids == 1..MaxSaid
Said == 1..Len(said)
Settled(e) == lines[e] > 0 \/ e \in lost

\* The turn of e has come: nothing of its workflow is due before it.
Due(e) == \A d \in Said : d < e /\ said[d] = said[e] => Settled(d)

Init ==
    /\ said = <<>> /\ gone = {} /\ lost = {}
    /\ lines = [e \in Ids |-> 0] /\ bubbles = [e \in Ids |-> 0]
    /\ mark \in [Workflows -> {0, NoMark}]

Say(r) ==
    /\ said' = Append(said, r)
    /\ UNCHANGED <<gone, lines, bubbles, lost, mark>>

Leave(S) ==
    /\ gone' = gone \cup S
    /\ UNCHANGED <<said, lines, bubbles, lost, mark>>

Once(count, e) == count[e] = 0 /\ count' = [count EXCEPT ![e] = 1]

\* The line, with the bubble or without.
Write(e) ==
    /\ Due(e)
    /\ Once(lines, e)
    /\ Once(bubbles, e) \/ UNCHANGED bubbles
    /\ UNCHANGED <<said, gone, lost, mark>>

\* The bubble that a line went without.
Mirror(e) ==
    /\ lines[e] > 0
    /\ Once(bubbles, e)
    /\ UNCHANGED <<said, gone, lines, lost, mark>>

\* The write failed, when the event's turn had come.
Fail(e) ==
    /\ Due(e)
    /\ lost' = lost \cup {e}
    /\ UNCHANGED <<said, gone, lines, bubbles, mark>>

\* Nobody knows any more whose it is, its workflow is no more, or too much
\* was said since.
MayBeLost(e) == e \in gone \/ mark[said[e]] = NoMark \/ e + Reach <= Len(said)

Lose(S) ==
    /\ \A e \in S : MayBeLost(e)
    /\ lost' = lost \cup S
    /\ UNCHANGED <<said, gone, lines, bubbles, mark>>

\* Forth, or back: then what was written is read again, and not written.
Mark(r, k) ==
    /\ k = NoMark \/ \A e \in Said : said[e] = r /\ e <= k => Settled(e)
    /\ mark' = [mark EXCEPT ![r] = k]
    /\ UNCHANGED <<said, gone, lines, bubbles, lost>>

Next ==
    \/ \E r \in Workflows : Say(r)
    \/ \E r \in Workflows, k \in Said \cup {0, NoMark} : Mark(r, k)
    \/ \E e \in Said : Write(e) \/ Mirror(e) \/ Fail(e)
    \/ \E S \in SUBSET Said : Leave(S) \/ Lose(S)

Spec == Init /\ [][Next]_vars
=============================================================================
