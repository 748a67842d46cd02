----------------------------- MODULE AgentChat -----------------------------
(***************************************************************************)
(* A conversation with the management agent. A post starts a turn off the  *)
(* request: it spawns an agent or sends to the live one, and then polls    *)
(* hcom for what agents say on the conversation's thread and appends it to *)
(* the conversation. Nothing keeps the next turn from starting before the  *)
(* last is over.                                                           *)
(*                                                                         *)
(* A reply is prose, a proposal of an action the operator is to confirm,   *)
(* or both; its id is its place in the thread.                             *)
(***************************************************************************)
EXTENDS Naturals, FiniteSets, Sequences

CONSTANTS
    Turns,          \* posts of the operator
    Chats,          \* the permission profiles, "author" or "manage", and session
                    \* modes, "turn" or "conversation", that go together
    MaxReplies,     \* bound on the replies of the agents
    MaxChatUpsets   \* bound on failed calls, deaths of agents and stops

ASSUME ChatsAssumption ==
    Chats \subseteq [profile : {"author", "manage"}, session : {"turn", "conversation"}]

ASSUME ChatBoundsAssumption == MaxReplies \in Nat /\ MaxChatUpsets \in Nat

VARIABLES
    profile, session,
    thread,         \* the replies on the thread, by form
    chatAgents,     \* live agents that carry the conversation's tag
    turn,           \* the turns
    prose,          \* per reply, its rows in the conversation
    cards,          \* per reply, its confirm requests in the conversation
    lines,          \* per reply, the lines that refuse its proposal
    notes,          \* turns that left a note of their failure
    overlapped,     \* two turns have run at once
    chatUpsets

chatVars == <<profile, session, thread, chatAgents, turn, prose, cards, lines, notes,
              overlapped, chatUpsets>>

Forms == {"prose", "proposal", "both"}
Replies == 1..MaxReplies
TurnPhases == {"new", "config", "pin", "launch", "poll", "drain", "prose", "proseRow",
               "card", "cardRow", "line", "over"}
\* pin: where the drain began. Of its failures the code keeps a line in the
\* daemon's log and goes on; here they are history: lost, the replies one of
\* whose appends failed, mute, the note failed; deserted: no agent was left.
NewTurn == [at |-> "new", live |-> FALSE, pin |-> 0, cursor |-> 0, todo |-> {},
            replied |-> FALSE, seen |-> FALSE, deserted |-> FALSE, lost |-> {}, mute |-> FALSE]

ChatUpset == chatUpsets < MaxChatUpsets /\ chatUpsets' = chatUpsets + 1
InTurn(t) == turn[t].at \notin {"new", "over"}
AtTurn(t, p) == turn[t].at = p
Sets(t, rec) == turn' = [turn EXCEPT ![t] = rec]
GoesTo(t, p) == Sets(t, [turn[t] EXCEPT !.at = p])
Over(t) == GoesTo(t, "over")
NewReplies(t) == {e \in DOMAIN thread : e > turn[t].cursor}
First(S) == CHOOSE e \in S : \A f \in S : e <= f
Proposes(e) == thread[e] # "prose"

PostAgentChat(t) ==
    /\ AtTurn(t, "new")
    /\ GoesTo(t, "config")
    /\ overlapped' = (overlapped \/ \E u \in Turns : InTurn(u))
    /\ UNCHANGED <<profile, session, thread, chatAgents, prose, cards, lines, notes, chatUpsets>>

\* The append of a note may fail, too, and nobody looks.
EndsWithNote(t, fails) ==
    /\ notes' = IF fails THEN notes ELSE notes \cup {t}
    /\ Sets(t, [turn[t] EXCEPT !.at = "over", !.mute = fails])

\* A turn that fails before it listens leaves a note.
TurnFails(t, mute) ==
    /\ AtTurn(t, "config") \/ AtTurn(t, "launch")
    /\ ChatUpset
    /\ EndsWithNote(t, mute)
    /\ UNCHANGED <<profile, session, thread, chatAgents, prose, cards, lines, overlapped>>

\* Is there a session to resume? A failed listing reads as none.
LooksForSession(t, hidden) ==
    /\ AtTurn(t, "config")
    /\ IF hidden THEN ChatUpset ELSE UNCHANGED chatUpsets
    /\ Sets(t, [turn[t] EXCEPT !.at = "pin",
                    !.live = session = "conversation" /\ chatAgents > 0 /\ ~hidden])
    /\ UNCHANGED <<profile, session, thread, chatAgents, prose, cards, lines, notes, overlapped>>

\* The newest event, or the beginning if hcom does not tell.
PinsCursor(t, hidden) ==
    /\ AtTurn(t, "pin")
    /\ IF hidden THEN ChatUpset ELSE UNCHANGED chatUpsets
    /\ LET pin == IF hidden THEN 0 ELSE Len(thread) IN
         Sets(t, [turn[t] EXCEPT !.at = "launch", !.pin = pin, !.cursor = pin])
    /\ UNCHANGED <<profile, session, thread, chatAgents, prose, cards, lines, notes, overlapped>>

LaunchesAgent(t) ==
    /\ AtTurn(t, "launch")
    /\ chatAgents' = IF turn[t].live THEN chatAgents ELSE chatAgents + 1
    /\ GoesTo(t, "poll")
    /\ UNCHANGED <<profile, session, thread, prose, cards, lines, notes, overlapped, chatUpsets>>

(***************************************************************************)
(* One poll: is an agent alive, what is new, persist it.                   *)
(***************************************************************************)
PollsSession(t, hidden) ==
    /\ AtTurn(t, "poll")
    /\ IF hidden THEN ChatUpset ELSE UNCHANGED chatUpsets
    /\ LET alive == chatAgents > 0 /\ ~hidden IN
         Sets(t, IF ~alive /\ turn[t].seen
                 THEN [turn[t] EXCEPT !.at = "over", !.deserted = TRUE]
                 ELSE [turn[t] EXCEPT !.at = "drain", !.seen = @ \/ alive])
    /\ UNCHANGED <<profile, session, thread, chatAgents, prose, cards, lines, notes, overlapped>>

\* A mutant: any quiet poll ends the turn.
QuietEnds(t) == TRUE

\* After a reply one quiet poll ends the turn.
AnsweredEnds(t) == turn[t].replied

DrainsThread(t) ==
    /\ AtTurn(t, "drain")
    /\ LET new == NewReplies(t) IN
         Sets(t, IF new # {}
                 THEN [turn[t] EXCEPT !.at = "prose", !.todo = new, !.cursor = Len(thread),
                                      !.replied = TRUE]
                 ELSE [turn[t] EXCEPT !.at = IF AnsweredEnds(t) THEN "over" ELSE "poll"])
    /\ UNCHANGED <<profile, session, thread, chatAgents, prose, cards, lines, notes,
                   overlapped, chatUpsets>>

DrainFails(t) ==
    /\ AtTurn(t, "drain")
    /\ ChatUpset
    /\ GoesTo(t, "poll")
    /\ UNCHANGED <<profile, session, thread, chatAgents, prose, cards, lines, notes, overlapped>>

\* The deadline is looked at before each poll.
TimesOut(t, mute) ==
    /\ AtTurn(t, "poll")
    /\ ChatUpset
    /\ IF turn[t].replied THEN Over(t) /\ UNCHANGED notes ELSE EndsWithNote(t, mute)
    /\ UNCHANGED <<profile, session, thread, chatAgents, prose, cards, lines, overlapped>>

(***************************************************************************)
(* What is persisted of a reply: first its prose, then its proposal. Each  *)
(* append looks for a row of the reply in the conversation, whatever its   *)
(* role, and makes one if there is none. An append that fails, in its look *)
(* or its write, is logged; the turn goes on with what comes next.         *)
(***************************************************************************)
Reply(t) == First(turn[t].todo)

\* A mutant: the append does not look.
AnyRow(e) == FALSE

HasRowOf(e) == prose[e] + cards[e] > 0

\* One reply is dealt with; the loop goes on with the next.
NextReply(t, lost) ==
    Sets(t, [turn[t] EXCEPT !.todo = @ \ {Reply(t)}, !.lost = @ \cup lost,
                 !.at = IF turn[t].todo = {Reply(t)} THEN "poll" ELSE "prose"])

\* A profile that may not manage gets a line instead of the card.
Surface == IF profile = "manage" THEN "card" ELSE "line"

AfterProse(t, lost) ==
    IF Proposes(Reply(t)) THEN Sets(t, [turn[t] EXCEPT !.at = Surface, !.lost = @ \cup lost])
    ELSE NextReply(t, lost)

HasProse(e) == thread[e] # "proposal"

AppendLooks(t) ==
    /\ AtTurn(t, "prose")
    /\ IF HasProse(Reply(t)) /\ ~HasRowOf(Reply(t)) THEN GoesTo(t, "proseRow")
       ELSE AfterProse(t, {})
    /\ UNCHANGED <<profile, session, thread, chatAgents, prose, cards, lines, notes, overlapped,
                   chatUpsets>>

AppendWrites(t) ==
    /\ AtTurn(t, "proseRow")
    /\ prose' = [prose EXCEPT ![Reply(t)] = @ + 1]
    /\ AfterProse(t, {})
    /\ UNCHANGED <<profile, session, thread, chatAgents, cards, lines, notes, overlapped, chatUpsets>>

AppendFails(t) ==
    /\ (AtTurn(t, "prose") /\ HasProse(Reply(t))) \/ AtTurn(t, "proseRow")
    /\ ChatUpset
    /\ AfterProse(t, {Reply(t)})
    /\ UNCHANGED <<profile, session, thread, chatAgents, prose, cards, lines, notes, overlapped>>

ConfirmLooks(t) ==
    /\ AtTurn(t, "card")
    /\ IF HasRowOf(Reply(t)) THEN NextReply(t, {}) ELSE GoesTo(t, "cardRow")
    /\ UNCHANGED <<profile, session, thread, chatAgents, prose, cards, lines, notes, overlapped,
                   chatUpsets>>

ConfirmWrites(t) ==
    /\ AtTurn(t, "cardRow")
    /\ cards' = [cards EXCEPT ![Reply(t)] = @ + 1]
    /\ NextReply(t, {})
    /\ UNCHANGED <<profile, session, thread, chatAgents, prose, lines, notes, overlapped, chatUpsets>>

\* The line goes in without a look: it carries no id.
RefusalWrites(t) ==
    /\ AtTurn(t, "line")
    /\ lines' = [lines EXCEPT ![Reply(t)] = @ + 1]
    /\ NextReply(t, {})
    /\ UNCHANGED <<profile, session, thread, chatAgents, prose, cards, notes, overlapped, chatUpsets>>

ConfirmFails(t) ==
    /\ AtTurn(t, "card") \/ AtTurn(t, "cardRow") \/ AtTurn(t, "line")
    /\ ChatUpset
    /\ NextReply(t, {Reply(t)})
    /\ UNCHANGED <<profile, session, thread, chatAgents, prose, cards, lines, notes, overlapped>>

(***************************************************************************)
(* The agents, and the operator's stop.                                    *)
(***************************************************************************)
AgentReplies(form) ==
    /\ chatAgents > 0
    /\ Len(thread) < MaxReplies
    /\ thread' = Append(thread, form)
    /\ UNCHANGED <<profile, session, chatAgents, turn, prose, cards, lines, notes, overlapped,
                   chatUpsets>>

\* By itself, or killed by the operator's stop, which goes by the tag; the
\* stop appends a line of its own.
AgentsGo(all) ==
    /\ chatAgents > 0
    /\ ChatUpset
    /\ chatAgents' = IF all THEN 0 ELSE chatAgents - 1
    /\ UNCHANGED <<profile, session, thread, turn, prose, cards, lines, notes, overlapped>>

ChatInit ==
    /\ \E chat \in Chats : profile = chat.profile /\ session = chat.session
    /\ thread = <<>>
    /\ chatAgents = 0
    /\ turn = [t \in Turns |-> NewTurn]
    /\ prose = [e \in Replies |-> 0] /\ cards = [e \in Replies |-> 0]
    /\ lines = [e \in Replies |-> 0]
    /\ notes = {}
    /\ overlapped = FALSE
    /\ chatUpsets = 0

TurnSteps(t) ==
    \/ \E hidden \in BOOLEAN :
          LooksForSession(t, hidden) \/ PinsCursor(t, hidden) \/ PollsSession(t, hidden)
    \/ \E mute \in BOOLEAN : TurnFails(t, mute) \/ TimesOut(t, mute)
    \/ LaunchesAgent(t) \/ DrainsThread(t) \/ DrainFails(t)
    \/ AppendLooks(t) \/ AppendWrites(t) \/ AppendFails(t)
    \/ ConfirmLooks(t) \/ ConfirmWrites(t) \/ RefusalWrites(t) \/ ConfirmFails(t)

ChatNext ==
    \/ \E t \in Turns : PostAgentChat(t) \/ TurnSteps(t)
    \/ \E form \in Forms : AgentReplies(form)
    \/ \E all \in BOOLEAN : AgentsGo(all)

ChatSpec == ChatInit /\ [][ChatNext]_chatVars

-----------------------------------------------------------------------------

ChatTypeOK ==
    /\ [profile |-> profile, session |-> session] \in Chats
    /\ thread \in Seq(Forms) /\ Len(thread) <= MaxReplies
    /\ chatAgents \in Nat
    /\ turn \in [Turns -> [at : TurnPhases, live : BOOLEAN, pin : 0..MaxReplies,
                           cursor : 0..MaxReplies, todo : SUBSET Replies, replied : BOOLEAN,
                           seen : BOOLEAN, deserted : BOOLEAN, lost : SUBSET Replies,
                           mute : BOOLEAN]]
    /\ prose \in [Replies -> Nat] /\ cards \in [Replies -> Nat] /\ lines \in [Replies -> Nat]
    /\ notes \subseteq Turns
    /\ chatUpsets \in 0..MaxChatUpsets

\* What a turn has taken from the thread.
Heard(t) == {e \in DOMAIN thread : turn[t].pin < e /\ e <= turn[t].cursor}

\* What the conversation shows of a reply.
Shown(e) == prose[e] + cards[e] + lines[e] > 0

\* No reply falls between drain and conversation, and the operator is not left
\* without a word: every reply that a turn took from the thread is shown when
\* the turn is over, however turns overlap and polls fail, unless an append of
\* that very reply failed, and a turn that heard none has left a note, unless
\* the note itself could not be appended or no agent was alive any more. (A
\* turn that could not tell where the thread stood hears the replies of the
\* turns before it, too. stream_replies, persist_reply, post_agent_chat)
TurnIsAnswered ==
    \A t \in Turns : AtTurn(t, "over") =>
        /\ \A e \in Heard(t) : Shown(e) \/ e \in turn[t].lost
        /\ Heard(t) = {} => t \in notes \/ turn[t].mute \/ turn[t].deserted

\* A reply makes one message and one card in the conversation at most, though
\* a turn that could not pin its cursor drains the thread from its beginning;
\* two turns that drain one reply at the same time may make two, and the lines
\* that refuse a proposal are not counted. (append_agent_message)
NoReplyTwice == ~overlapped => \A e \in Replies : prose[e] <= 1 /\ cards[e] <= 1
=============================================================================
