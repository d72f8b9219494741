-------------------------------- MODULE Rounds --------------------------------
(***************************************************************************)
(* What happens inside a turn of the agent: rounds of one call of the      *)
(* model each, the tools it asks for, and the reply that is left.          *)
(*                                                                         *)
(* Source: app/agents/orchestrator.py, app/agents/registry.py,             *)
(* app/services/inbox_service.py (set_mode), SentimentService.assess,      *)
(* AgentWorker._handle.                                                    *)
(*                                                                         *)
(* A turn is one transaction: what its tools change is committed after the *)
(* reply has been sent.  The conversation it reads at its start is the one *)
(* its tools see, whatever colleagues commit meanwhile; and a colleague's  *)
(* request decides on the mode it read, without a lock, and writes it when *)
(* it commits.  Module Turns has such a turn as one step, with the queue   *)
(* around it.                                                              *)
(***************************************************************************)
EXTENDS Integers, Sequences, FiniteSets

CONSTANTS
    Answerers,      \* turns that may run at once
    Colleagues,     \* requests to change the mode that may be handled at once
    ToolNames,      \* names the model may use, implemented or not
    MaxRounds,      \* MAX_ROUNDS
    MaxCalls,       \* bound: tool calls in one answer of the model
    MaxTurns,       \* bound: turns begun
    MaxTakeovers    \* bound: colleagues' requests

ASSUME RoundsAssumption ==
    /\ Answerers \cap Colleagues = {}
    /\ ToolNames \subseteq {"handoff", "search", "lead", "nudge", "unknown"}
    /\ MaxRounds \in Nat \ {0}
    /\ MaxCalls \in Nat /\ MaxTurns \in Nat /\ MaxTakeovers \in Nat

VARIABLES
    mode,        \* who has the conversation, as committed
    kept,        \* what committed turns have left: a lead, a nudge
    events,      \* analytics: how often it is said to have come to whom
    answering,   \* where each turn is
    changing,    \* where each colleague's request is
    came,        \* history: how often the conversation did come to whom
    overtaken,   \* history: who read the mode before another changed it
    overlapped,  \* history: one who was overtaken has changed the mode as well
    turnsBegun,  \* bound: turns begun so far
    takeovers    \* bound: colleagues' requests so far

modeVars == <<mode, events, came, overtaken, overlapped>>
roundsVars == <<modeVars, kept, answering, changing, turnsBegun, takeovers>>

Modes == {"ai", "human"}

\* What a call's arguments may be: usable, empty, with a name the tool does not
\* have, or with a value of another type than declared.
Arguments == {"good", "empty", "invented", "mistyped"}

\* seen: the mode the turn read; shown: the mode its session now has; left: what
\* its tools have staged; words: history: some round said something.
Silent == [stage |-> "idle", round |-> 0, calls |-> <<>>, seen |-> "ai",
           shown |-> "ai", left |-> {}, text |-> FALSE, words |-> FALSE,
           handed |-> FALSE, sent |-> FALSE]

\* A request for mode "to", which read that the conversation had mode "read".
NoChange == [open |-> FALSE, read |-> "ai", to |-> "ai"]

RoundsInit ==
    /\ mode = "ai"
    /\ kept = {}
    /\ events = [to \in Modes |-> 0]
    /\ answering = [w \in Answerers |-> Silent]
    /\ changing = [c \in Colleagues |-> NoChange]
    /\ came = [to \in Modes |-> 0]
    /\ overtaken = {}
    /\ overlapped = FALSE
    /\ turnsBegun = 0
    /\ takeovers = 0

Going(w, turn) ==
    /\ answering' = [answering EXCEPT ![w] = turn]
    /\ UNCHANGED <<modeVars, kept, changing, turnsBegun, takeovers>>

\* The beginning of AgentOrchestrator.answer.  A turn for a conversation a person
\* has, or with nobody to answer and nothing to answer, ends where it begins.
BeginTurn(w) ==
    /\ answering[w].stage = "idle"
    /\ turnsBegun < MaxTurns
    /\ mode = "ai"
    /\ answering' = [answering EXCEPT ![w] =
                        [Silent EXCEPT !.stage = "respond", !.round = 1]]
    /\ turnsBegun' = turnsBegun + 1
    /\ UNCHANGED <<modeVars, kept, changing, takeovers>>

\* Mutant: only what the last round says counts.
LastText(text, said) == said

\* text = reply.text or text
KeptText(text, said) == text \/ said

\* One call of the provider: words, tool calls, both or neither.
Respond(w) ==
    \E said \in BOOLEAN, n \in 0..MaxCalls : \E calls \in [1..n -> ToolNames] :
        /\ answering[w].stage = "respond"
        /\ Going(w, [answering[w] EXCEPT
                !.stage = IF n = 0 THEN "close" ELSE "tools",
                !.calls = calls,
                !.text = KeptText(@, said),
                !.words = @ \/ said])

\* Parameters with required = True.
Required(tool) == tool \in {"handoff", "search", "nudge"}

\* ToolRegistry.run and validate_arguments: the other calls raise ToolArgumentError,
\* which the model is told as the tool's output.
CallAccepted(tool, arguments) ==
    /\ tool # "unknown"
    /\ \/ arguments = "good"
       \/ arguments = "empty" /\ ~Required(tool)

\* Mutant: a second handoff of one conversation is an event of its own.
EventAlways(from, to) == TRUE

\* set_mode: only a change is an event.
IsEvent(from, to) == from # to

\* The conversation becomes a person's; the session sees that at once.
RequestHumanHandoff(turn) ==
    [turn EXCEPT !.shown = "human",
                 !.left = IF IsEvent(turn.shown, "human")
                          THEN @ \cup {"event"} ELSE @]

\* SentimentService.assess, before the first round: the customer is too angry for
\* an agent, and nothing is said.  What was judged on an earlier attempt only
\* silences: a colleague may have given the conversation back since.
Escalate(w) ==
    LET turn == answering[w] IN
    /\ turn.stage = "respond" /\ turn.round = 1
    /\ \E new \in {RequestHumanHandoff(turn), turn} :
        Going(w, [new EXCEPT !.stage = "close", !.handed = TRUE])

\* Refused once a person has the conversation, and saved only if there is
\* something to save.
RecordLeadDetails(turn, arguments) ==
    IF turn.shown = "human" \/ arguments = "empty" THEN turn
    ELSE [turn EXCEPT !.left = @ \cup {"lead"}]

ScheduleFollowUp(turn) == [turn EXCEPT !.left = @ \cup {"nudge"}]

\* What was found, or that nothing was, is for the model alone.
SearchKnowledge(turn) == turn

Handled(turn, tool, arguments) ==
    CASE tool = "handoff" -> RequestHumanHandoff(turn)
      [] tool = "search" -> SearchKnowledge(turn)
      [] tool = "lead" -> RecordLeadDetails(turn, arguments)
      [] tool = "nudge" -> ScheduleFollowUp(turn)

\* A handoff ends the rounds, whether or not it was accepted.
AfterCall(turn, tool) ==
    [turn EXCEPT !.calls = Tail(@), !.handed = @ \/ tool = "handoff"]

NextStage(turn) ==
    IF turn.calls # <<>> THEN turn
    ELSE IF turn.handed \/ turn.round = MaxRounds
         THEN [turn EXCEPT !.stage = "close"]
         ELSE [turn EXCEPT !.stage = "respond", !.round = @ + 1]

\* _run: what is rejected, or fails with an error of the application's, changes
\* nothing and is an output like any other.
CallOutcomes(turn, tool) ==
    {turn} \cup {Handled(turn, tool, arguments) :
                    arguments \in {a \in Arguments : CallAccepted(tool, a)}}

RunCall(w) ==
    LET turn == answering[w]  tool == Head(turn.calls) IN
    /\ turn.stage = "tools"
    /\ \E new \in CallOutcomes(turn, tool) : Going(w, NextStage(AfterCall(new, tool)))

\* Nobody who has ended is waiting to be overtaken.
EndTurn(w) ==
    /\ answering' = [answering EXCEPT ![w] = Silent]
    /\ UNCHANGED <<changing, turnsBegun, takeovers>>

EndChange(c) ==
    /\ changing' = [changing EXCEPT ![c] = NoChange]
    /\ UNCHANGED <<answering, kept, turnsBegun, takeovers>>

Forget(a) ==
    /\ overtaken' = overtaken \ {a}
    /\ UNCHANGED <<mode, events, came, overlapped>>

\* The provider or a tool fails with any other error, or the worker dies: the
\* transaction is rolled back.
TurnBreaks(w) ==
    /\ answering[w].stage # "idle"
    /\ EndTurn(w) /\ Forget(w)
    /\ UNCHANGED kept

\* The reply, sent before the commit; after a handoff there is none.
SendReply(w) ==
    /\ answering[w].stage = "close"
    /\ Going(w, [answering[w] EXCEPT !.stage = "done",
                                     !.sent = @ \/ (answering[w].text
                                                    /\ ~answering[w].handed)])

\* Everybody who has read the mode and not ended.
HaveRead == {w \in Answerers : answering[w].stage # "idle"}
            \cup {c \in Colleagues : changing[c].open}

\* What the commit of one who read the mode "read" and set it to "to" does to the
\* row, which is written only if the two differ, and to the reports.
ModeCommitted(a, read, to, reported) ==
    LET new == IF to = read THEN mode ELSE to IN
    /\ mode' = new
    /\ events' = IF reported THEN [events EXCEPT ![to] = @ + 1] ELSE events
    /\ came' = IF new # mode THEN [came EXCEPT ![new] = @ + 1] ELSE came
    /\ overtaken' = (IF new # mode THEN HaveRead ELSE overtaken) \ {a}
    /\ overlapped' = (overlapped \/ (to # read /\ a \in overtaken))

CommitTurn(w) ==
    LET turn == answering[w] IN
    /\ turn.stage = "done"
    /\ ModeCommitted(w, turn.seen, turn.shown, "event" \in turn.left)
    /\ kept' = kept \cup (turn.left \ {"event"})
    /\ EndTurn(w)

\* A colleague takes the conversation or gives it back: the request reads the row,
\* without a lock, and commits what it made of it later, or fails.
ReadMode(c) ==
    /\ takeovers < MaxTakeovers
    /\ ~changing[c].open
    /\ takeovers' = takeovers + 1
    /\ \E to \in Modes :
        changing' = [changing EXCEPT ![c] = [open |-> TRUE, read |-> mode, to |-> to]]
    /\ UNCHANGED <<modeVars, kept, answering, turnsBegun>>

CommitMode(c) ==
    LET change == changing[c] IN
    /\ change.open
    /\ ModeCommitted(c, change.read, change.to, IsEvent(change.read, change.to))
    /\ EndChange(c)

ChangeFails(c) ==
    /\ changing[c].open
    /\ EndChange(c) /\ Forget(c)

RoundsNext ==
    \/ \E w \in Answerers :
        \/ BeginTurn(w) \/ Escalate(w) \/ Respond(w) \/ RunCall(w)
        \/ TurnBreaks(w) \/ SendReply(w) \/ CommitTurn(w)
    \/ \E c \in Colleagues : ReadMode(c) \/ CommitMode(c) \/ ChangeFails(c)

RoundsSpec == RoundsInit /\ [][RoundsNext]_roundsVars

-----------------------------------------------------------------------------
(* Properties                                                              *)

Turn == [stage : {"idle", "respond", "tools", "close", "done"}, round : 0..MaxRounds,
         calls : Seq(ToolNames), seen : Modes, shown : Modes,
         left : SUBSET {"lead", "nudge", "event"}, text : BOOLEAN, words : BOOLEAN,
         handed : BOOLEAN, sent : BOOLEAN]

\* Every variable has its type; no turn asks the model more than MaxRounds times.
RoundsTypeOK ==
    /\ mode \in Modes
    /\ kept \subseteq {"lead", "nudge"}
    /\ events \in [Modes -> Nat] /\ came \in [Modes -> Nat]
    /\ answering \in [Answerers -> Turn]
    /\ \A w \in Answerers : Len(answering[w].calls) <= MaxCalls
    /\ changing \in [Colleagues -> [open : BOOLEAN, read : Modes, to : Modes]]
    /\ overtaken \subseteq HaveRead
    /\ overlapped \in BOOLEAN
    /\ turnsBegun \in 0..MaxTurns /\ takeovers \in 0..MaxTakeovers

\* However its rounds go - words and tools in any mixture, calls that are
\* rejected or fail, rounds that run out - a turn that ends sends something
\* exactly if the model said something and did not ask for a person.
SaidIsSent ==
    \A w \in Answerers :
        answering[w].stage = "done" =>
            (answering[w].sent <=> answering[w].words /\ ~answering[w].handed)

\* Whoever takes the conversation or gives it back, and however they cross, no
\* change of hands goes unreported; and none is reported twice, unless somebody
\* changed the mode who had read it before another did.
HandoffsAreCounted ==
    /\ \A to \in Modes : came[to] <= events[to]
    /\ ~overlapped => events = came

\* What a turn said is sent, and handoffs are reported as often as they happen.
TurnsHold == SaidIsSent /\ HandoffsAreCounted

\* Violated: "Only a real change is an event" (inbox_service.py).  Two colleagues,
\* or a colleague and a turn, read "ai", and each reports a handoff.
OnlyRealChanges == events = came

\* Violated: "The conversation belongs to a person now" (orchestrator.py).  A
\* handoff whose arguments are rejected silences the agent as well, and the
\* conversation stays where it was.
HandedOffMeansHuman ==
    \A w \in Answerers :
        answering[w].stage = "done" /\ answering[w].handed
            => answering[w].shown = "human"

=============================================================================
