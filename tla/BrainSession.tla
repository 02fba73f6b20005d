----------------------------- MODULE BrainSession -----------------------------
(***************************************************************************)
(* The gRPC client of the brain (livekit/agent/eidolon_agent_rpc): one     *)
(* session with one long-lived Chat() call for all turns of a job          *)
(* (session.py), the LLM streams that run turns on it (grpc_llm.py), the   *)
(* speculative turns of the warmer (preemptive.py), and the tools of the   *)
(* channel that the brain calls over it.                                   *)
(*                                                                         *)
(* A step is the code between two awaits.  The brain and grpc.aio are      *)
(* external: a call may end at any time, a read or a write that is         *)
(* cancelled cancels its call, and frames of one call keep their order.    *)
(* A frame counts only as far as control depends on it: a sign of life, or *)
(* the end of the turn.                                                    *)
(***************************************************************************)
EXTENDS Integers, FiniteSets

CONSTANTS
    MaxTurns,     \* bound on the calls of start_turn
    MaxCalls,     \* bound on the Chat() calls
    MaxTools      \* bound on the turns in which the brain calls a tool

ASSUME BrainAssumption == {MaxTurns, MaxCalls} \subseteq Nat \ {0} /\ MaxTools \in Nat

Turns == 1 .. MaxTurns
Calls == 1 .. MaxCalls

VARIABLES
    phase,       \* where the turn's starter, then its consumer, is
    speculative, \* the turn is a warm-up
    attempt,     \* the turns of the utterance before it that were given up for a retry
    awaited,     \* the warm-up whose cancellation the starter awaits, or 0
    active,      \* first_model_activity_seen
    inbox,       \* the turn is in _inbox, and the end that its queue holds
    warm,        \* _active_turn_id of the warmer, or 0
    cancel,      \* cancel_turn of the turn
    tool,        \* the task of the turn's channel tool
    cur,         \* _call
    alive,       \* the calls that are not done
    broken,      \* the current call ended with an error
    reader,      \* _reader_loop of the current call
    lost,        \* calls whose reader was cut off before its last broadcast
    brain,       \* the brain's run of the turn
    on,          \* the call that the running turn was started on
    session      \* aclose

turns == <<speculative, attempt, awaited, active, warm>>
wire  == <<cur, alive, broken, reader, lost>>
vars  == <<phase, inbox, turns, cancel, tool, wire, brain, on, session>>

\* What is not looked at again is reset.
NoQueue == [known |-> FALSE, end |-> "none"]
Queue == [known |-> TRUE, end |-> "none"]

\* The session is new, or earlier turns are over and their call has ended since, which its
\* reader has noticed or not.
Init ==
    /\ phase = [t \in Turns |-> "none"] /\ speculative = [t \in Turns |-> FALSE]
    /\ attempt = [t \in Turns |-> {}] /\ awaited = [t \in Turns |-> 0]
    /\ active = [t \in Turns |-> FALSE] /\ inbox = [t \in Turns |-> NoQueue] /\ warm = 0
    /\ cancel = [t \in Turns |-> "none"] /\ tool = [t \in Turns |-> "none"]
    /\ \/ cur = 0 /\ reader = "none" /\ broken = FALSE
       \/ cur = 1 /\ reader \in {"reading", "over"} /\ broken \in {FALSE, reader = "reading"}
    /\ alive = {} /\ lost = {}
    /\ brain = [t \in Turns |-> "none"] /\ on = [t \in Turns |-> 0] /\ session = "open"

-----------------------------------------------------------------------------
(* Queues.                                                                 *)

\* The first end in a queue is the one its consumer sees.
Put(q, end) == IF q.known /\ q.end = "none" THEN [q EXCEPT !.end = end] ELSE q

\* _broadcast_error.
Broadcast == [t \in Turns |-> Put(inbox[t], "ended")]

\* The turn is over for its starter and its consumer.
Over(t) ==
    /\ phase' = [phase EXCEPT ![t] = "over"] /\ inbox' = [inbox EXCEPT ![t] = NoQueue]
    /\ active' = [active EXCEPT ![t] = FALSE] /\ on' = [on EXCEPT ![t] = 0]

-----------------------------------------------------------------------------
(* Tools, the call, and who writes on it.                                  *)

ToolWaits == {"running", "stopping", "reporting", "sending"}
ToolsOf(S) == {t \in S : tool[t] \in ToolWaits}

\* Task.cancel of the tools of S: the handler stops and the device is stopped next; a second one
\* cuts that off; and one that finds the task at its write cancels the write.
CancelTools(S) ==
    tool' = [t \in Turns |-> IF t \notin ToolsOf(S) THEN tool[t]
                             ELSE CASE tool[t] = "running" -> "stopping"
                                    [] tool[t] = "stopping" -> "cut"
                                    [] OTHER -> "over"]

\* The call ends, and what the brain runs on it.
Ended == [t \in Turns |-> IF brain[t] \in {"running", "told"} THEN "over" ELSE brain[t]]
End(why) == alive' = alive \ {cur} /\ broken' = (why = "error") /\ brain' = Ended

\* At the write lock one writes and the others wait.
Writers == {<<"start", t>> : t \in {s \in Turns : phase[s] = "writing"}}
           \cup {<<"cancel", t>> : t \in {s \in Turns : cancel[s] = "writing"}}
           \cup {<<"tool", t>> : t \in {s \in Turns : tool[s] \in {"reporting", "sending"}}}

\* One of them is cancelled: at its write, and the call with it, or before.
WriterCut ==
    \/ cur \in alive /\ End("cancelled")
    \/ (cur \notin alive \/ Cardinality(Writers) > 1) /\ UNCHANGED <<alive, broken, brain>>
ToolWriterCut(S) ==
    IF \E t \in S : tool[t] \in {"reporting", "sending"}
    THEN WriterCut ELSE UNCHANGED <<alive, broken, brain>>

-----------------------------------------------------------------------------
(* start_turn and _ensure_open.                                            *)

\* A reader that has ended, and told whom it had to or not.
Gone == {"over", "lost"}

\* A mutant of LockFree: no lock.
LockFreeAlways == TRUE

LockFree == \A t \in Turns : phase[t] \notin {"reaping", "closing"}

\* A new call with its reader.
Create == cur < MaxCalls /\ cur' = cur + 1 /\ alive' = alive \cup {cur'} /\ reader' = "reading"

\* Task.cancel of the reader: cancelled while it waits for the tools, it cancels them again.
CancelReader ==
    \/ reader \in {"reading", "cancelled"} /\ reader' = "cancelled" /\ UNCHANGED tool
    \/ reader \in {"settling", "cut"} /\ reader' = "cut" /\ CancelTools(Turns)
    \/ reader \in Gone /\ UNCHANGED <<reader, tool>>

\* _ensure_open, from the lock to its first await; p is where the starter is then.
EnsureOpen(p) ==
    \/ /\ cur \in alive /\ p = "writing" /\ UNCHANGED <<cur, alive, reader, tool>>
    \/ /\ cur = 0 /\ p = "writing" /\ Create /\ UNCHANGED tool
    \/ /\ cur # 0 /\ cur \notin alive /\ reader \in Gone
       /\ p = "closing" /\ UNCHANGED <<cur, alive, reader, tool>>
    \/ /\ cur # 0 /\ cur \notin alive /\ reader \notin Gone
       /\ p = "reaping" /\ CancelReader /\ UNCHANGED <<cur, alive>>

\* start_turn up to its first await; it raises when the session is closed.
StartTurn(t) ==
    \/ /\ session # "open" /\ phase' = [phase EXCEPT ![t] = "over"]
       /\ UNCHANGED <<inbox, cur, alive, reader, tool>>
    \/ /\ session = "open" /\ inbox' = [inbox EXCEPT ![t] = Queue]
       /\ \/ ~LockFree /\ phase' = [phase EXCEPT ![t] = "opening"] /\ UNCHANGED <<cur, alive, reader, tool>>
          \/ /\ LockFree
             /\ \E p \in {"reaping", "closing", "writing"} :
                   EnsureOpen(p) /\ phase' = [phase EXCEPT ![t] = p]

\* The lock has come to the starter.
GetsLock(t) ==
    /\ phase[t] = "opening" /\ LockFree
    /\ \E p \in {"reaping", "closing", "writing"} : EnsureOpen(p) /\ phase' = [phase EXCEPT ![t] = p]
    /\ UNCHANGED <<inbox, turns, cancel, broken, lost, brain, on, session>>

\* The reader of the ended call is gone; its channel is closed next.
Reaped(t) ==
    /\ phase[t] = "reaping" /\ reader \in Gone
    /\ phase' = [phase EXCEPT ![t] = "closing"]
    /\ UNCHANGED <<inbox, turns, cancel, tool, wire, brain, on, session>>

ChannelClosed(t) ==
    /\ phase[t] = "closing" /\ Create
    /\ phase' = [phase EXCEPT ![t] = "writing"]
    /\ UNCHANGED <<inbox, turns, cancel, tool, broken, lost, brain, on, session>>

\* StartTurn is written: the turn runs, and a warm-up becomes the one in flight.
Started(t) ==
    /\ phase[t] = "writing" /\ cur \in alive
    /\ phase' = [phase EXCEPT ![t] = "running"]
    /\ brain' = [brain EXCEPT ![t] = "running"] /\ on' = [on EXCEPT ![t] = cur]
    /\ warm' = IF speculative[t] THEN t ELSE warm
    /\ UNCHANGED <<inbox, speculative, attempt, awaited, active, cancel, tool, wire, session>>

\* The call has ended: the write raises, and the turn is taken out of _inbox.
StartFails(t) ==
    /\ phase[t] = "writing" /\ cur \notin alive /\ Over(t)
    /\ UNCHANGED <<speculative, attempt, awaited, warm, cancel, tool, wire, brain, session>>

-----------------------------------------------------------------------------
(* Who starts a turn: an LLM stream, which first discards the warm-up, and *)
(* the warmer.                                                             *)

\* Turns are numbered as they begin.
Fresh(t) == /\ phase[t] = "none" /\ attempt[t] = {}
            /\ \A s \in 1 .. t - 1 : phase[s] # "none" \/ attempt[s] # {}

\* discard, up to the write of its CancelTurn (a speculative turn has no tools), then start_turn.
Discards(t) ==
    \/ /\ warm # 0 /\ warm' = 0
       /\ phase' = [phase EXCEPT ![t] = "discarding"] /\ awaited' = [awaited EXCEPT ![t] = warm]
       /\ cancel' = [cancel EXCEPT ![warm] = "writing"]
       /\ UNCHANGED <<inbox, cur, alive, reader, tool>>
    \/ warm = 0 /\ StartTurn(t) /\ UNCHANGED <<awaited, warm, cancel>>

\* EidolonAgentGrpcLlmStream._run, for a new utterance or a new attempt at one.
Chat(t) ==
    /\ Fresh(t) \/ (phase[t] = "none" /\ attempt[t] # {})
    /\ Discards(t)
    /\ UNCHANGED <<speculative, attempt, active, broken, lost, brain, on, session>>

\* PreemptiveWarmer.warm, scheduled for every interim transcript.
Warm(t) ==
    /\ Fresh(t) /\ speculative' = [speculative EXCEPT ![t] = TRUE] /\ Discards(t)
    /\ UNCHANGED <<attempt, active, broken, lost, brain, on, session>>

Discarded(t) ==
    /\ phase[t] = "discarding" /\ cancel[awaited[t]] = "done"
    /\ StartTurn(t) /\ awaited' = [awaited EXCEPT ![t] = 0]
    /\ UNCHANGED <<speculative, attempt, active, warm, cancel, broken, lost, brain, on, session>>

\* An LLM stream whose turn has not started is cancelled, or its start_turn times out.  A write
\* that is cancelled cancels the call, whether or not the brain has heard it.
Aborts(t) ==
    /\ ~speculative[t]
    /\ \/ phase[t] = "discarding" /\ WriterCut /\ cancel' = [cancel EXCEPT ![awaited[t]] = "done"]
       \/ phase[t] \in {"opening", "closing"} /\ UNCHANGED <<cancel, alive, broken, brain>>
       \/ phase[t] = "writing" /\ WriterCut /\ UNCHANGED cancel
    /\ Over(t) /\ awaited' = [awaited EXCEPT ![t] = 0]
    /\ UNCHANGED <<speculative, warm, tool, cur, reader, lost, session>>

\* The stream is cancelled for good.
StartCancelled(t) == Aborts(t) /\ UNCHANGED attempt

\* start_turn times out, and the framework tries the utterance again (retryable=True).
StartTimesOut(t, s) ==
    /\ phase[t] # "discarding" /\ Fresh(s) /\ Aborts(t)
    /\ attempt' = [attempt EXCEPT ![s] = attempt[t] \cup {t}]

\* The same while the starter awaits the reader: the cancellation goes on to the reader, whose
\* end swallows it (session.py:481-483), and the start goes on.
CancelPassesOn(t) ==
    /\ phase[t] = "reaping" /\ ~speculative[t] /\ CancelReader
    /\ UNCHANGED <<phase, inbox, turns, cancel, cur, alive, broken, lost, brain, on, session>>

-----------------------------------------------------------------------------
(* Consumers.                                                              *)

\* DONE, an error of the brain, or the end of the call or the session.
Finish(t) ==
    /\ phase[t] = "running" /\ inbox[t].end # "none" /\ Over(t)
    /\ UNCHANGED <<speculative, attempt, awaited, warm, cancel, tool, wire, brain, session>>

\* The stream gives its turn up and leaves the telling to a task of the session.
GiveUp(t) ==
    /\ phase[t] = "running" /\ ~speculative[t] /\ Over(t)
    /\ cancel' = [cancel EXCEPT ![t] = "spawned"]
    /\ UNCHANGED <<speculative, awaited, warm, tool, wire, brain, session>>

\* The user barges in.
Interrupted(t) == GiveUp(t) /\ UNCHANGED attempt

\* A mutant of DeadlinePasses: the framework may retry it (retryable=True).
DeadlinePassesRetryably(t) ==
    /\ ~active[t] /\ inbox[t].end = "none" /\ GiveUp(t)
    /\ \E s \in Turns : Fresh(s) /\ attempt' = [attempt EXCEPT ![s] = attempt[t] \cup {t}]

\* No sign of the model comes in time (retryable=False).
DeadlinePasses(t) == ~active[t] /\ inbox[t].end = "none" /\ GiveUp(t) /\ UNCHANGED attempt

-----------------------------------------------------------------------------
(* cancel_turn.                                                            *)

CancelRuns(t) ==
    /\ cancel[t] = "spawned"
    /\ cancel' = [cancel EXCEPT ![t] = IF tool[t] \in ToolWaits THEN "tools" ELSE "writing"]
    /\ CancelTools({t}) /\ ToolWriterCut({t})
    /\ UNCHANGED <<phase, inbox, turns, cur, reader, lost, on, session>>

\* A mutant of ToolsGone: a tool that ends cancelled takes cancel_turn with it
\* (no return_exceptions).
ToolsGoneOrRaise(t) ==
    /\ cancel[t] = "tools" /\ tool[t] \notin ToolWaits
    /\ cancel' = [cancel EXCEPT ![t] = IF tool[t] = "cut" THEN "done" ELSE "writing"]
    /\ UNCHANGED <<phase, inbox, turns, tool, wire, brain, on, session>>

ToolsGone(t) ==
    /\ cancel[t] = "tools" /\ tool[t] \notin ToolWaits
    /\ cancel' = [cancel EXCEPT ![t] = "writing"]
    /\ UNCHANGED <<phase, inbox, turns, tool, wire, brain, on, session>>

\* CancelTurn is written, or the write fails and is ignored.
CancelWritten(t) ==
    /\ cancel[t] = "writing"
    /\ cancel' = [cancel EXCEPT ![t] = "done"]
    /\ brain' = [brain EXCEPT ![t] = IF @ = "running" THEN "told" ELSE @]
    /\ UNCHANGED <<phase, inbox, turns, tool, wire, on, session>>

-----------------------------------------------------------------------------
(* Frames of the brain, dispatched by the reader of the call.              *)

Dispatched(t) == brain[t] \in {"running", "told"} /\ reader = "reading"

\* A payload that shows the model at work stops the clock of the first delta.
BrainWorks(t) ==
    /\ Dispatched(t) /\ phase[t] = "running" /\ ~speculative[t] /\ inbox[t].end = "none"
    /\ active' = [active EXCEPT ![t] = TRUE]
    /\ UNCHANGED <<phase, inbox, speculative, attempt, awaited, warm, cancel, tool, wire, brain, on, session>>

BrainEnds(t) ==
    /\ Dispatched(t) /\ brain' = [brain EXCEPT ![t] = "over"]
    /\ inbox' = [inbox EXCEPT ![t] = Put(@, "done")]
    /\ UNCHANGED <<phase, turns, cancel, tool, wire, on, session>>

\* CHANNEL_TOOL_CALL of a turn that _inbox has.
BrainCalls(t) ==
    /\ Dispatched(t) /\ ~speculative[t]
    /\ inbox[t].known /\ tool[t] = "none" /\ Cardinality({s \in Turns : tool[s] # "none"}) < MaxTools
    /\ tool' = [tool EXCEPT ![t] = "running"]
    /\ UNCHANGED <<phase, inbox, turns, cancel, wire, brain, on, session>>

\* CHANNEL_TOOL_CANCEL.
BrainRecalls(t) ==
    /\ reader = "reading" /\ cur \in alive /\ tool[t] \in ToolWaits
    /\ CancelTools({t}) /\ ToolWriterCut({t})
    /\ UNCHANGED <<phase, inbox, turns, cancel, cur, reader, lost, on, session>>

\* _execute_channel_tool: the handler answers, or the device has been stopped; then it writes.
ToolReturns(t) ==
    /\ tool[t] \in {"running", "stopping"}
    /\ tool' = [tool EXCEPT ![t] = IF @ = "running" THEN "sending" ELSE "reporting"]
    /\ UNCHANGED <<phase, inbox, turns, cancel, wire, brain, on, session>>

ToolWritten(t) ==
    /\ tool[t] \in {"sending", "reporting"} /\ tool' = [tool EXCEPT ![t] = "over"]
    /\ UNCHANGED <<phase, inbox, turns, cancel, wire, brain, on, session>>

-----------------------------------------------------------------------------
(* The call and its reader.                                                *)

\* The brain closes the stream, or the connection is lost.
CallEnds(why) ==
    /\ cur \in alive /\ End(why)
    /\ UNCHANGED <<phase, inbox, turns, cancel, tool, cur, reader, lost, on, session>>

\* _reader_loop leaves its loop: an error is broadcast, and all tools are cancelled.
ReaderLeaves ==
    /\ reader = "cancelled" \/ (reader = "reading" /\ cur \notin alive)
    /\ reader' = IF ToolsOf(Turns) = {} THEN "over" ELSE "settling"
    /\ inbox' = IF reader' = "over" \/ (broken /\ reader = "reading") THEN Broadcast ELSE inbox
    /\ broken' = FALSE /\ CancelTools(Turns)
    /\ UNCHANGED <<phase, turns, cancel, cur, alive, lost, brain, on, session>>

\* The tools are gone: who is left is told that the stream has ended, unless the reader was
\* cancelled while it waited for them.
ReaderSettles ==
    /\ reader \in {"settling", "cut"} /\ ToolsOf(Turns) = {}
    /\ IF reader = "settling" THEN reader' = "over" /\ inbox' = Broadcast /\ UNCHANGED lost
       ELSE reader' = "lost" /\ lost' = lost \cup {cur} /\ UNCHANGED inbox
    /\ UNCHANGED <<phase, turns, cancel, tool, cur, alive, broken, brain, on, session>>

-----------------------------------------------------------------------------
(* aclose.                                                                 *)

Leaving == {"cancelled", "settling", "cut"}

\* The call is half-closed and its reader cancelled, which ends the call.
CloseBegins ==
    /\ session = "open"
    /\ IF cur = 0
       THEN session' = "tasks" /\ UNCHANGED <<wire, brain, tool>>
       ELSE session' = "reader" /\ CancelReader /\ End("cancelled") /\ UNCHANGED <<cur, lost>>
    /\ UNCHANGED <<phase, inbox, turns, cancel, on>>

\* The background tasks are cancelled: what cancel_turn was about, drains of warm-ups, tools,
\* and the reader of a call that was opened meanwhile.
CloseCancels ==
    LET draining(t) == phase[t] = "running" /\ speculative[t]
    IN  /\ session = "reader" /\ reader \notin Leaving /\ session' = "tasks"
        /\ cancel' = [t \in Turns |-> IF cancel[t] # "none" /\ \A s \in Turns : awaited[s] # t
                                      THEN "done" ELSE cancel[t]]
        /\ phase' = [t \in Turns |-> IF draining(t) THEN "over" ELSE phase[t]]
        /\ inbox' = [t \in Turns |-> IF draining(t) THEN NoQueue ELSE inbox[t]]
        /\ on' = [t \in Turns |-> IF draining(t) THEN 0 ELSE on[t]]
        /\ IF cur \in alive THEN End("cancelled") /\ reader' = "cancelled"
           ELSE UNCHANGED <<alive, broken, brain, reader>>
        /\ CancelTools(Turns)
        /\ UNCHANGED <<turns, cur, lost>>

\* The channel is closed, and the consumers that are left are told.
CloseEnds ==
    /\ session = "tasks" /\ ToolsOf(Turns) = {} /\ reader \notin Leaving
    /\ session' = "closed"
    /\ inbox' = [t \in Turns |-> [Put(inbox[t], "closed") EXCEPT !.known = FALSE]]
    /\ IF cur \in alive THEN End("eof") ELSE UNCHANGED <<alive, broken, brain>>
    /\ UNCHANGED <<phase, turns, cancel, tool, cur, reader, lost, on>>

-----------------------------------------------------------------------------
Steps(t) ==
    \/ Chat(t) \/ Warm(t) \/ Discarded(t) \/ GetsLock(t) \/ Reaped(t) \/ ChannelClosed(t)
    \/ Started(t) \/ StartFails(t) \/ StartCancelled(t) \/ CancelPassesOn(t)
    \/ \E s \in Turns : StartTimesOut(t, s)
    \/ Finish(t) \/ Interrupted(t) \/ DeadlinePasses(t)
    \/ CancelRuns(t) \/ ToolsGone(t) \/ CancelWritten(t)
    \/ BrainWorks(t) \/ BrainEnds(t) \/ BrainCalls(t) \/ BrainRecalls(t)
    \/ ToolReturns(t) \/ ToolWritten(t)

Next ==
    \/ \E t \in Turns : Steps(t)
    \/ \E why \in {"eof", "error"} : CallEnds(why)
    \/ ReaderLeaves \/ ReaderSettles
    \/ CloseBegins \/ CloseCancels \/ CloseEnds

\* A task that can run does; a tool answers, as its requests time out.
Spec ==
    /\ Init /\ [][Next]_vars
    /\ \A t \in Turns : /\ WF_vars(CancelRuns(t)) /\ WF_vars(ToolsGone(t))
                        /\ WF_vars(CancelWritten(t))
                        /\ WF_vars(ToolReturns(t)) /\ WF_vars(ToolWritten(t))

-----------------------------------------------------------------------------
TypeOK ==
    /\ phase \in [Turns -> {"none", "discarding", "opening", "reaping", "closing", "writing",
                             "running", "over"}]
    /\ warm \in 0 .. MaxTurns /\ awaited \in [Turns -> 0 .. MaxTurns]
    /\ cancel \in [Turns -> {"none", "spawned", "tools", "writing", "done"}]
    /\ tool \in [Turns -> ToolWaits \cup {"none", "over", "cut"}]
    /\ cur \in 0 .. MaxCalls /\ alive \subseteq 1 .. cur /\ lost \subseteq 1 .. cur
    /\ reader \in {"none", "reading"} \cup Leaving \cup Gone
    /\ brain \in [Turns -> {"none", "running", "told", "over"}]

\* Whoever finds the call ended opens another, one at a time (_open_lock), and no turn waits on a
\* call that nobody reads: the open call is the one that turns are written to and has its reader,
\* and when a reader is gone its turns have been told ("Any remaining turn consumers should
\* unblock", session.py), wherever they were when it left.  A reader that is cancelled once more
\* while it waits for the tools tells nobody: see NoTurnIsEverStranded.
NoTurnIsStranded ==
    /\ alive # {} => alive = {cur} /\ reader = "reading"
    /\ \A t \in Turns : phase[t] = "running" /\ (on[t] # cur \/ reader \in Gone)
                      => inbox[t].end # "none" \/ on[t] \in lost

\* The same without the exception.  It does not hold: see the README.
NoTurnIsEverStranded ==
    \A t \in Turns : phase[t] = "running" /\ (on[t] # cur \/ reader \in Gone)
                     => inbox[t].end # "none" \/ session = "reader"

\* The brain never works on two turns of one utterance: a start that timed out is tried again
\* only where its turn cannot run on (grpc_llm.py: a second one would be "duplicating persistence
\* and potentially replaying tools").
RepliesOnce ==
    \A t \in Turns : brain[t] \in {"running", "told"} => \A s \in attempt[t] : brain[s] # "running"

\* A turn that the user interrupted, or that gave no sign in time, is not left running: the
\* brain is told, or the call has ended, and its tool is stopped on the way, while the brain and
\* the end of the call may recall that tool too.
AbandonedTurnsStop ==
    \A t \in Turns : cancel[t] # "none" /\ ~speculative[t]
                    ~> brain[t] # "running" /\ tool[t] \notin {"running", "sending"}

\* The warmer has one speculative turn in flight (preemptive.py: "Owns at most one in-flight
\* speculative turn"; "a new warm cancels the previous").  It does not hold: see the README.
OneSpeculation ==
    Cardinality({t \in Turns : speculative[t] /\ phase[t] = "running" /\ cancel[t] = "none"}) <= 1

\* A turn is not ended by the end of a call that it was not started on ("the next start_turn
\* lazily re-opens it. In-flight turns are not retried", session.py).  It does not hold: see
\* the README.
EndedByOwnCall == \A t \in Turns : on[t] \in alive => inbox[t].end # "ended"

\* A tool that is cancelled stops its device (_execute_channel_tool awaits the cancel handler).
\* It does not hold: see the README.
CancelledToolStops == \A t \in Turns : tool[t] # "cut"
=============================================================================
