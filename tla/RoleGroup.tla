------------------------------ MODULE RoleGroup ------------------------------
(***************************************************************************)
(* A team of devices that answers one push-to-talk user:                   *)
(* RoleGroupClient (livekit/agent/coordination/client.py) with the worker  *)
(* that owns it and the presenter that speaks its replies.                 *)
(*                                                                         *)
(* A press silences every device at once, without asking the Agent; the    *)
(* Agent numbers its rounds with epochs, confirms captures and stops, and  *)
(* sends replies one turn after another over one stream.  What crosses on  *)
(* the stream is what this module is about.  The Agent is external: it     *)
(* keeps to its protocol, in any order the protocol allows, and may vanish.*)
(* Round states (they only reach the display), the text of replies and the *)
(* limits of queues (128 frames, 64 tasks, 256 captures) are left out.     *)
(***************************************************************************)
EXTENDS Naturals, Sequences, FiniteSets

CONSTANTS
    Devices,        \* the members' output devices
    MaxCaptures,    \* bound on the presses of a scene
    MaxTurns,       \* bound on the replies
    MaxStops,       \* bound on the stops the Agent asks for
    MaxFlight       \* bound on the frames of the Agent in flight

ASSUME GroupAssumption ==
    MaxCaptures \in Nat /\ MaxTurns \in Nat /\ MaxStops \in Nat /\ MaxFlight \in Nat /\ Devices # {}

VARIABLES
    phase,     \* run(): idle, preparing, open, draining, stopping, closed
    asked,     \* _close_requested
    broken,    \* a frame of the Agent was refused as a protocol error
    cap,       \* _capture, 0 for None
    released,
    epoch,     \* _epoch, 0 for None
    last,      \* _last_epoch
    play,      \* _playback: the turn, 0 for None
    reply,     \* the turns this side knows and their presentations
    barrier,   \* _capture_stops of the newest capture
    line,      \* _stop_locks: the stops that hold or await a device, in order
    running,   \* devices with a physical stop under way
    sound,     \* the last turn heard at a device since it confirmed its silence:
               \* what it has buffered may last until then; 0 for none
    cleanup,   \* results of the last stops, and cleanup_ok
    spoken,    \* the capture has been recognized
    inq,       \* the frames of the Agent in flight
    agent

media == <<reply, play>>
stops == <<barrier, line, running>>
wires == <<inq, agent>>
vars == <<phase, asked, broken, cap, released, epoch, last, media, stops,
          sound, cleanup, spoken, wires>>

Captures == 1 .. MaxCaptures
Turns == 1 .. MaxTurns

NoReply == [st |-> "none", dev |-> "none", cap |-> 0, ended |-> FALSE, receipt |-> "none"]
NoAgent == [owes |-> FALSE, cap |-> 0, epoch |-> 0, heard |-> FALSE, turn |-> 0,
            sent |-> FALSE, next |-> 1, stops |-> 0]

\* Mutant: a stop that has an answer counts as one that succeeded.
AnswersAll(results) == \A d \in Devices : results[d] \notin {"none", "queued"}

Silenced(results) == \A d \in Devices : results[d] = "ok"

Init ==
    /\ phase = "idle" /\ asked = FALSE /\ broken = FALSE
    /\ cap = 0 /\ released = FALSE /\ epoch = 0 /\ last = 0
    /\ play = 0 /\ reply = [t \in Turns |-> NoReply]
    /\ barrier = [d \in Devices |-> "none"]
    /\ line = [d \in Devices |-> <<>>] /\ running = {}
    /\ sound = [d \in Devices |-> 0]
    /\ cleanup = [end |-> [d \in Devices |-> "none"], stray |-> FALSE, ok |-> FALSE]
    /\ spoken = FALSE
    /\ inq = <<>>
    /\ agent = NoAgent

-----------------------------------------------------------------------------
(* Common parts.                                                             *)

Done(r, receipt) == [NoReply EXCEPT !.st = "done", !.cap = r.cap, !.receipt = receipt]

\* A cancelled presentation has no say any more; one that had not begun to
\* speak ends at once.  The presenter interrupts its speech as it is cancelled.
Cancelled(t) ==
    [reply EXCEPT ![t] = IF @.st \in {"presenting", "sounding"} THEN [@ EXCEPT !.st = "dying"]
                         ELSE Done(@, "none")]

Revoked == play' = 0 /\ reply' = IF play = 0 THEN reply ELSE Cancelled(play)

\* Frames by the field a reader acts on.  What this side sends reaches the Agent
\* at once and its answers take their time, which allows the same orders here as
\* delays in both directions.
AgentSends(frame) == Len(inq) < MaxFlight /\ inq' = Append(inq, frame)
Prepared == [type |-> "prepared"]
Capturing(c, e) == [type |-> "capturing", cap |-> c, epoch |-> e]
StopFrame(c, e, d) == [type |-> "stop", cap |-> c, epoch |-> e, dev |-> d]
ReplyStart(t, e, d) == [type |-> "start", turn |-> t, epoch |-> e, dev |-> d]
ReplyEnd(t, e) == [type |-> "end", turn |-> t, epoch |-> e]

-----------------------------------------------------------------------------
(* What the pipeline asks of its destination.                                *)

Begins ==
    /\ phase = "idle" /\ phase' = "preparing"
    /\ UNCHANGED <<asked, broken, cap, released, epoch, last, media, stops, sound, cleanup, spoken, wires>>

\* Local and synchronous: what plays is cancelled, every device gets a stop of
\* this capture, and the Agent learns of it later.
Press(c) ==
    /\ phase = "open" /\ ~asked
    /\ c = cap + 1 /\ (cap = 0 \/ released)
    /\ cap' = c /\ released' = FALSE /\ epoch' = 0
    /\ Revoked
    /\ barrier' = [d \in Devices |-> "queued"]
    /\ line' = [d \in Devices |-> Append(line[d], <<"capture", c>>)]
    /\ spoken' = FALSE
    /\ agent' = [agent EXCEPT !.owes = TRUE, !.cap = c, !.heard = FALSE, !.turn = 0]
    /\ UNCHANGED <<phase, asked, broken, last, running, sound, cleanup, inq>>

Release ==
    /\ phase = "open" /\ ~asked /\ cap # 0 /\ ~released
    /\ released' = TRUE
    /\ UNCHANGED <<phase, asked, broken, cap, epoch, last, media, stops, sound, cleanup, spoken, wires>>

\* The recognizer is done with the capture; one superseded has no authority.
Delivers ==
    /\ phase = "open" /\ ~asked /\ released /\ ~spoken
    /\ spoken' = TRUE /\ agent' = [agent EXCEPT !.heard = TRUE]
    /\ UNCHANGED <<phase, asked, broken, cap, released, epoch, last, media, stops, sound, cleanup, inq>>

\* The worker: the input has ended, an output was lost, or a call was refused.
CloseAsked ==
    /\ phase = "open" /\ ~asked
    /\ asked' = TRUE /\ epoch' = 0
    /\ Revoked
    /\ agent' = [agent EXCEPT !.heard = FALSE]
    /\ UNCHANGED <<phase, broken, cap, released, last, stops, sound, cleanup, spoken, inq>>

-----------------------------------------------------------------------------
(* Frames of the Agent: accept.                                              *)

Reads(type) ==
    /\ phase \in {"preparing", "open"} /\ ~broken /\ inq # <<>> /\ Head(inq).type = type
    /\ inq' = Tail(inq)

AcceptPrepared ==
    /\ Reads("prepared") /\ phase' = "open"
    /\ UNCHANGED <<asked, broken, cap, released, epoch, last, media, stops, sound, cleanup, spoken, agent>>

AcceptCapturing ==
    LET f == Head(inq) IN
    /\ Reads("capturing")
    /\ IF f.cap # cap \/ asked THEN UNCHANGED <<epoch, last, broken>>
       ELSE IF f.epoch <= last THEN broken' = TRUE /\ UNCHANGED <<epoch, last>>
       ELSE epoch' = f.epoch /\ last' = f.epoch /\ UNCHANGED broken
    /\ UNCHANGED <<phase, asked, cap, released, media, stops, sound, cleanup, spoken, agent>>

\* A stop revokes what plays in its epoch or before; the device is stopped by a
\* task of its own, or the stop of the capture is awaited.
AcceptStop ==
    LET f == Head(inq) IN
    /\ Reads("stop")
    /\ IF epoch # 0 /\ f.epoch >= epoch
       THEN /\ epoch' = IF play # 0 \/ f.epoch > epoch THEN 0 ELSE epoch
            /\ Revoked
       ELSE UNCHANGED <<epoch, media>>
    /\ line' = IF f.cap # 0 THEN line ELSE [line EXCEPT ![f.dev] = Append(@, <<"epoch", f.epoch>>)]
    /\ UNCHANGED <<phase, asked, broken, cap, released, last, barrier, running, sound, cleanup, spoken, agent>>

\* Output that came too late for its epoch is dropped without a word.
TooLate(f) == asked \/ epoch = 0 \/ f.epoch < epoch
Refused(f) == f.epoch # epoch \/ ~released

AcceptReplyStart ==
    LET f == Head(inq) IN
    /\ Reads("start")
    /\ IF TooLate(f) THEN UNCHANGED <<broken, media>>
       ELSE IF Refused(f) \/ play # 0 \/ reply[f.turn].st # "none"
       THEN broken' = TRUE /\ UNCHANGED media
       ELSE /\ play' = f.turn
            /\ reply' = [reply EXCEPT ![f.turn] = [NoReply EXCEPT !.st = "waiting", !.dev = f.dev, !.cap = cap]]
            /\ UNCHANGED broken
    /\ UNCHANGED <<phase, asked, cap, released, epoch, last, stops, sound, cleanup, spoken, agent>>

\* Mutant: text of a reply whose presentation failed is an error.
AcceptReplyEndStrictly ==
    LET f == Head(inq) IN
    /\ Reads("end")
    /\ IF TooLate(f) THEN UNCHANGED <<broken, media>>
       ELSE IF Refused(f) \/ play # f.turn \/ reply[f.turn].ended
       THEN broken' = TRUE /\ UNCHANGED media
       ELSE reply' = [reply EXCEPT ![f.turn].ended = TRUE] /\ UNCHANGED <<broken, play>>
    /\ UNCHANGED <<phase, asked, cap, released, epoch, last, stops, sound, cleanup, spoken, agent>>

\* The text of a reply whose presentation failed may still be on its way.
AcceptReplyEnd ==
    LET f == Head(inq) IN
    /\ Reads("end")
    /\ IF TooLate(f) \/ (~Refused(f) /\ reply[f.turn].receipt = "failed") THEN UNCHANGED <<broken, media>>
       ELSE IF Refused(f) \/ play # f.turn \/ reply[f.turn].ended
       THEN broken' = TRUE /\ UNCHANGED media
       ELSE reply' = [reply EXCEPT ![f.turn].ended = TRUE] /\ UNCHANGED <<broken, play>>
    /\ UNCHANGED <<phase, asked, cap, released, epoch, last, stops, sound, cleanup, spoken, agent>>

-----------------------------------------------------------------------------
(* The presentation of a reply: _present, present of the worker and          *)
(* NativeSpeechPresenter.                                                    *)

Receives(t, result) ==
    /\ play' = 0
    /\ reply' = [reply EXCEPT ![t] = Done(@, result)]
    /\ agent' = IF agent.turn = t THEN [agent EXCEPT !.turn = 0] ELSE agent

Settled == \A d \in Devices : barrier[d] # "queued"

\* Mutant: the stops of the capture were asked for, which is enough.
PresentsAtOnce(t) ==
    /\ phase = "open" /\ reply[t].st = "waiting"
    /\ reply' = [reply EXCEPT ![t].st = "presenting"] /\ UNCHANGED <<play, agent>>
    /\ UNCHANGED <<phase, asked, broken, cap, released, epoch, last, stops, sound, cleanup, spoken, inq>>

\* Every device has answered the stop of the capture; one that did not confirm
\* its silence keeps the whole team from speaking.
Presents(t) ==
    /\ phase = "open" /\ reply[t].st = "waiting" /\ Settled
    /\ IF Silenced(barrier)
       THEN reply' = [reply EXCEPT ![t].st = "presenting"] /\ UNCHANGED <<play, agent>>
       ELSE Receives(t, "failed")
    /\ UNCHANGED <<phase, asked, broken, cap, released, epoch, last, stops, sound, cleanup, spoken, inq>>

Sounds(t) ==
    /\ reply[t].st = "presenting"
    /\ reply' = [reply EXCEPT ![t].st = "sounding"]
    /\ sound' = [sound EXCEPT ![reply[t].dev] = t]
    /\ UNCHANGED <<phase, asked, broken, cap, released, epoch, last, play, stops, cleanup, spoken, wires>>

\* The presenter has played the closed text, or has not.
MayReturn(t, result) ==
    /\ phase \in {"open", "draining"}
    /\ reply[t].st \in {"presenting", "sounding", "dying"}
    /\ result = "completed" => reply[t].ended /\ reply[t].st # "presenting"

\* Mutant: whoever returns reports.
ReturnsAnyway(t, result) ==
    /\ MayReturn(t, result) /\ phase = "open"
    /\ Receives(t, result)
    /\ UNCHANGED <<phase, asked, broken, cap, released, epoch, last, stops, sound, cleanup, spoken, inq>>

\* A presentation that was revoked has nothing to report, even if it took no
\* notice of its cancellation.
Returns(t, result) ==
    /\ MayReturn(t, result)
    /\ IF play = t THEN Receives(t, result)
       ELSE reply' = [reply EXCEPT ![t] = Done(@, "none")] /\ UNCHANGED <<play, agent>>
    /\ UNCHANGED <<phase, asked, broken, cap, released, epoch, last, stops, sound, cleanup, spoken, inq>>

-----------------------------------------------------------------------------
(* Stops of a device: _stop_device, one at a time.                           *)

\* The result of the stop that has its turn at device d.
Concludes(d, result) ==
    LET op == Head(line[d]) IN
    /\ line' = [line EXCEPT ![d] = Tail(@)]
    /\ running' = running \ {d}
    /\ barrier' = IF op = <<"capture", cap>> THEN [barrier EXCEPT ![d] = result] ELSE barrier
    /\ cleanup' = IF op[1] = "end" THEN [cleanup EXCEPT !.end[d] = result] ELSE cleanup

Superseded(op) ==
    \/ op[1] = "capture" /\ op[2] # cap
    \/ op[1] = "epoch" /\ op[2] < last

StopBegins(d) ==
    /\ line[d] # <<>> /\ d \notin running
    /\ IF Superseded(Head(line[d])) THEN Concludes(d, "superseded")
       ELSE running' = running \cup {d} /\ UNCHANGED <<barrier, line, cleanup>>
    /\ UNCHANGED <<phase, asked, broken, cap, released, epoch, last, media, sound, spoken, wires>>

\* The device confirms its silence.
StopConfirmed(d) ==
    /\ d \in running
    /\ Concludes(d, "ok")
    /\ sound' = [sound EXCEPT ![d] = 0]
    /\ UNCHANGED <<phase, asked, broken, cap, released, epoch, last, media, spoken, wires>>

\* It refuses, or says nothing in time: whether it is silent is not known.
StopUnconfirmed(d) ==
    /\ d \in running
    /\ Concludes(d, "failed")
    /\ UNCHANGED <<phase, asked, broken, cap, released, epoch, last, media, sound, spoken, wires>>

-----------------------------------------------------------------------------
(* The end of run().                                                         *)

\* Everything under way is cancelled.  A failed media control comes here too:
\* between its failure and this, presses and replies are refused.
LeavesRun ==
    /\ phase' = "draining"
    /\ Revoked
    /\ line' = [d \in Devices |-> <<>>] /\ running' = {}
    /\ barrier' = [d \in Devices |-> "none"]
    /\ inq' = <<>> /\ agent' = NoAgent
    /\ UNCHANGED <<asked, broken, cap, released, epoch, last, sound, cleanup, spoken>>

\* The stream is lost, or a frame or a task of a media control failed.
StreamFails == phase = "open" /\ LeavesRun

\* The Agent does not prepare in time, or the worker gives up.
PrepareFails == phase = "preparing" /\ LeavesRun

\* The Agent closes the stream, or does not in time.
CloseEnds == phase = "open" /\ asked /\ LeavesRun

\* The cancelled tasks are done, or are left behind; every device is stopped,
\* whatever became of the Agent.
DrainEnds ==
    /\ phase = "draining" /\ phase' = "stopping"
    /\ cleanup' = [cleanup EXCEPT !.stray = \E t \in Turns : reply[t].st \in {"presenting", "sounding", "dying"}]
    /\ line' = [d \in Devices |-> << <<"end", 0>> >>]
    /\ UNCHANGED <<asked, broken, cap, released, epoch, last, media, barrier, running, sound, spoken, wires>>

Closes ==
    /\ phase = "stopping" /\ \A d \in Devices : line[d] = <<>>
    /\ phase' = "closed"
    /\ cleanup' = [cleanup EXCEPT !.ok = Silenced(cleanup.end) /\ ~cleanup.stray]
    /\ UNCHANGED <<asked, broken, cap, released, epoch, last, media, stops, sound, spoken, wires>>

-----------------------------------------------------------------------------
(* The Agent, external: it answers presses with the epoch of a new round,    *)
(* replies once it has the transcript, one turn at a time, and may cancel a  *)
(* round, which opens the next epoch.                                        *)

Here == UNCHANGED <<phase, asked, broken, cap, released, epoch, last, media, stops, sound, cleanup, spoken>>

AgentPrepares ==
    /\ phase = "preparing" /\ inq = <<>>
    /\ AgentSends(Prepared) /\ UNCHANGED agent /\ Here

AgentCaptures ==
    /\ agent.owes
    /\ agent' = [agent EXCEPT !.owes = FALSE, !.epoch = @ + 1]
    /\ AgentSends(Capturing(agent.cap, agent.epoch + 1)) /\ Here

AgentReplies(d) ==
    LET t == agent.next IN
    /\ agent.heard /\ ~agent.owes /\ agent.turn = 0 /\ t \in Turns
    /\ agent' = [agent EXCEPT !.turn = t, !.sent = FALSE, !.next = @ + 1]
    /\ AgentSends(ReplyStart(t, agent.epoch, d)) /\ Here

AgentEndsText ==
    /\ agent.turn # 0 /\ ~agent.sent
    /\ agent' = [agent EXCEPT !.sent = TRUE]
    /\ AgentSends(ReplyEnd(agent.turn, agent.epoch)) /\ Here

\* It wants the stop of the capture confirmed.
AgentConfirms(d) ==
    /\ agent.cap # 0 /\ ~agent.owes /\ agent.stops < MaxStops
    /\ agent' = [agent EXCEPT !.stops = @ + 1]
    /\ AgentSends(StopFrame(agent.cap, agent.epoch, d)) /\ Here

AgentCancels(d) ==
    /\ agent.cap # 0 /\ ~agent.owes /\ agent.stops < MaxStops
    /\ agent' = [agent EXCEPT !.stops = @ + 1, !.epoch = @ + 1, !.heard = FALSE, !.turn = 0]
    /\ AgentSends(StopFrame(0, agent.epoch + 1, d)) /\ Here

-----------------------------------------------------------------------------
Accepts ==
    AcceptPrepared \/ AcceptCapturing \/ AcceptStop \/ AcceptReplyStart \/ AcceptReplyEnd

Presentation(t) ==
    \/ Presents(t) \/ Sounds(t)
    \/ \E result \in {"completed", "failed"} : Returns(t, result)

StopSteps(d) == StopBegins(d) \/ StopConfirmed(d) \/ StopUnconfirmed(d)
Teardown == PrepareFails \/ CloseEnds \/ DrainEnds \/ Closes

AgentSteps ==
    \/ AgentPrepares \/ AgentCaptures \/ AgentEndsText
    \/ \E d \in Devices : AgentReplies(d) \/ AgentConfirms(d) \/ AgentCancels(d)

Next ==
    \/ Begins \/ Release \/ Delivers \/ CloseAsked \/ Accepts \/ StreamFails \/ Teardown \/ AgentSteps
    \/ \E c \in Captures : Press(c)
    \/ \E t \in Turns : Presentation(t)
    \/ \E d \in Devices : StopSteps(d)

\* Tasks that can run do; a stop, the drain and the close have deadlines, and
\* nothing is assumed of the devices and of the Agent.
Fairness ==
    /\ WF_vars(Teardown)
    /\ \A d \in Devices : WF_vars(StopBegins(d)) /\ WF_vars(StopUnconfirmed(d))

Spec == Init /\ [][Next]_vars /\ Fairness

-----------------------------------------------------------------------------
\* Two captures are never heard at once, and nothing of an earlier one once a
\* reply to the newest began: every device confirmed its silence in between,
\* though stops wait in line and a press answers to nobody (press, _present).
OneCaptureIsHeard ==
    \A d, e \in Devices :
        sound[d] # 0 /\ sound[e] # 0 => reply[sound[d]].cap = reply[sound[e]].cap

\* A scene that reports its cleanup done has left no device talking and no
\* presentation behind: that report releases the devices (cleanup_ok).
CleanupMeansSilence ==
    cleanup.ok => /\ \A d \in Devices : sound[d] = 0
                  /\ \A t \in Turns : reply[t].st \in {"none", "done"}

\* A receipt is for a reply to the capture the user last made, in a round the
\* Agent has not been told to abandon, and there is one at most.
RevokedIsNotConfirmed ==
    [][\A t \in Turns : reply'[t].receipt # reply[t].receipt =>
          reply[t].receipt = "none" /\ play = t /\ reply[t].cap = cap /\ ~asked]_vars

\* Whatever crosses on the stream, an Agent that keeps to the protocol is never
\* taken for one that does not: a refused frame would end the whole scene.
StreamSurvives == ~broken

\* A scene asked to close, and one that lost its stream, is closed in the end.
CloseConcludes == (phase = "open" /\ asked) ~> phase = "closed"
=============================================================================
