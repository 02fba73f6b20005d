------------------------------ MODULE OutputGate ------------------------------
(***************************************************************************)
(* OutputController (livekit/agent/output/controller.py): the audio sink   *)
(* that the agent's speech goes through, between the SDK's forwarding task *)
(* and the room.  It forwards (NORMAL), holds back (SUSPENDED) or refuses  *)
(* (CANCELLED) frames; one lock serializes what is written to the room's   *)
(* sink, and a generation tells the writes of before a cancellation from   *)
(* those of after.                                                         *)
(*                                                                         *)
(* Two tasks write: the caller of capture_frame and the task that drains   *)
(* the buffer after a suspension.  A step is what a task or a callback     *)
(* does from one await to the next.  External: the SDK, which captures the *)
(* frames of one speech at a time, flushes at its end, and on an           *)
(* interruption cancels the caller, flushes and then clears; and the       *)
(* room's sink, which accepts a frame or fails.  A frame is one unit of    *)
(* audio; where the fade ends inside one, it is written in two parts.      *)
(***************************************************************************)
EXTENDS Naturals, Sequences, FiniteSets, SequencesExt

CONSTANTS
    MaxFrames,  \* bound on the frames of a session
    MaxGen,     \* bound on the generations
    MaxDucks,   \* bound on the suspensions
    Room        \* buffer_max_sec, in frames

ASSUME GateAssumption == {MaxFrames, MaxGen, MaxDucks} \subseteq Nat \ {0} /\ Room \in Nat

VARIABLES
    pausing,    \* the configuration: suspension pauses the sink (the default) or fades
    mode,       \* _state
    gen,        \* _generation
    buffer,     \* _buffer
    fade,       \* the fade-out has samples to go
    pass,       \* frames pass through a suspension, at a low volume
    paused,     \* _sink_paused
    seg,        \* _segment_open
    sinkOpen,   \* the sink has counted a segment since, and was not flushed
    flushing,   \* _flush_pending
    lock,       \* whose _write_lock is
    write,      \* the write its holder awaits
    caller,     \* the call of capture_frame
    drain,      \* _drain_task
    clearing,   \* the SDK has interrupted the speech, and is to clear the output
    ducks,
    admitted,   \* admitted[f]: the generation in which f was captured
    dropped,    \* the frames discarded on somebody's order
    heard       \* what the sink has accepted

control == <<mode, fade, pass, paused, ducks>>
segment == <<seg, sinkOpen, flushing>>
history == <<admitted, dropped, heard>>
gateVars == <<pausing, control, gen, buffer, segment, lock, write, caller, drain, clearing, history>>

Frames == 1 .. MaxFrames
NoWrite == [frame |-> 0, own |-> FALSE, rest |-> FALSE, stage |-> "none"]
NoCall == [pc |-> "off", frame |-> 0, gen |-> 0]
Captured == {f \in Frames : admitted[f] > 0}

GateInit ==
    /\ pausing \in BOOLEAN
    /\ mode = "NORMAL" /\ gen = 1 /\ buffer = <<>> /\ ducks = 0
    /\ fade = FALSE /\ pass = FALSE /\ paused = FALSE
    /\ seg = FALSE /\ sinkOpen = FALSE /\ flushing = FALSE
    /\ lock = "free" /\ write = NoWrite /\ caller = NoCall /\ drain = "none"
    /\ clearing = FALSE
    /\ admitted = [f \in Frames |-> 0] /\ dropped = {} /\ heard = <<>>

-----------------------------------------------------------------------------
\* What the operations share

\* _finish_segment: closes the segment; the sink is flushed if it counted one.
SegmentClosed == seg' = FALSE /\ sinkOpen' = FALSE /\ flushing' = FALSE

\* _flush_if_ready, by a task that has just released the lock.
FlushIfReady(pending, held) ==
    IF pending /\ held = <<>> THEN SegmentClosed
                              ELSE flushing' = pending /\ UNCHANGED <<seg, sinkOpen>>

\* The bound on the generations leaves room for the clear and the cancellation that
\* an interruption and a failure bring with them.
Owed == (IF clearing THEN 1 ELSE 0) + (IF drain = "failed" THEN 1 ELSE 0)
WithinGens == gen + Owed < MaxGen

\* _write_task.cancel() and _drain_task.cancel(): the write under way is void; a
\* drain that holds the lock keeps it until it has been told.
WritesVoid ==
    [write |-> IF write.stage \in {"created", "started"} THEN [write EXCEPT !.stage = "void"] ELSE write,
     lock |-> IF lock = "drain" THEN "dying" ELSE lock]

\* _invalidate_writes
InvalidateWrites ==
    /\ gen' = gen + 1
    /\ write' = WritesVoid.write /\ lock' = WritesVoid.lock
    /\ drain' = "none"
    /\ buffer' = <<>>

StartWrite(f, own, rest) == write' = [frame |-> f, own |-> own, rest |-> rest, stage |-> "created"]

\* The call returns: its lock is free again.
CallReturns ==
    /\ lock' = "free" /\ write' = NoWrite
    /\ caller' = [caller EXCEPT !.pc = "idle"]

\* Mutant: the frame itself is not counted.
HasRoomForLess == Len(buffer) <= Room

HasRoom == buffer = <<>> \/ Len(buffer) < Room

\* Mutant: what was held back waits for the next resume.
CallerOvertakes ==
    /\ mode = "NORMAL"
    /\ StartWrite(caller.frame, TRUE, FALSE)
    /\ caller' = [caller EXCEPT !.pc = "writing"]
    /\ UNCHANGED <<buffer, fade>>

\* NORMAL: what was held back goes first, then the frame itself.
CallerForwards ==
    /\ mode = "NORMAL"
    /\ IF buffer # <<>> THEN StartWrite(Head(buffer), FALSE, FALSE) /\ buffer' = Tail(buffer)
                        ELSE StartWrite(caller.frame, TRUE, FALSE) /\ UNCHANGED buffer
    /\ caller' = [caller EXCEPT !.pc = "writing"]
    /\ UNCHANGED fade

\* SUSPENDED, in the fade-out, which may end with the frame or inside it.
CallerFades ==
    /\ mode = "SUSPENDED" /\ fade
    /\ \E rest \in BOOLEAN :
         /\ StartWrite(caller.frame, TRUE, rest)
         /\ fade' \in (IF rest THEN {FALSE} ELSE BOOLEAN)
    /\ caller' = [caller EXCEPT !.pc = "writing"]
    /\ UNCHANGED buffer

CallerPasses ==
    /\ mode = "SUSPENDED" /\ ~fade /\ pass
    /\ StartWrite(caller.frame, TRUE, FALSE)
    /\ caller' = [caller EXCEPT !.pc = "writing"]
    /\ UNCHANGED <<buffer, fade>>

\* SUSPENDED and full: nothing is discarded, the caller waits.
CallerBlocks ==
    /\ mode = "SUSPENDED" /\ ~fade /\ ~pass /\ ~HasRoom
    /\ write' = NoWrite
    /\ caller' = [caller EXCEPT !.pc = "blocked"]
    /\ UNCHANGED <<buffer, fade>>

CallerHoldsBack ==
    /\ mode = "SUSPENDED" /\ ~fade /\ ~pass /\ HasRoom
    /\ buffer' = Append(buffer, caller.frame)
    /\ CallReturns
    /\ UNCHANGED fade

\* The loop of capture_frame, from the lock or an await to the next await.
CallerGoesOn ==
    /\ \/ (CallerForwards \/ CallerFades \/ CallerPasses \/ CallerBlocks) /\ lock' = "producer"
       \/ CallerHoldsBack
    /\ UNCHANGED flushing

-----------------------------------------------------------------------------
\* capture_frame

\* Mutant: the frame is stamped when it gets the lock.
CaptureUnstamped ==
    /\ caller.pc = "idle" /\ Cardinality(Captured) < MaxFrames
    /\ LET f == Cardinality(Captured) + 1 IN
         /\ caller' = [pc |-> "queued", frame |-> f, gen |-> MaxGen]
         /\ admitted' = [admitted EXCEPT ![f] = gen]
    /\ UNCHANGED <<pausing, control, gen, buffer, segment, lock, write, drain, clearing, dropped, heard>>

\* The SDK captures the next frame, which queues for the lock.
Capture ==
    /\ caller.pc = "idle" /\ Cardinality(Captured) < MaxFrames
    /\ LET f == Cardinality(Captured) + 1 IN
         /\ caller' = [pc |-> "queued", frame |-> f, gen |-> gen]
         /\ admitted' = [admitted EXCEPT ![f] = gen]
    /\ UNCHANGED <<pausing, control, gen, buffer, segment, lock, write, drain, clearing, dropped, heard>>

Stale == caller.gen < gen

CaptureRefused ==
    /\ caller.pc = "queued" /\ lock = "free"
    /\ Stale \/ mode = "CANCELLED"
    /\ CallReturns
    /\ dropped' = dropped \cup {caller.frame}
    /\ UNCHANGED <<pausing, control, gen, buffer, segment, drain, clearing, admitted, heard>>

CaptureEnters ==
    /\ caller.pc = "queued" /\ lock = "free"
    /\ ~Stale /\ mode # "CANCELLED"
    /\ CallerGoesOn
    /\ seg' = TRUE
    /\ UNCHANGED <<pausing, mode, pass, paused, ducks, gen, sinkOpen, drain, clearing, history>>

\* The call ends where nothing of its frame is left to write.
CallEnds ==
    /\ CallReturns
    /\ FlushIfReady(flushing, buffer)
    /\ UNCHANGED <<buffer, fade>>

\* A caller that waits for room is woken by whatever changes what it may do.
CallerWakes ==
    /\ caller.pc = "blocked"
    /\ \/ Stale /\ CallEnds /\ dropped' = dropped \cup {caller.frame}
       \/ ~Stale /\ (mode # "SUSPENDED" \/ pass) /\ CallerGoesOn
          /\ UNCHANGED <<seg, sinkOpen, dropped>>
    /\ UNCHANGED <<pausing, mode, pass, paused, ducks, gen, drain, clearing, admitted, heard>>

\* Its own frame was written, or the write is void.
CallerWroteOwn ==
    /\ lock = "producer" /\ write.own /\ write.stage \in {"done", "void"}
    /\ IF write.rest /\ ~Stale THEN CallerGoesOn /\ UNCHANGED <<seg, sinkOpen>>
                              ELSE CallEnds
    /\ UNCHANGED <<pausing, mode, pass, paused, ducks, gen, drain, clearing, history>>

\* A frame that was held back is written: the loop reads the state again, and a
\* call of an earlier generation returns without a look at the pending flush.
CallerDrained ==
    /\ lock = "producer" /\ ~write.own /\ write.stage \in {"done", "void"}
    /\ IF Stale THEN CallReturns /\ dropped' = dropped \cup {caller.frame}
                     /\ UNCHANGED <<buffer, fade, flushing>>
                ELSE CallerGoesOn /\ UNCHANGED dropped
    /\ UNCHANGED <<pausing, mode, pass, paused, ducks, gen, seg, sinkOpen, drain, clearing, admitted, heard>>

-----------------------------------------------------------------------------
\* _resume_output, the task that drains the buffer

DrainGoesOn ==
    IF buffer # <<>> /\ mode = "NORMAL"
    THEN /\ lock' = "drain" /\ drain' = "holding"
         /\ StartWrite(Head(buffer), FALSE, FALSE) /\ buffer' = Tail(buffer)
         /\ UNCHANGED segment
    ELSE /\ lock' = "free" /\ drain' = "none" /\ write' = NoWrite
         /\ UNCHANGED buffer
         /\ FlushIfReady(flushing, buffer)

DrainEnters ==
    /\ drain = "waiting" /\ lock = "free"
    /\ DrainGoesOn
    /\ UNCHANGED <<pausing, control, gen, caller, clearing, history>>

DrainWrote ==
    /\ lock = "drain" /\ write.stage = "done"
    /\ DrainGoesOn
    /\ UNCHANGED <<pausing, control, gen, caller, clearing, history>>

\* A cancelled drain releases the lock, and looks at nothing else.
DrainDies ==
    /\ lock = "dying"
    /\ lock' = "free" /\ write' = NoWrite
    /\ UNCHANGED <<pausing, control, gen, buffer, segment, caller, drain, clearing, history>>

-----------------------------------------------------------------------------
\* The sink

\* The write's task has begun: the sink counts the segment it belongs to.
WriteStarts ==
    /\ write.stage = "created"
    /\ write' = [write EXCEPT !.stage = "started"]
    /\ sinkOpen' = TRUE
    /\ UNCHANGED <<pausing, control, gen, buffer, seg, flushing, lock, caller, drain, clearing, history>>

\* The sink takes the frame; while it is paused it may make the writer wait.
WriteAccepted ==
    /\ write.stage = "started"
    /\ write' = [write EXCEPT !.stage = "done"]
    /\ heard' = Append(heard, write.frame)
    /\ UNCHANGED <<pausing, control, gen, buffer, segment, lock, caller, drain, clearing, admitted, dropped>>

\* flush, where nothing is being written.
Flush(held) == FlushIfReady(TRUE, held)

\* The sink fails the caller: the exception ends the speech, which is flushed.
CallerFails ==
    /\ lock = "producer" /\ write.stage = "started"
    /\ lock' = "free" /\ write' = NoWrite /\ caller' = NoCall
    /\ dropped' = dropped \cup {write.frame, caller.frame}
    /\ Flush(buffer)
    /\ UNCHANGED <<pausing, control, gen, buffer, drain, clearing, admitted, heard>>

DrainFails ==
    /\ WithinGens /\ lock = "drain" /\ write.stage = "started"
    /\ lock' = "free" /\ write' = NoWrite /\ drain' = "failed"
    /\ dropped' = dropped \cup {write.frame}
    /\ UNCHANGED <<pausing, control, gen, buffer, segment, caller, clearing, admitted, heard>>

-----------------------------------------------------------------------------
\* Suspension and cancellation

Duck ==
    /\ mode = "NORMAL" /\ ducks < MaxDucks
    /\ mode' = "SUSPENDED" /\ ducks' = ducks + 1 /\ pass' = FALSE
    /\ fade' = ~pausing /\ paused' = pausing
    /\ UNCHANGED <<pausing, gen, buffer, segment, lock, write, caller, drain, clearing, history>>

\* enable_suspended_passthrough: what was held back is stale.
PassThrough ==
    /\ mode = "SUSPENDED" /\ ~paused /\ ~pass
    /\ pass' = TRUE
    /\ buffer' = <<>> /\ dropped' = dropped \cup Range(buffer)
    /\ UNCHANGED <<pausing, mode, fade, paused, ducks, gen, segment, lock, write, caller, drain, clearing, admitted, heard>>

\* Mutant: a resume leaves what was held back to the next frame.
UnduckIdle(drop) ==
    /\ mode = "SUSPENDED" /\ drain # "failed"
    /\ mode' = "NORMAL" /\ paused' = FALSE /\ pass' = FALSE /\ fade' = FALSE
    /\ buffer' = IF drop THEN <<>> ELSE buffer
    /\ dropped' = IF drop THEN dropped \cup Range(buffer) ELSE dropped
    /\ UNCHANGED <<pausing, ducks, gen, segment, lock, write, caller, drain, clearing, admitted, heard>>

\* unduck: resumes, and has the rest drained even if no frame follows.  (The
\* callback of a drain that failed runs before anything else does.)
Unduck(drop) ==
    /\ mode = "SUSPENDED" /\ drain # "failed"
    /\ mode' = "NORMAL" /\ paused' = FALSE /\ pass' = FALSE /\ fade' = FALSE
    /\ buffer' = IF drop THEN <<>> ELSE buffer
    /\ dropped' = IF drop THEN dropped \cup Range(buffer) ELSE dropped
    /\ drain' = IF drain = "none" /\ (buffer' # <<>> \/ flushing) THEN "waiting" ELSE drain
    /\ UNCHANGED <<pausing, ducks, gen, segment, lock, write, caller, clearing, admitted, heard>>

\* cancel: everything that is not in the sink is discarded, and the segment sealed.
Cancelled ==
    /\ InvalidateWrites
    /\ mode' = "CANCELLED" /\ fade' = FALSE /\ pass' = FALSE
    /\ SegmentClosed
    /\ UNCHANGED <<pausing, paused, ducks, caller, history>>

Cancel == WithinGens /\ drain # "failed" /\ Cancelled /\ UNCHANGED clearing

\* _drain_done: nobody else would hear that the drain failed.
DrainFailureCancels == drain = "failed" /\ Cancelled /\ UNCHANGED clearing

\* reset_if_cancelled, when the agent starts to generate the next reply; a call of
\* the one before may still be waiting.
Reset ==
    /\ WithinGens /\ mode = "CANCELLED" /\ drain # "failed"
    /\ InvalidateWrites
    /\ mode' = "NORMAL" /\ paused' = FALSE /\ fade' = FALSE /\ pass' = FALSE
    /\ flushing' = FALSE
    /\ UNCHANGED <<pausing, ducks, seg, sinkOpen, caller, clearing, history>>

-----------------------------------------------------------------------------
\* The SDK

\* A speech is forwarded once the one before is over.
SpeechStarts ==
    /\ caller.pc = "off" /\ ~clearing /\ ~seg /\ lock # "dying"
    /\ caller' = [NoCall EXCEPT !.pc = "idle"]
    /\ UNCHANGED <<pausing, control, gen, buffer, segment, lock, write, drain, clearing, history>>

SpeechEnds ==
    /\ caller.pc = "idle"
    /\ caller' = NoCall
    /\ IF lock = "free" THEN Flush(buffer) ELSE flushing' = TRUE /\ UNCHANGED <<seg, sinkOpen>>
    /\ UNCHANGED <<pausing, control, gen, buffer, lock, write, drain, clearing, history>>

\* An interruption: the caller is cancelled, and with it its write; then the SDK
\* flushes, and is to clear.
SpeechInterrupted ==
    /\ WithinGens /\ caller.pc # "off"
    /\ caller' = NoCall /\ clearing' = TRUE
    /\ IF lock = "producer"
       THEN lock' = "free" /\ write' = NoWrite /\ dropped' = dropped \cup {caller.frame, write.frame}
       ELSE UNCHANGED <<lock, write>> /\ dropped' = dropped \cup {caller.frame}
    /\ IF lock \in {"free", "producer"} THEN Flush(buffer)
                                       ELSE flushing' = TRUE /\ UNCHANGED <<seg, sinkOpen>>
    /\ UNCHANGED <<pausing, control, gen, buffer, drain, admitted, heard>>

\* clear_buffer, after an interruption of the forwarding or of the playout.
Clear ==
    /\ caller.pc = "off" /\ (clearing \/ (WithinGens /\ seg))
    /\ drain # "failed"
    /\ InvalidateWrites
    /\ SegmentClosed
    /\ clearing' = FALSE
    /\ UNCHANGED <<pausing, control, caller, history>>

GateNext ==
    \/ Capture \/ CaptureRefused \/ CaptureEnters \/ CallerWakes
    \/ CallerWroteOwn \/ CallerDrained \/ CallerFails
    \/ DrainEnters \/ DrainWrote \/ DrainDies \/ DrainFails \/ DrainFailureCancels
    \/ WriteStarts \/ WriteAccepted
    \/ Duck \/ PassThrough \/ Cancel \/ Reset
    \/ \E drop \in BOOLEAN : Unduck(drop)
    \/ SpeechStarts \/ SpeechEnds \/ SpeechInterrupted \/ Clear

\* The tasks run when they can; a sink that plays takes what it is given; the SDK
\* clears after an interruption; and no suspension lasts, since each arms a
\* deadline that ends it one way or the other (DuckSuspendTimeoutHandler).
GateFairness ==
    /\ WF_gateVars(CaptureRefused) /\ WF_gateVars(CaptureEnters) /\ WF_gateVars(CallerWakes)
    /\ WF_gateVars(CallerWroteOwn) /\ WF_gateVars(CallerDrained)
    /\ WF_gateVars(DrainEnters) /\ WF_gateVars(DrainWrote) /\ WF_gateVars(DrainDies)
    /\ WF_gateVars(DrainFailureCancels)
    /\ WF_gateVars(WriteStarts) /\ WF_gateVars(~paused /\ WriteAccepted)
    /\ WF_gateVars(clearing /\ Clear)
    /\ WF_gateVars(\E drop \in BOOLEAN : Unduck(drop))

GateSpec == GateInit /\ [][GateNext]_gateVars /\ GateFairness

-----------------------------------------------------------------------------
\* Properties

\* The types of the state, and what the two tasks may be waiting for.
GateTypeOK ==
    /\ mode \in {"NORMAL", "SUSPENDED", "CANCELLED"} /\ gen \in 1 .. MaxGen
    /\ buffer \in Seq(Frames) /\ Len(buffer) <= IF Room = 0 THEN 1 ELSE Room
    /\ {fade, pass, paused, seg, sinkOpen, flushing, clearing} \subseteq BOOLEAN
    /\ lock \in {"free", "producer", "drain", "dying"}
    /\ (lock = "producer") = (caller.pc \in {"writing", "blocked"})
    /\ (lock = "drain") = (drain = "holding")
    /\ write # NoWrite => lock # "free" /\ caller.pc # "blocked"

Increasing(s) == \A i, j \in DOMAIN s : i <= j => s[i] <= s[j]

\* What is heard is heard in the order in which it was captured, whoever wrote it
\* and however often the output was suspended on the way, as long as a suspension
\* stops the sink (where it fades instead, see FadingKeepsOrder).
FramesInOrder == pausing => Increasing(heard)

\* The same where a suspension fades ("one serialized writer preserves frame order").
FadingKeepsOrder == Increasing(heard)

\* A suspension that was not told to drop anything loses nothing: a frame of this
\* generation is heard, held back, being written or still with its caller.
NothingLost ==
    \A f \in Frames : admitted[f] = gen =>
        \/ f \in Range(heard) \cup Range(buffer) \cup {write.frame} \cup dropped
        \/ caller.pc \in {"queued", "blocked", "writing"} /\ caller.frame = f

\* What is held back is heard later: all of it, unless it was to be dropped, and in
\* its order.
HeldBackIsHeard == FramesInOrder /\ NothingLost

\* The sink never has a segment open that this one has sealed: whoever waits for
\* that playout would wait for ever.
SinkIsSealedToo == sinkOpen => seg

\* Nothing that was captured before a cancellation is heard after it.
CancelledIsSilent ==
    [][heard' # heard => admitted[Last(heard')] = gen]_gateVars

\* Every segment is sealed once its speech is over, though the flush may have come
\* while frames were held back, or being written by somebody else.
SegmentsAreSealed == (seg /\ caller.pc = "off") ~> ~seg

\* Nor does the caller of capture_frame wait for ever, not even for room in a full buffer.
CallsReturn == (caller.pc \in {"queued", "blocked", "writing"}) ~> (caller.pc \in {"idle", "off"})

\* The output of a speech finishes: a sealed segment is sealed on both sides, every segment
\* comes to that, and so does every call.
PlayoutsFinish == []SinkIsSealedToo /\ SegmentsAreSealed /\ CallsReturn
=============================================================================
