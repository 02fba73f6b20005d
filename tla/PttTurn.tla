------------------------------- MODULE PttTurn -------------------------------
(***************************************************************************)
(* Push to talk: HalfDuplexPttTurnController and the part of               *)
(* HalfDuplexPttPipeline that drives it (livekit/agent/half_duplex/).      *)
(*                                                                         *)
(* The device reports its button; press and release are handled inside the *)
(* callback of that report.  Every release starts a task of its own that   *)
(* has the closed segment transcribed and then commits or rejects the      *)
(* turn; holds are numbered by the controller's generation.  A task runs   *)
(* from one await to the next without interruption, so its steps are those *)
(* between awaits.  The speech recognizer and the AgentSession, which      *)
(* turns a request for a reply into agent states, are external.  The relay *)
(* of transcripts to a role group (PttDestination) is not in this module.  *)
(***************************************************************************)
EXTENDS Naturals, FiniteSets

CONSTANT MaxTurns   \* bound on the generations of a session

ASSUME TurnsAssumption == MaxTurns \in Nat \ {0}

VARIABLES
    held,       \* _last_ptt_held: the button as the pipeline last saw it
    state,      \* the controller: idle, recording or transcribing
    generation,
    asr,        \* _transcription_task: the turn whose task it is, 0 for None
    final,      \* final[g]: the task that finalizes hold g
    answer,     \* answer[g]: what the recognizer said of hold g
    barged,     \* barged[g]: hold g preempted agent output
    turn,       \* turn[g]: the timeline of hold g and its terminal
    reply,      \* reply[g]: the agent's reply to turn g
    active,     \* the pipeline state is GENERATING or SPEAKING
    closed      \* the session has been shut down

control == <<held, state, generation, asr>>
vars == <<control, final, answer, barged, turn, reply, active, closed>>

Turns == 1 .. MaxTurns
Answers == {"text", "nothing", "error"}

Init ==
    /\ held = FALSE /\ state = "idle" /\ generation = 0 /\ asr = 0
    /\ final = [g \in Turns |-> "none"]
    /\ answer = [g \in Turns |-> "none"]
    /\ barged = [g \in Turns |-> FALSE]
    /\ turn = [g \in Turns |-> "none"]
    /\ reply = [g \in Turns |-> "none"]
    /\ active = FALSE /\ closed = FALSE

\* _transcription_task.cancel(): without effect on a task that has answered.
Cancelled == [g \in Turns |-> IF g = asr /\ answer[g] = "pending" THEN "cancelled" ELSE answer[g]]

\* session.interrupt(force=True): whatever is being said or about to be said.
Interrupted == [g \in Turns |-> IF reply[g] \in {"asked", "playing"} THEN "interrupted" ELSE reply[g]]

\* Mutant: the timeline is closed with the reason, not the action.
FlushedByReason(terminal) ==
    [g \in Turns |-> IF turn[g] = "open" THEN "ptt_segment" ELSE turn[g]]

\* _flush_ptt_timeline: the timeline still open gets its terminal.
Flushed(terminal) == [g \in Turns |-> IF turn[g] = "open" THEN terminal ELSE turn[g]]

-----------------------------------------------------------------------------
\* The button

\* A press supersedes the turn still being finalized, opens the next hold and
\* stops the agent if it is talking.  (The controller ignores a press while it
\* records and refuses a release while it does not; HoldIsRecorded says that the
\* button gives it neither.)
Press(g) ==
    /\ ~closed /\ ~held /\ state # "recording"
    /\ g = generation + 1
    /\ generation' = g
    /\ state' = "recording" /\ held' = TRUE
    /\ asr' = 0
    /\ answer' = Cancelled
    /\ barged' = [barged EXCEPT ![g] = active]
    /\ reply' = IF active THEN Interrupted ELSE reply
    /\ turn' = [Flushed("cancelled") EXCEPT ![g] = "open"]
    /\ UNCHANGED <<final, active, closed>>

\* The segment is sealed in the callback; its transcription starts later.
Release ==
    /\ ~closed /\ held /\ state = "recording"
    /\ held' = FALSE
    /\ state' = "transcribing"
    /\ final' = [final EXCEPT ![generation] = "queued"]
    /\ UNCHANGED <<generation, asr, answer, barged, turn, reply, active, closed>>

-----------------------------------------------------------------------------
\* The task that finalizes hold g

\* A turn that is no longer the current one ends without a trace.
Superseded(g) ==
    /\ final' = [final EXCEPT ![g] = "done"]
    /\ UNCHANGED <<control, answer, barged, turn, reply, active, closed>>

Rejects(g) ==
    /\ final' = [final EXCEPT ![g] = "done"]
    /\ turn' = Flushed("rejected")
    /\ reply' = reply

\* The reply may be refused by the session, which ends the turn all the same.
Commits(g) ==
    /\ final' = [final EXCEPT ![g] = "done"]
    /\ turn' = Flushed("committed")
    /\ \E how \in {"asked", "failed"} : reply' = [reply EXCEPT ![g] = how]

\* _transcribe begins.  A hold that stopped the agent and holds hardly any
\* speech was a tap; a segment without usable audio is not sent anywhere, but
\* goes through the same task.
TranscribeStarts(g) ==
    /\ final[g] = "queued"
    /\ IF g # generation THEN Superseded(g)
       ELSE \/ /\ barged[g]
               /\ state' = "idle"
               /\ Rejects(g)
               /\ UNCHANGED <<held, generation, asr, answer, barged, active, closed>>
            \/ /\ asr' = g
               /\ final' = [final EXCEPT ![g] = "asr"]
               /\ answer' = [answer EXCEPT ![g] = "pending"]
               /\ UNCHANGED <<held, state, generation, barged, turn, reply, active, closed>>

\* The recognizer answers; the task is not running yet.
AsrAnswers(g, what) ==
    /\ answer[g] = "pending"
    /\ answer' = [answer EXCEPT ![g] = what]
    /\ UNCHANGED <<control, final, barged, turn, reply, active, closed>>

Answered(g) == final[g] = "asr" /\ answer[g] \in Answers \cup {"cancelled"}

\* Mutant: the state is reset whoever's transcription ended.
TranscribeEndsAnyway(g) ==
    /\ Answered(g)
    /\ state' = "idle" /\ asr' = 0
    /\ IF g # generation
       THEN final' = [final EXCEPT ![g] = "done"] /\ UNCHANGED <<turn, reply>>
       ELSE IF answer[g] = "text" THEN Commits(g) ELSE Rejects(g)
    /\ UNCHANGED <<held, generation, answer, barged, active, closed>>

\* Mutant: the generation is read after the await, where it always agrees.
TranscribeEndsTrusting(g) ==
    /\ Answered(g)
    /\ IF g = generation THEN state' = "idle" /\ asr' = 0 ELSE UNCHANGED <<state, asr>>
    /\ IF answer[g] = "text" THEN Commits(g) ELSE Rejects(g)
    /\ UNCHANGED <<held, generation, answer, barged, active, closed>>

\* Mutant: an error of the recognizer is logged, and that is all.
TranscribeEndsUnlessError(g) ==
    /\ Answered(g)
    /\ \/ (g # generation \/ answer[g] = "error") /\ Superseded(g)
       \/ /\ g = generation /\ answer[g] # "error"
          /\ state' = "idle" /\ asr' = 0
          /\ IF answer[g] = "text" THEN Commits(g) ELSE Rejects(g)
          /\ UNCHANGED <<held, generation, answer, barged, active, closed>>

\* _transcribe resumes and _finalize_ptt_turn goes on with its result.
TranscribeEnds(g) ==
    /\ Answered(g)
    /\ \/ g # generation /\ Superseded(g)
       \/ /\ g = generation
          /\ state' = "idle" /\ asr' = 0
          /\ IF answer[g] = "text" THEN Commits(g) ELSE Rejects(g)
          /\ UNCHANGED <<held, generation, answer, barged, active, closed>>

-----------------------------------------------------------------------------
\* The AgentSession

\* It starts on the oldest reply asked for: first it thinks, then it speaks.
ReplyStarts(g) ==
    /\ reply[g] = "asked"
    /\ \A h \in Turns : reply[h] # "playing" /\ (reply[h] = "asked" => h >= g)
    /\ reply' = [reply EXCEPT ![g] = "playing"]
    /\ active' = TRUE
    /\ UNCHANGED <<control, final, answer, barged, turn, closed>>

ReplyEnds(g) ==
    /\ reply[g] = "playing"
    /\ reply' = [reply EXCEPT ![g] = "done"]
    /\ active' = FALSE
    /\ UNCHANGED <<control, final, answer, barged, turn, closed>>

\* The agent has gone quiet after an interruption.
GoesQuiet ==
    /\ active /\ \A g \in Turns : reply[g] # "playing"
    /\ active' = FALSE
    /\ UNCHANGED <<control, final, answer, barged, turn, reply, closed>>

-----------------------------------------------------------------------------
\* shutdown: the controller is aborted, the finalizing tasks are cancelled.
Shutdown ==
    /\ ~closed
    /\ closed' = TRUE
    /\ generation' = generation + 1
    /\ state' = "idle" /\ asr' = 0
    /\ answer' = Cancelled
    /\ final' = [h \in Turns |-> IF final[h] \in {"queued", "asr"} THEN "done" ELSE final[h]]
    /\ UNCHANGED <<held, barged, turn, reply, active>>

-----------------------------------------------------------------------------
Finalizes(g) == TranscribeStarts(g) \/ TranscribeEnds(g)

Next ==
    \/ Release \/ GoesQuiet \/ Shutdown
    \/ \E g \in Turns :
          \/ Press(g) \/ Finalizes(g)
          \/ \E what \in Answers : AsrAnswers(g, what)
          \/ ReplyStarts(g) \/ ReplyEnds(g)

Spec == Init /\ [][Next]_vars

\* Tasks that can run do, and the recognizer answers one way or another.
Fairness ==
    \A g \in Turns : /\ WF_vars(Finalizes(g))
                     /\ WF_vars(\E what \in Answers : AsrAnswers(g, what))

FairSpec == Spec /\ Fairness
-----------------------------------------------------------------------------
TypeOK ==
    /\ held \in BOOLEAN /\ active \in BOOLEAN /\ closed \in BOOLEAN
    /\ state \in {"idle", "recording", "transcribing"}
    /\ generation \in 0 .. MaxTurns + 1 /\ asr \in 0 .. MaxTurns
    /\ final \in [Turns -> {"none", "queued", "asr", "done"}]
    /\ answer \in [Turns -> Answers \cup {"none", "pending", "cancelled"}]
    /\ barged \in [Turns -> BOOLEAN]
    /\ turn \in [Turns -> {"none", "open", "cancelled", "rejected", "committed"}]
    /\ reply \in [Turns -> {"none", "asked", "playing", "interrupted", "done", "failed"}]

\* While the button is down the microphone is recorded, whatever the tasks of
\* earlier holds come to: no late answer, error or cleanup of theirs ends it.
HoldIsRecorded == ~closed => (held <=> state = "recording")

\* The transcription a press would cancel is the current turn's, never one
\* started late for an earlier hold.
TracksCurrentTurn == asr # 0 => asr = generation /\ state = "transcribing"

\* The recorder and the transcription a press would cancel are the newest hold's.
NewestHoldOwns == HoldIsRecorded /\ TracksCurrentTurn

\* Only the newest hold is committed and answered, and not while the next one
\* is being spoken: a superseded result triggers no reply.
OnlyNewestCommits ==
    [][\A g \in Turns :
          (turn'[g] # turn[g] /\ turn'[g] = "committed") \/ (reply'[g] # reply[g] /\ reply'[g] = "asked")
              => g = generation /\ ~held]_vars

\* Every hold that was let go of comes to an end: it is committed, rejected or
\* superseded, unless the session is shut down first.
EveryHoldConcludes ==
    \A g \in Turns : (final[g] # "none" /\ turn[g] = "open") ~> (turn[g] # "open" \/ closed)
=============================================================================
