----------------------------- MODULE Interruption -----------------------------
(***************************************************************************)
(* The interruption owner of the full-duplex agent                         *)
(* (livekit/agent/session/interruption_orchestrator.py) and what shares    *)
(* its lifecycle: the deadline of a suspension (duck_timeout.py), the      *)
(* effects of a decision (decision_effects.py, interruption_effects.py),   *)
(* the start and the stop of a speech (speech_lifecycle.py), the final     *)
(* classification (semantic_interrupt.py) and the endpointing barrier of   *)
(* full_duplex/pipeline.py.                                                *)
(*                                                                         *)
(* A step is what a callback or a task does from one await to the next.    *)
(* The user's turn is what the owner sees of it (module UserTurn has the   *)
(* rest), the output only its mode (module OutputGate has the rest), and a *)
(* transcript only how far it goes as evidence.  Time is counted in ticks; *)
(* timers may be late, and ages stop at the largest budget.                *)
(***************************************************************************)
EXTENDS Integers, FiniteSets

CONSTANTS
    Evidence,     \* evidence_timeout_sec: what a candidate may wait for its evidence
    NoEvidence,   \* no_evidence_timeout_sec: the same, when nothing was recognized
    Grace,        \* continuation_grace_sec
    MinSpeech,    \* min_speech_sec
    DuckTimeout,  \* duck_suspend_timeout_sec
    BufferMax,    \* duck_buffer_max_sec: the longest suspension without an owner
    Typed,        \* a reply may begin in a turn whose cancellation stopped another
    MaxGen,       \* bound on the acoustic generations
    MaxTimers     \* bound on the deadlines asleep at one time

ASSUME InterruptionAssumption ==
    /\ {Evidence, NoEvidence, Grace, MinSpeech, DuckTimeout, BufferMax} \subseteq Nat
    /\ NoEvidence <= Evidence
    /\ Typed \in BOOLEAN
    /\ {MaxGen, MaxTimers} \subseteq Nat \ {0}

VARIABLES
    model,       \* the configuration: a model classifies the finals, or the score decides
    closed,
    speaking,    \* the SDK's user_state is "speaking"
    turn,        \* the active turn of the coordinator
    heard,       \* _latest_asr_text is not empty
    replying,    \* agent_output_active_for_interrupts
    output,      \* the state of the output
    since,       \* the age of the last suspension
    claimed,     \* the active turn has committed a playback stop
    cand,        \* _candidate
    verdicts,    \* _resolved_verdicts
    timers,      \* the runs of the deadline that are asleep
    armed,       \* timeout_task: the one the output knows of, or 0
    recheck,     \* _stable_signal_timer
    endp         \* the endpointing task of the SDK, in the barrier

vars == <<model, closed, speaking, turn, heard, replying, output, since, claimed, cand,
          verdicts, timers, armed, recheck, endp>>

NoTime == -1
TimerIds == 1 .. MaxTimers
Off == [len |-> NoTime, left |-> NoTime]
NoKey == [turn |-> 0, gen |-> 0]
Idle == [pc |-> "off", key |-> NoKey, left |-> NoTime]
Least(a, b) == IF a <= b THEN a ELSE b
Left(budget, age) == IF age >= budget THEN 0 ELSE budget - age

KeyOf(t) == [turn |-> t.id, gen |-> t.gen]

\* InterruptionCandidate.  text: the evidence, "artifact" for a short Latin interim;
\* ask: the classification of its final text.
NewCandidate(key) ==
    [live |-> TRUE, key |-> key, age |-> 0, stop |-> NoTime, awaiting |-> FALSE, text |-> "none",
     last |-> "none", intent |-> "none", vad |-> FALSE, state |-> "waiting", ask |-> "none"]
NoCandidate == [NewCandidate(NoKey) EXCEPT !.live = FALSE]

Init ==
    /\ model \in BOOLEAN
    /\ closed = FALSE /\ speaking = FALSE /\ heard = FALSE
    /\ turn = [id |-> 0, gen |-> 0, state |-> "none", ended |-> TRUE, text |-> FALSE, age |-> 0]
    /\ replying = FALSE /\ output = "normal" /\ since = 0 /\ claimed = FALSE
    /\ cand = NoCandidate /\ verdicts = <<>>
    /\ timers = [i \in TimerIds |-> Off] /\ armed = 0
    /\ recheck = FALSE /\ endp = Idle

-----------------------------------------------------------------------------
\* What the owner says of its candidate

\* hold_remaining_sec
HoldRemaining ==
    IF ~cand.live THEN NoTime
    ELSE IF cand.stop = NoTime /\ cand.last \in {"none", "hold", "resume"}
         THEN Left(Evidence, cand.age)
    ELSE IF ~cand.awaiting \/ cand.stop = NoTime THEN NoTime
    ELSE Left(IF cand.text \in {"none", "artifact"} THEN NoEvidence ELSE Evidence, cand.stop)

\* playback_hold_remaining_sec, which waits for a model's result where there is a model.
PlaybackHoldRemaining ==
    IF \/ ~cand.live \/ cand.stop = NoTime \/ cand.text = "none" \/ cand.state = "resumed"
       \/ (model /\ cand.ask \notin {"noise", "unsure"})
    THEN NoTime ELSE Left(Grace, cand.stop)

\* _is_committable_cancel_candidate
IsCommittableCancel(c) == c.live /\ c.last = "cancel" /\ c.intent \notin {"stop", "noise"}

\* should_collect_after_confirmed_cancel
ShouldCollect(c) == IsCommittableCancel(c) /\ ~c.awaiting /\ c.stop = NoTime /\ c.vad

\* blocks_framework_completed_turn
BlocksCompletion(key) ==
    /\ cand.live /\ cand.key = key
    /\ \/ cand.awaiting \/ cand.state = "collecting"
       \/ cand.state \in {"waiting", "postwait"} /\ cand.last \in {"none", "hold"}

\* _latest_asr_text, or the candidate's transcript
HasText == heard \/ cand.text # "none"

\* note_transcript: later text supersedes a final, and what was asked about it.
NoteTranscript(c, final) ==
    IF ~c.live THEN c
    ELSE [c EXCEPT !.text = IF final THEN "final" ELSE "interim",
                   !.ask = IF model /\ final THEN "asked" ELSE "none"]

\* note_turn_policy_decision
NoteDecision(c, d, vad) ==
    IF ~c.live THEN c
    ELSE [c EXCEPT
            !.last = d.act, !.intent = d.intent, !.vad = vad /\ d.act = "cancel",
            !.text = IF d.kind = "artifact" THEN "artifact"
                     ELSE IF @ = "artifact" \/ (@ = "none" /\ heard) THEN "interim" ELSE @,
            !.state = CASE d.act = "cancel"   -> "cancelled"
                        [] d.act = "rollback" -> "false"
                        [] d.act = "resume"   -> "resumed"
                        [] OTHER -> IF @ = "resumed" THEN @
                                    ELSE IF c.awaiting THEN "postwait" ELSE "waiting"]

\* _build_verdict
Verdict(c, act, why) ==
    [act |-> CASE act = "cancel"   -> "confirmed"
               [] act = "rollback" -> (IF why = "timeout" THEN "expired" ELSE "rejected")
               [] OTHER            -> "superseded",
     llm |-> act = "cancel" /\ c.last = "cancel" /\ c.intent = "reply"]

-----------------------------------------------------------------------------
\* The effects of a decision.  s is what the operation has made so far of the output,
\* its deadlines and the turn.

Now == [out |-> output, timers |-> timers, armed |-> armed, turn |-> turn, recheck |-> recheck]

Put(s) ==
    /\ output' = s.out /\ timers' = s.timers /\ armed' = s.armed /\ turn' = s.turn
    /\ recheck' = s.recheck

Keep(c, s) == Put(s) /\ cand' = c /\ UNCHANGED verdicts

\* Mutant: the verdict is only recorded.
DisposedLater(t, key, v) == t

\* _on_terminal_interruption_verdict: the open turn of this very generation is disposed of.
Disposed(t, key, v) ==
    IF ~v.llm /\ t.state = "open" /\ KeyOf(t) = key THEN [t EXCEPT !.state = "rejected"] ELSE t

\* The verdicts, and that of one more candidate.  The code keeps the newest 16 and forgets the
\* others (interruption_orchestrator.py:739); here none is forgotten.
Recorded(key, v) == [k \in DOMAIN verdicts \cup {key} |-> IF k = key THEN v ELSE verdicts[k]]

\* resolve
Resolve(c, act, why, s) ==
    IF ~c.live THEN Keep(c, s)
    ELSE LET v == Verdict(c, act, why) IN
         /\ verdicts' = Recorded(c.key, v)
         /\ cand' = NoCandidate
         /\ Put([s EXCEPT !.turn = Disposed(s.turn, c.key, v)])

\* cancel_timeout
Disarm(s) == IF s.armed = 0 THEN s ELSE [s EXCEPT !.timers[s.armed] = Off, !.armed = 0]

Free(s) == {i \in TimerIds : s.timers[i] = Off}
HasSlot(s) == s.armed # 0 \/ Free(s) # {}
Sleeping(s, i, len) == [s EXCEPT !.timers[i] = [len |-> len, left |-> len], !.armed = i]

\* arm_evidence_timeout
Arm(s) == Sleeping(Disarm(s), CHOOSE i \in Free(Disarm(s)) : TRUE, DuckTimeout)

\* duck_and_arm_timeout, where it ducks
Duck(s) == [Arm(s) EXCEPT !.out = "suspended"]

\* _claim_full_duplex_irreversible_side_effect, keyed by the turn
AlreadyClaimed(s) == claimed /\ s.turn.state # "rejected"

\* cancel_output, and the end of the rechecks
OutputCancelled(s) == [Disarm(s) EXCEPT !.out = "cancelled", !.recheck = FALSE]

\* mark_confirmed_cancel_collecting_turn
MarkCollecting(c, s) == Keep([c EXCEPT !.state = "collecting"], s)

\* cancel_and_interrupt: ignored if the output is cancelled already and nothing is heard;
\* once a turn has stopped the playback, a second time only resolves the candidate.
CancelAndInterrupt(c, s) ==
    IF s.out = "cancelled" /\ ~replying
    THEN Keep(c, s) /\ UNCHANGED claimed
    ELSE IF AlreadyClaimed(s)
    THEN LET s1 == [s EXCEPT !.recheck = FALSE] IN
         /\ IF ShouldCollect(c) THEN Keep(c, s1) ELSE Resolve(c, "cancel", "duplicate", s1)
         /\ UNCHANGED claimed
    ELSE /\ IF ShouldCollect(c) THEN MarkCollecting(c, OutputCancelled(s))
                                ELSE Resolve(c, "cancel", "eot_cancel", OutputCancelled(s))
         /\ claimed' = TRUE

\* rollback_if_suspended
RollbackIfSuspended(c, why, s) ==
    /\ IF s.out = "suspended"
       THEN Resolve(c, "rollback", why, [Disarm(s) EXCEPT !.out = "normal", !.recheck = FALSE])
       ELSE Resolve(c, "rollback", why, IF c.live THEN Disarm(s) ELSE s)
    /\ UNCHANGED claimed

\* resume_pending_output; after is what its caller arms.
ResumePendingOutput(c, after) ==
    Keep(c, after) /\ UNCHANGED claimed
Resumed(s) == [Disarm(s) EXCEPT !.out = IF @ = "suspended" THEN "normal" ELSE @]

\* handle_hold_decision
HandleHold(c, d, s) ==
    /\ Keep(c, [s EXCEPT !.recheck = @ \/ (d.kind = "recheck" /\ (c.live \/ s.out = "suspended"))])
    /\ UNCHANGED claimed

\* DecisionEffectApplier.apply
Apply(d, why, vad, c0, s) ==
    LET c == NoteDecision(c0, d, vad) IN
    \/ d.act = "cancel"   /\ CancelAndInterrupt(c, s)
    \/ d.act = "rollback" /\ RollbackIfSuspended(c, why, s)
    \/ d.act = "hold"     /\ HandleHold(c, d, s)

Decision(act, intent, kind) == [act |-> act, intent |-> intent, kind |-> kind]
Hold == Decision("hold", "uncertain", "plain")
Rollback == Decision("rollback", "uncertain", "plain")
Cancel == Decision("cancel", "reply", "plain")
Unchanged == UNCHANGED <<cand, verdicts, turn, output, timers, armed, claimed, recheck>>

-----------------------------------------------------------------------------
\* The deadline

\* on_decision_deadline, which a hold of the owner replaces while it has a budget left.
DeadlineDecisions ==
    IF speaking \/ HasText THEN {Hold} \cup (IF speaking /\ HasText /\ ~model THEN {Cancel} ELSE {})
    ELSE IF HoldRemaining > 0 THEN {Hold} ELSE {Rollback}

\* Mutant: a hold of the deadline waits for the next transcript.
HoldForGood(len, slot, s) ==
    IF HoldRemaining = 0 THEN Apply(Rollback, "timeout", speaking, cand, s)
                         ELSE Apply(Hold, "timeout", speaking, cand, s)

\* _resolve_hold_or_rearm, by a run that slept for len and arms the next one in slot.
ResolveHoldOrRearm(len, slot, s) ==
    LET own == HoldRemaining
        play == IF s.out = "suspended" THEN PlaybackHoldRemaining ELSE NoTime
        budget == IF own # NoTime THEN own ELSE Left(BufferMax, since)
        next == IF play = NoTime THEN budget ELSE Least(budget, play)
        resume == Decision("resume", "uncertain", "plain")
    IN IF budget = 0 /\ own # NoTime /\ speaking /\ HasText
       THEN ResumePendingOutput(NoteDecision(cand, resume, TRUE), Resumed(s))
       ELSE IF budget = 0 THEN Apply(Rollback, "timeout", speaking, cand, s)
       ELSE IF play = 0
       THEN ResumePendingOutput(NoteDecision(cand, resume, speaking),
                                IF speaking THEN Resumed(s) ELSE Sleeping(Resumed(s), slot, len))
       ELSE Apply(Hold, "timeout", speaking, cand, Sleeping(s, slot, Least(len, next)))

\* DuckSuspendTimeoutHandler.run, once it has slept.
RunDeadline(len, slot, s) ==
    IF output # "suspended" /\ ~cand.live
    THEN Keep(cand, s) /\ UNCHANGED claimed
    ELSE \E d \in DeadlineDecisions :
            IF d.act = "hold" THEN ResolveHoldOrRearm(len, slot, s)
                              ELSE Apply(d, "timeout", speaking, cand, s)

DeadlineFires(i) ==
    /\ ~closed /\ timers[i].left = 0
    /\ RunDeadline(timers[i].len, i, [Now EXCEPT !.timers[i] = Off])
    /\ UNCHANGED <<model, closed, speaking, heard, replying, since, endp>>

-----------------------------------------------------------------------------
\* The start and the stop of a speech

\* can_merge_new_speech: recognized text, or an owner that waits for more of it, keeps the
\* turn open; otherwise the grace decides.
CanMerge ==
    /\ turn.state = "open"
    /\ ~turn.ended \/ turn.text \/ turn.age <= Grace
       \/ (cand.live /\ cand.awaiting /\ HoldRemaining > 0 /\ cand.text # "none" /\ cand.key = KeyOf(turn))

\* start_speech of the coordinator
StartedTurn ==
    IF CanMerge /\ ~turn.ended THEN turn
    ELSE IF CanMerge THEN [turn EXCEPT !.gen = @ + 1, !.ended = FALSE]
    ELSE [id |-> turn.id + 1, gen |-> turn.gen + 1, state |-> "open",
          ended |-> FALSE, text |-> FALSE, age |-> 0]

\* Mutant: a second start of the same generation begins again.
StartCandidateAnew(s) ==
    /\ cand' = NewCandidate(KeyOf(s.turn))
    /\ verdicts' = IF cand.live THEN Recorded(cand.key, Verdict(cand, "supersede", "")) ELSE verdicts
    /\ Put(s)

\* start_candidate: another generation supersedes the candidate there is.
StartCandidate(s) ==
    LET key == KeyOf(s.turn) IN
    IF cand.live /\ cand.key = key THEN Keep(cand, s)
    ELSE /\ cand' = NewCandidate(key)
         /\ verdicts' = IF cand.live THEN Recorded(cand.key, Verdict(cand, "supersede", "")) ELSE verdicts
         /\ Put(s)

\* Renewed speech cancels the endpointing task of the SDK; the deadline that it may be in the
\* middle of swallows the cancellation, and leaves it to the checks after it.
EndpointOnSpeech(acoustic) ==
    IF ~acoustic THEN endp
    ELSE IF /\ endp.pc = "inline" /\ KeyOf(turn') = endp.key
            /\ ~(cand'.live /\ cand'.key = endp.key)
    THEN [endp EXCEPT !.pc = "passed"] ELSE Idle

\* _start_candidate.  acoustic: a VAD edge, not a transcript.  window: the attention policy
\* opens an interruption window; ducks: the output is suspended with it, unless there is a
\* filler, a cooldown or a cancellation.
SpeechStarts(acoustic, window, ducks) ==
    LET s1 == [Now EXCEPT !.turn = StartedTurn]
        s2 == IF ducks THEN Duck(s1) ELSE s1
    IN /\ ~closed
       /\ IF acoustic THEN ~speaking ELSE turn.state # "open"
       /\ window => replying /\ HasSlot(Now)
       /\ ducks => window /\ acoustic /\ output # "cancelled"
       /\ StartedTurn.gen <= MaxGen
       /\ speaking' = (speaking \/ acoustic)
       /\ heard' = FALSE /\ claimed' = (claimed /\ StartedTurn.id = turn.id)
       /\ since' = IF ducks THEN 0 ELSE since
       /\ IF window /\ output # "cancelled" THEN StartCandidate(Arm(s2)) ELSE Keep(cand, s2)
       /\ endp' = EndpointOnSpeech(acoustic)
       /\ UNCHANGED <<model, closed, replying>>

\* The classification of a final: what was asked about this text, or is known of it.
ModelDecision(c, vad) ==
    CASE c.ask = "noise" -> (IF vad THEN Decision("hold", "noise", "plain")
                                    ELSE Decision("rollback", "noise", "plain"))
      [] OTHER -> Hold

\* decide_from_transcript
TranscriptDecisions(c, final, vad) ==
    IF model THEN {ModelDecision(c, vad)}
    ELSE {Hold, Decision("hold", "uncertain", "recheck"), Cancel}
         \cup (IF final THEN {} ELSE {Decision("hold", "uncertain", "artifact")})

\* Mutant: the candidate keeps no time of its stop.
StoppedUntimed ==
    LET c == [cand EXCEPT !.text = IF @ = "none" /\ heard THEN "interim" ELSE @]
        text == c.text # "none"
        waits == /\ ~(text /\ (c.last \in {"rollback", "cancel"} \/ c.intent = "noise"))
                 /\ ~text \/ c.last \in {"none", "hold", "resume"}
                 /\ c.age >= MinSpeech
    IN [cand |-> IF waits THEN [c EXCEPT !.awaiting = TRUE,
                                         !.state = IF output = "suspended" THEN "postwait" ELSE "resumed"]
                          ELSE c,
        waits |-> waits]

\* defer_false_resume_after_speech_end: the candidate, and whether it waits for evidence.
Stopped ==
    LET c == [cand EXCEPT !.stop = 0, !.text = IF @ = "none" /\ heard THEN "interim" ELSE @]
        text == c.text # "none"
        waits == /\ ~(text /\ (c.last \in {"rollback", "cancel"} \/ c.intent = "noise"))
                 /\ ~text \/ c.last \in {"none", "hold", "resume"}
                 /\ c.age >= MinSpeech
    IN [cand |-> IF waits THEN [c EXCEPT !.awaiting = TRUE,
                                         !.state = IF output = "suspended" THEN "postwait" ELSE "resumed"]
                          ELSE c,
        waits |-> waits]

\* on_user_silent
UserSilent == IF heard THEN Hold ELSE Rollback

\* _resolve_interruption_candidate_on_stop
ResolveOnStop(s0) ==
    LET c == [Stopped.cand EXCEPT !.ask = IF model /\ @ = "none" /\ cand.text = "final" THEN "asked" ELSE @]
        s == IF Stopped.waits /\ output # "suspended" THEN Arm(s0) ELSE s0
    IN /\ Stopped.waits /\ output # "suspended" => HasSlot(s0)
       /\ \/ c.text = "final" /\ \E d \in TranscriptDecisions(c, TRUE, FALSE) :
                                    Apply(d, "speech_stopped", FALSE, c, s)
          \/ c.text # "final" /\ ~Stopped.waits
             /\ Apply(UserSilent, "user_silent", FALSE, c, s)
          \/ c.text # "final" /\ Stopped.waits
             /\ Keep(c, s) /\ UNCHANGED claimed

\* finish_confirmed_cancel_speech
FinishConfirmedCancel(s) ==
    /\ IsCommittableCancel(cand)
    /\ Resolve([cand EXCEPT !.stop = 0], "cancel", "confirmed_cancel_speech_completed", s)
    /\ UNCHANGED claimed

\* handle_stopped
SpeechStops ==
    LET s == [Now EXCEPT !.turn = IF @.state = "open" THEN [@ EXCEPT !.ended = TRUE, !.age = 0] ELSE @] IN
    /\ ~closed /\ speaking
    /\ speaking' = FALSE
    /\ \/ FinishConfirmedCancel(s)
       \/ ~IsCommittableCancel(cand) /\ cand.live /\ ResolveOnStop(s)
       \/ ~cand.live /\ Keep(cand, s) /\ UNCHANGED claimed
    /\ UNCHANGED <<model, closed, heard, replying, since, endp>>

-----------------------------------------------------------------------------
\* Transcripts

\* SemanticInterruptHandler.run, where a candidate or a suspension is pending.
RunSemantic(final, s) ==
    LET c == NoteTranscript(cand, final) IN
    IF model /\ ~cand.live THEN Keep(cand, s) /\ UNCHANGED claimed
    ELSE \E d \in TranscriptDecisions(c, final, speaking) : Apply(d, "transcript", speaking, c, s)

\* FullDuplexTranscriptHandler.handle, of an accepted transcript of the open turn.  routed:
\* neither the window of a cancellation nor the attention policy keeps it from the owner;
\* ducks: the policy suspends the output for it.
TranscriptArrives(final, routed, ducks) ==
    LET s1 == [Now EXCEPT !.turn = [@ EXCEPT !.text = TRUE]]
        s == IF ducks THEN Duck(s1) ELSE s1
        pending == s.out = "suspended" \/ cand.live
    IN /\ ~closed /\ turn.state = "open"
       /\ ducks => routed /\ replying /\ output = "normal" /\ HasSlot(Now)
       /\ heard' = TRUE
       /\ since' = IF ducks THEN 0 ELSE since
       /\ IF routed /\ pending THEN RunSemantic(final, s) ELSE Keep(cand, s) /\ UNCHANGED claimed
       /\ UNCHANGED <<model, closed, speaking, replying, endp>>

\* _stable_signal_recheck
RecheckFires ==
    LET s == [Now EXCEPT !.recheck = FALSE] IN
    /\ ~closed /\ recheck
    /\ IF HasText /\ (output = "suspended" \/ cand.live)
       THEN RunSemantic(cand.text = "final", s)
       ELSE Keep(cand, s) /\ UNCHANGED claimed
    /\ UNCHANGED <<model, closed, speaking, heard, replying, since, endp>>

\* _classify_final, of the text that is still the candidate's; a provider that fails or is
\* late counts as an ordinary interruption.
IntentIsKnown(answer) ==
    LET c == [cand EXCEPT !.ask = answer] IN
    /\ ~closed /\ cand.live /\ cand.ask = "asked"
    /\ Apply(CASE answer = "reply" -> Cancel
               [] answer = "stop"  -> Decision("cancel", "stop", "plain")
               [] OTHER            -> ModelDecision(c, speaking),
             "transcript", speaking, c, Now)
    /\ UNCHANGED <<model, closed, speaking, heard, replying, since, endp>>

-----------------------------------------------------------------------------
\* The endpointing task

CheckScope(t) == KeyOf(t) = endp.key

EndpointBegins ==
    /\ ~closed /\ endp.pc = "off" /\ ~speaking /\ turn.state = "open" /\ turn.text
    /\ endp' = [pc |-> "begun", key |-> KeyOf(turn), left |-> NoTime]
    /\ UNCHANGED <<model, closed, speaking, heard, replying, since>> /\ Unchanged

\* wait_for_pending_intent, then wait_for_resolution
EndpointWaits ==
    LET mine == cand.live /\ cand.key = endp.key IN
    /\ endp.pc = "begun" /\ ~(mine /\ cand.ask = "asked")
    /\ endp' = IF closed \/ ~CheckScope(turn) THEN Idle
               ELSE IF ~mine THEN [endp EXCEPT !.pc = "passed"]
               ELSE [endp EXCEPT !.pc = "waiting",
                                 !.left = IF HoldRemaining # NoTime THEN HoldRemaining
                                          ELSE Left(Evidence, IF cand.stop # NoTime THEN cand.stop
                                                                                    ELSE cand.age)]
    /\ UNCHANGED <<model, closed, speaking, heard, replying, since>> /\ Unchanged

\* Mutant: a verdict does not wake the endpointing task, only the end of the session.
EndpointWakesLate ==
    /\ endp.pc = "waiting" /\ closed
    /\ endp' = Idle
    /\ UNCHANGED <<model, closed, speaking, heard, replying, since>> /\ Unchanged

\* The candidate is resolved, or the session closes.
EndpointWakes ==
    /\ endp.pc = "waiting" /\ (closed \/ ~(cand.live /\ cand.key = endp.key))
    /\ endp' = IF closed \/ ~CheckScope(turn) THEN Idle ELSE [endp EXCEPT !.pc = "passed"]
    /\ UNCHANGED <<model, closed, speaking, heard, replying, since>> /\ Unchanged

EndpointTimesOut ==
    /\ endp.pc = "waiting" /\ ~closed /\ endp.left = 0 /\ cand.live /\ cand.key = endp.key
    /\ endp' = IF CheckScope(turn) THEN [endp EXCEPT !.pc = "inline"] ELSE Idle
    /\ UNCHANGED <<model, closed, speaking, heard, replying, since>> /\ Unchanged

\* _duck_deadline.run(0): what it arms is not what it finds armed.
EndpointDecides ==
    /\ endp.pc = "inline" /\ ~closed /\ Free(Now) # {}
    /\ RunDeadline(0, CHOOSE i \in Free(Now) : TRUE, Now)
    /\ endp' = IF ~CheckScope(turn') \/ (cand'.live /\ cand'.key = endp.key)
               THEN Idle ELSE [endp EXCEPT !.pc = "passed"]
    /\ UNCHANGED <<model, closed, speaking, heard, replying, since>>

\* The SDK cancels its task for another reason.
EndpointCancelled ==
    /\ endp.pc # "off"
    /\ endp' = Idle
    /\ UNCHANGED <<model, closed, speaking, heard, replying, since>> /\ Unchanged

Ends(t) == Keep(cand, [Now EXCEPT !.turn = t]) /\ UNCHANGED claimed
Committed == [turn EXCEPT !.state = "committed"]
Rejected == [turn EXCEPT !.state = "rejected"]

\* _resolve_active_interruption_framework_completed_turn: blocked, or decided from the text
\* that was completed (_decide_from_completed_turn_evidence).
CompleteOnEvidence ==
    LET c == [NoteTranscript(cand, TRUE) EXCEPT !.ask = IF cand.text = "final" THEN cand.ask ELSE "none"]
        d == NoteDecision(c, Cancel, FALSE)
        s == [Now EXCEPT !.turn = Committed]
    IN \/ Keep(c, Now) /\ UNCHANGED claimed
       \/ /\ ~model
          /\ IF output = "cancelled" /\ ~replying
             THEN Resolve(d, "cancel", "evidence", s) /\ UNCHANGED claimed
             ELSE CancelAndInterrupt(d, s)

\* _resolve_recorded_interruption_verdict, for this very generation
RefusedBefore(key) == key \in DOMAIN verdicts /\ ~verdicts[key].llm

\* allows_completed_turn: a completion whose turn has gone, or speaks again, is dropped; one
\* that the gates do not admit rejects it; and otherwise the turn is committed.
Complete(admitted) ==
    /\ endp.pc = "passed" /\ ~closed
    /\ endp' = Idle
    /\ IF turn.state # "open" \/ ~CheckScope(turn) THEN Ends(turn)
       ELSE IF ~admitted THEN Ends(Rejected)
       ELSE IF BlocksCompletion(endp.key) THEN CompleteOnEvidence
       ELSE IF RefusedBefore(endp.key) THEN Ends(Rejected)
       ELSE Ends(Committed)
    /\ UNCHANGED <<model, closed, speaking, heard, replying, since>>

-----------------------------------------------------------------------------
\* The agent's output, the client's controls, time

\* starts_generation; also a reply to what was typed, or an announcement.
ReplyStarts ==
    /\ ~closed /\ ~replying
    /\ Typed \/ ~claimed \/ turn.state # "open"
    /\ replying' = TRUE
    /\ output' = IF output = "cancelled" THEN "normal" ELSE output
    /\ cand' = [cand EXCEPT !.ask = "none"]
    /\ UNCHANGED <<model, closed, speaking, turn, heard, since, claimed, verdicts,
                   timers, armed, recheck, endp>>

ReplyEnds ==
    /\ ~closed /\ replying /\ output # "suspended"
    /\ replying' = FALSE
    /\ cand' = [cand EXCEPT !.ask = "none"]
    /\ UNCHANGED <<model, closed, speaking, turn, heard, output, since, claimed, verdicts,
                   timers, armed, recheck, endp>>

\* cancel_silent_generation_for_explicit_preempt: the candidate is left as it is.
CancelSilentGeneration == Keep(cand, OutputCancelled(Now)) /\ UNCHANGED claimed

\* handle_explicit_client_preempt, of an audible output or of a silent generation
ExplicitPreempt ==
    /\ ~closed /\ output # "cancelled"
    /\ IF replying THEN CancelAndInterrupt(cand, Now)
       ELSE CancelSilentGeneration
    /\ UNCHANGED <<model, closed, speaking, heard, replying, since, endp>>

Older(age, most) == IF age = NoTime THEN age ELSE Least(age + 1, most)
Nearer(left) == IF left > 0 THEN left - 1 ELSE left

Tick ==
    /\ ~closed
    /\ cand' = IF cand.live THEN [cand EXCEPT !.age = Older(@, Evidence), !.stop = Older(@, Evidence)]
                            ELSE cand
    /\ turn' = [turn EXCEPT !.age = IF turn.state = "open" /\ turn.ended THEN Older(@, Grace + 1) ELSE @]
    /\ since' = Older(since, BufferMax)
    /\ timers' = [i \in TimerIds |-> [timers[i] EXCEPT !.left = Nearer(@)]]
    /\ endp' = [endp EXCEPT !.left = Nearer(@)]
    /\ UNCHANGED <<model, closed, speaking, heard, replying, output, claimed, verdicts,
                   armed, recheck>>

\* The session ends: on_exit and shutdown.
Close ==
    /\ ~closed
    /\ closed' = TRUE
    /\ turn' = IF turn.state = "open" THEN [turn EXCEPT !.state = "rejected"] ELSE turn
    /\ timers' = Disarm(Now).timers /\ armed' = 0
    /\ recheck' = FALSE
    /\ UNCHANGED <<model, speaking, heard, replying, output, since, claimed, cand,
                   verdicts, endp>>

Next ==
    \/ \E a, w, d \in BOOLEAN : SpeechStarts(a, w, d) \/ TranscriptArrives(a, w, d)
    \/ SpeechStops \/ RecheckFires
    \/ \E i \in TimerIds : DeadlineFires(i)
    \/ \E a \in {"reply", "stop", "noise", "unsure"} : IntentIsKnown(a)
    \/ EndpointBegins \/ EndpointWaits \/ EndpointWakes \/ EndpointTimesOut \/ EndpointDecides
    \/ EndpointCancelled
    \/ \E ok \in BOOLEAN : Complete(ok)
    \/ ReplyStarts \/ ReplyEnds \/ ExplicitPreempt
    \/ Tick \/ Close

Spec ==
    /\ Init /\ [][Next]_vars
    /\ WF_vars(Tick) /\ \A i \in TimerIds : WF_vars(DeadlineFires(i))
    /\ WF_vars(EndpointWaits) /\ WF_vars(EndpointWakes)
    /\ WF_vars(EndpointTimesOut) /\ WF_vars(EndpointDecides)

-----------------------------------------------------------------------------
\* The state is what the owner, its output and its turn may be in.
TypeOK ==
    /\ model \in BOOLEAN /\ closed \in BOOLEAN /\ speaking \in BOOLEAN /\ heard \in BOOLEAN
    /\ replying \in BOOLEAN /\ claimed \in BOOLEAN /\ recheck \in BOOLEAN
    /\ output \in {"normal", "suspended", "cancelled"} /\ armed \in {0} \cup TimerIds
    /\ turn.state \in {"none", "open", "committed", "rejected"} /\ turn.gen \in 0 .. MaxGen
    /\ cand.state \in {"waiting", "postwait", "resumed", "cancelled", "collecting", "false"}
    /\ cand.live => cand.key.gen \in 1 .. turn.gen /\ (cand.awaiting => cand.stop # NoTime)

\* However the stops, the transcripts, the answers of the model, the deadlines and the
\* endpointing task follow each other, a suspended output has a deadline that sleeps
\* (duck_timeout.py: "This handler owns the later deadline"), so a reply cannot be left
\* muted.  It does not hold where Typed: see the README.
SuspensionIsWatched == output = "suspended" /\ ~closed => armed # 0 /\ timers[armed] # Off

\* What has been decided of a generation is never decided again: the completed turn asks for
\* the verdict of its very generation whenever it comes (verdict_for, InterruptionVerdict).
\* That is said of the verdicts that are still remembered.
VerdictIsFinal ==
    [][\A k \in DOMAIN verdicts : k \in DOMAIN verdicts' /\ verdicts'[k] = verdicts[k]]_vars

\* Words that the owner has refused never reach the model: no turn stays open, for a completion
\* to commit, once the verdict on its generation says that it ends there (continue_to_llm).
RefusedIsDisposedOf ==
    turn.state = "open" /\ KeyOf(turn) \in DOMAIN verdicts => verdicts[KeyOf(turn)].llm

\* A late verdict on an earlier stretch of speech does not dispose of the turn that the user
\* has gone on speaking in (_on_terminal_interruption_verdict compares the generation).
LateVerdictSpares ==
    [][\A k \in DOMAIN verdicts' \ DOMAIN verdicts :
          turn.state = "open" /\ turn' # turn /\ KeyOf(turn) # k => turn'.state # "rejected"]_vars

\* A generation is judged once, and for itself alone.
JudgedOnce == VerdictIsFinal /\ LateVerdictSpares

\* A cancellation that has been confirmed and collects the rest of the user's words ends as
\* confirmed, or by newer speech (finish_confirmed_cancel_speech: "The already-confirmed
\* cancel must never be reclassified").  It does not hold: see the README.
ConfirmedCancelStands ==
    [][cand.live /\ cand.state = "collecting" /\ cand'.key # cand.key
       => verdicts'[cand.key].act \in {"confirmed", "superseded"}]_vars

\* A reply is not held back for ever: every suspension ends, by a decision or by a budget
\* that runs out, whatever the user and the provider do.
SuspensionEnds == []<>(output # "suspended" \/ closed)

\* The endpointing task that waits for a verdict gets one, or its budget runs out, or its
\* generation is superseded (wait_for_resolution: "within its existing evidence budget").
EndpointIsReleased == endp.pc = "waiting" ~> endp.pc # "waiting"

\* Neither the reply nor the end of the user's turn waits for good.
NothingWaitsForGood == SuspensionEnds /\ EndpointIsReleased
=============================================================================
