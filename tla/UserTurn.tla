---------------------------- MODULE UserTurn ----------------------------
(***************************************************************************)
(* How the full-duplex agent assembles what the user says into turns       *)
(* (src/eidolon/livekit/agent/session/user_turn_coordinator.py and         *)
(* full_duplex/: framework_completed_turn, transcript_settlement,          *)
(* transcript_recorder, transcript_hypothesis_reconciler, speech_lifecycle,*)
(* turn_completion).                                                       *)
(*                                                                         *)
(* Three sources drive it, in any order: voice activity (speech starts and *)
(* stops), the recogniser (hypotheses, finals and withdrawals of one       *)
(* sentence after another) and the framework, which gathers the finals and *)
(* announces a completed turn with them.  One candidate collects the text. *)
(* Only the completed-turn gate commits it: it may wait for a voiceprint   *)
(* and then for transcripts still pending, up to a deadline, and the turn  *)
(* goes on changing while it waits.                                        *)
(*                                                                         *)
(* A text is a sequence of words.  Words are long enough that two texts    *)
(* one of which contains the other may be revisions of one hypothesis      *)
(* (transcript_revision.py asks for four characters).  Interruption        *)
(* appears through what it does to the turn: a refusal, or a completion    *)
(* blocked while the evidence is still awaited (module Interruption).      *)
(***************************************************************************)
EXTENDS Naturals, SequencesExt

CONSTANTS
    Said,        \* the words of each sentence, in the order they are spoken
    MaxGen,      \* acoustic generations the run explores
    MaxSent,     \* commits after which no completion is announced
    MaxQueue     \* completions announced and not yet taken up

Words == UNION {Range(Said[u]) : u \in DOMAIN Said}

ASSUME SaidAssumption == Said \in Seq(Seq(Words) \ {<< >>})
ASSUME BoundsAssumption == MaxGen \in Nat /\ MaxSent \in Nat /\ MaxQueue \in Nat \ {0}

VARIABLES
    named,       \* the recogniser identifies its sentences (Bailian does)
    checked,     \* speakers are verified in this session
    cand,        \* UserTurnCoordinator._active
    ids,         \* candidates opened
    gens,        \* _acoustic_generation_counter
    retired,     \* _retired_revisions: sentences of rejected candidates
    hyps,        \* streams of the TranscriptHypothesisReconciler
    speaking,    \* _user_speaking_start_time is set
    suppress,    \* transcripts are dropped until the next speech
    sentence,    \* the sentence the recogniser is at
    upto,        \* words of it in the last hypothesis
    sdk,         \* finals the framework holds for the next completed turn
    queue,       \* completed turns whose hook has not run yet
    gate,        \* the completed-turn hook that runs
    vp,          \* _completed_turn_voiceprint_task and its result
    vtl,         \* _completed_turn_voiceprint_timeline
    tl,          \* pipeline._timeline: the turn it belongs to
    out,         \* the turn whose reply is being given
    sent,        \* the turns committed, in order
    gone,        \* sentences the recogniser withdrew
    closed       \* the session has closed

provider == <<named, checked, sentence, upto>>
voice    == <<vp, vtl>>
turnVars ==
    <<provider, cand, ids, gens, retired, hyps, speaking, suppress, sdk,
      queue, gate, voice, tl, out, sent, gone, closed>>

Sentences == DOMAIN Said

-----------------------------------------------------------------------------
(* Texts. *)

(* _merge_text: the text that continues the left one. *)
Join(left, right) ==
    IF IsPrefix(left, right) THEN right
    ELSE IF IsSuffix(right, left) THEN left
    ELSE left \o right

Within(short, long) ==
    \E i \in 0..Len(long) :
        i + Len(short) <= Len(long) /\ SubSeq(long, i + 1, i + Len(short)) = short

(* transcript_revision_matches *)
Matches(a, b) == a # << >> /\ b # << >> /\ (Within(a, b) \/ Within(b, a))

(* SpeechSegment.selected_text *)
SegText(seg) == IF seg.final # << >> THEN seg.final ELSE seg.text

(* UserTurnCandidate.selected_text *)
Selected(c) ==
    LET text[n \in 0..Len(c.segs)] ==
            IF n = 0 THEN << >>
            ELSE IF c.segs[n].covered THEN text[n - 1]
            ELSE Join(text[n - 1], SegText(c.segs[n]))
    IN  text[Len(c.segs)]

-----------------------------------------------------------------------------
(* Candidates and segments. *)

(* SpeechSegment; prior is the finality of the last revision received      *)
(* before the segment began, which is all the readiness check asks of it.  *)
Segment(gen, prior) ==
    [gen |-> gen, text |-> << >>, final |-> << >>, rev |-> 0,
     covered |-> FALSE, ended |-> FALSE, prior |-> prior]

Candidate(id, timeline, heard, gen, segs) ==
    [id |-> id, state |-> "open", timeline |-> timeline, heard |-> heard,
     segs |-> segs, revs |-> {}, last |-> "none", gen |-> gen]

NoCandidate == [Candidate(0, 0, FALSE, 0, << >>) EXCEPT !.state = "none"]

Terminal(c) == c.state \in {"committed", "rejected"}

CurrentGen(c) == IF c.segs = << >> THEN 0 ELSE c.segs[Len(c.segs)].gen

(* A segment added at the end, and the text the framework put in place of  *)
(* all segments (_merge_framework_transcript, _replace_committed_text).    *)
AddSegment(c, seg) == [c EXCEPT !.segs = Append(@, seg), !.gen = seg.gen]

FrameworkSegment(c, text, prior) ==
    [Segment(IF c.gen = 0 THEN gens + 1 ELSE c.gen, prior)
        EXCEPT !.text = text, !.final = text, !.ended = TRUE]

(* note_speech_stopped *)
Stopped(c) ==
    IF c.state = "open" /\ c.segs # << >>
    THEN [c EXCEPT !.segs[Len(c.segs)].ended = TRUE] ELSE c

(* _select_segment_for_revision: 0 when the revision needs a new segment. *)
SegmentFor(c, rev, text, final) ==
    LET last == Len(c.segs)
        same == {i \in 1..last : rev # 0 /\ c.segs[i].rev = rev}
        like == {i \in 1..(last - 1) : Matches(SegText(c.segs[i]), text)}
        here == IF c.segs[last].final # << >> THEN 0 ELSE last
    IN  IF last = 0 THEN 0
        ELSE IF same # {} THEN CHOOSE i \in same : \A j \in same : j <= i
        ELSE IF rev # 0 /\ c.segs[last].rev # 0 THEN 0
        ELSE IF ~final THEN here
        ELSE IF Matches(SegText(c.segs[last]), text) THEN last
        ELSE IF like # {} THEN CHOOSE i \in like : \A j \in like : j <= i
        ELSE here

(* add_transcript: the candidate and the index of the segment written. *)
WithTranscript(c, rev, text, final) ==
    LET at  == SegmentFor(c, rev, text, final)
        gen == IF c.gen = 0 THEN gens + 1 ELSE c.gen
        c1  == IF at = 0 THEN AddSegment(c, Segment(gen, c.last)) ELSE c
        i   == IF at = 0 THEN Len(c1.segs) ELSE at
        old == c1.segs[i]
        seg == [old EXCEPT !.text = text,
                           !.rev = IF rev = 0 THEN @ ELSE rev,
                           !.final = IF final THEN text ELSE @,
                           !.covered = @ /\ ~final]
    IN  [cand |-> [c1 EXCEPT !.segs[i] = seg,
                             !.revs = IF rev = 0 THEN @ ELSE @ \cup {rev},
                             !.last = IF final THEN "final" ELSE "interim"],
         index |-> i]

-----------------------------------------------------------------------------
(* The reconciler of provider hypotheses. *)

NoStreams == [cand |-> 0, streams |-> << >>]

Stream == [text |-> << >>, interim |-> FALSE, final |-> FALSE, covered |-> FALSE, rev |-> 0]

(* observe: the stream of the segment takes note of the revision. *)
Observed(h, c, i, rev, text, final) ==
    LET key == <<c.segs[i].gen, i>>
        s0  == IF h.cand = c.id THEN h.streams ELSE << >>
        old == IF key \in DOMAIN s0 THEN s0[key] ELSE Stream
        new == [old EXCEPT !.text = text, !.rev = IF rev = 0 THEN @ ELSE rev,
                           !.interim = @ \/ ~final, !.final = @ \/ final]
    IN  [cand |-> c.id,
         streams |-> [k \in DOMAIN s0 \cup {key} |-> IF k = key THEN new ELSE s0[k]]]

(* The streams a final settles along with its own, after an interim of the *)
(* same segment: those of its revision, or of its words where none of the  *)
(* two names another revision.                                             *)
CoveredBy(h, c, i, final) ==
    LET key == <<c.segs[i].gen, i>>
        own == h.streams[key]
        Same(s) == IF s.rev # 0 /\ own.rev # 0 THEN s.rev = own.rev
                   ELSE Matches(s.text, own.text)
    IN  {k \in DOMAIN h.streams :
            /\ final /\ own.interim
            /\ k # key
            /\ ~h.streams[k].final /\ ~h.streams[k].covered
            /\ Same(h.streams[k])}

(* cover_pending_transcript_segments *)
WithCovered(c, i, keys) ==
    [c EXCEPT !.segs = [j \in DOMAIN @ |->
        IF j # i /\ c.segs[j].final = << >> /\ \E k \in keys : k[2] = j
        THEN [c.segs[j] EXCEPT !.covered = TRUE] ELSE c.segs[j]]]

Settled(h, keys) ==
    [h EXCEPT !.streams = [k \in DOMAIN @ |->
        IF k \in keys THEN [h.streams[k] EXCEPT !.covered = TRUE] ELSE h.streams[k]]]

-----------------------------------------------------------------------------
(* The gate, and what reaches it while it waits. *)

NoGate == [pc |-> "off", text |-> << >>, timeline |-> 0, cand |-> 0, gen |-> 0, woken |-> FALSE]

\* Mutant: nobody is told.
NotifiedNot(g) == g

(* _notify_transcript_change *)
Notified(g) == IF g.pc = "settle" THEN [g EXCEPT !.woken = TRUE] ELSE g

(* cancel_completed_voiceprint_turn: a hook that awaits the task is        *)
(* cancelled with it.                                                      *)
VoiceprintDropped(g) == IF g.pc = "voice" THEN NoGate ELSE Notified(g)

\* Mutant: whichever timeline is flushed, none is left.
FlushedAny(timeline) == IF timeline # 0 THEN 0 ELSE tl

(* _flush_turn_timeline *)
Flushed(timeline) == IF timeline # 0 /\ tl = timeline THEN 0 ELSE tl

(* framework_completion_readiness *)
Ready(c, text) ==
    LET cur     == c.segs[Len(c.segs)]
        pending == {i \in DOMAIN c.segs : c.segs[i].final = << >> /\ ~c.segs[i].covered
                                          /\ c.segs[i].text # << >>}
        unheard == /\ c.segs # << >> /\ cur.prior = "final"
                   /\ \A i \in DOMAIN c.segs :
                        c.segs[i].gen = c.gen => SegText(c.segs[i]) = << >> /\ ~c.segs[i].covered
    IN  \/ c.state # "open"
        \/ /\ ~unheard
           /\ \/ text = << >> /\ \A i \in DOMAIN c.segs : c.segs[i].final = << >>
              \/ \A i \in pending : /\ Len(text) >= Len(c.segs[i].text)
                                    /\ Matches(c.segs[i].text, text)

(* One evaluation of the lease (TranscriptSettlementLease.settle). *)
Outcome(g) ==
    IF g.cand # 0 /\ cand.id # g.cand THEN "replaced"
    ELSE IF cand.state = "rejected" THEN "rejected"
    ELSE IF CurrentGen(cand) # g.gen THEN "resumed"
    ELSE IF Ready(cand, g.text) THEN "ready" ELSE "wait"

\* Mutant: the framework's text replaces what is recorded.
WithFrameworkOnly(c, text) ==
    IF text = << >> \/ Within(text, Selected(c)) THEN c
    ELSE [c EXCEPT !.segs = <<FrameworkSegment(c, text, "none")>>]

(* prepare_framework_completed: the candidate with the text merged in. *)
WithFramework(c, text) ==
    LET chosen == Selected(c)
    IN  IF text = << >> THEN c
        ELSE IF chosen # << >> /\ Within(chosen, text)
        THEN [c EXCEPT !.segs = <<FrameworkSegment(c, text, "none")>>]
        ELSE IF Within(text, chosen) THEN c
        ELSE AddSegment(c, FrameworkSegment(c, text, c.last))

Prepared(text, timeline) ==
    IF Terminal(cand) /\ (timeline = 0 \/ cand.timeline \in {0, timeline})
    THEN cand
    ELSE IF Terminal(cand) \/ cand.state = "none"
    THEN WithFramework(Candidate(IF timeline = 0 THEN ids + 1 ELSE timeline, timeline, FALSE, 0, << >>), text)
    ELSE WithFramework([cand EXCEPT !.timeline = IF @ = 0 THEN timeline ELSE @], text)

Canonical(c, text) == IF Selected(c) # << >> THEN Selected(c) ELSE text

\* Mutant: only the same words are a repetition.
RepeatedWords(text, timeline) ==
    cand.state = "committed" /\ text # << >> /\ Selected(cand) = text

(* Whether mark_framework_completed has nothing to do. *)
Repeated(text, timeline) ==
    \/ cand.state = "committed" /\ text # << >> /\ Selected(cand) = text
    \/ Terminal(cand) /\ timeline # 0 /\ cand.timeline = timeline

-----------------------------------------------------------------------------
TurnInit ==
    /\ named \in BOOLEAN
    /\ checked \in BOOLEAN
    /\ cand = NoCandidate
    /\ ids = 0
    /\ gens = 0
    /\ retired = {}
    /\ hyps = NoStreams
    /\ speaking = FALSE
    /\ suppress = FALSE
    /\ sentence = 1
    /\ upto = 0
    /\ sdk = << >>
    /\ queue = << >>
    /\ gate = NoGate
    /\ vp = "none"
    /\ vtl = 0
    /\ tl = 0
    /\ out = 0
    /\ sent = << >>
    /\ gone = {}
    /\ closed = FALSE

(* FullDuplexSpeechLifecycle._start_candidate with UserTurnCoordinator     *)
(* .start_speech: speech continues the open candidate, or opens another    *)
(* and rejects one that had nothing to say.                                *)
CanMerge(inGrace) ==
    /\ cand.state = "open"
    /\ cand.segs # << >>
    /\ \/ ~cand.segs[Len(cand.segs)].ended
       \/ Selected(cand) # << >>
       \/ inGrace

Continued ==
    IF cand.segs[Len(cand.segs)].ended
    THEN AddSegment(cand, Segment(gens + 1, cand.last)) ELSE cand

Opened(heard) ==
    Candidate(ids + 1, ids + 1, heard, gens + 1, <<Segment(gens + 1, "none")>>)

SpeechStarts ==
    /\ ~closed /\ ~speaking /\ gens < MaxGen
    /\ speaking' = TRUE
    /\ suppress' = FALSE
    /\ \E inGrace \in BOOLEAN :
         IF CanMerge(inGrace)
         THEN /\ cand' = Continued
              /\ gens' = Continued.gen
              /\ gate' = IF Continued = cand THEN gate ELSE Notified(gate)
              /\ UNCHANGED <<ids, retired, voice, tl>>
         ELSE /\ cand' = Opened(TRUE)
              /\ gens' = gens + 1
              /\ ids' = ids + 1
              /\ retired' = retired \cup (IF cand.state = "open" THEN cand.revs ELSE {})
              /\ vp' = "none" /\ vtl' = 0
              /\ tl' = ids + 1
              /\ gate' = VoiceprintDropped(gate)
    /\ UNCHANGED <<provider, hyps, sdk, queue, out, sent, gone, closed>>

(* FullDuplexSpeechLifecycle.handle_stopped *)
SpeechStops ==
    /\ ~closed /\ speaking
    /\ speaking' = FALSE
    /\ cand' = Stopped(cand)
    /\ vp' = IF checked THEN "running" ELSE "none"
    /\ vtl' = tl
    /\ UNCHANGED <<provider, ids, gens, retired, hyps, suppress, sdk, queue,
                   gate, tl, out, sent, gone, closed>>

-----------------------------------------------------------------------------
(* Transcripts. *)

(* transcript_starts_new_turn: a later sentence than any of a concluded    *)
(* candidate, or the first one of the session.                             *)
StartsNewTurn(rev) ==
    /\ rev # 0 /\ rev \notin retired
    /\ cand.state = "none" \/ Terminal(cand)
    /\ \A r \in cand.revs : rev > r

(* absorb_committed_transcript_revision *)
Absorbs(rev, text, final) ==
    /\ final /\ ~StartsNewTurn(rev)
    /\ cand.state = "committed"
    /\ Selected(cand) = text

(* FullDuplexTranscriptRecorder.record *)
Records(rev, text, final) ==
    LET new == StartsNewTurn(rev)
        c0  == IF new THEN Opened(FALSE) ELSE cand
        w   == WithTranscript(c0, rev, text, final)
        c1  == IF final /\ ~w.cand.heard /\ ~speaking THEN Stopped(w.cand) ELSE w.cand
        h   == Observed(hyps, c1, w.index, rev, text, final)
        by  == CoveredBy(h, c1, w.index, final)
        g   == IF new THEN VoiceprintDropped(gate) ELSE Notified(gate)
    IN  /\ IF c0.state = "open"
           THEN /\ cand' = WithCovered(c1, w.index, by)
                /\ hyps' = Settled(h, by)
                /\ gate' = g
                /\ gens' = IF new \/ c0.gen = 0 THEN gens + 1 ELSE gens
           ELSE UNCHANGED <<cand, hyps, gate, gens>>
        /\ IF new THEN /\ ids' = ids + 1 /\ tl' = ids + 1
                       /\ vp' = "none" /\ vtl' = 0
                       /\ suppress' = FALSE
                  ELSE UNCHANGED <<ids, tl, voice, suppress>>

(* A transcript as it passes the provider-order check, the framework and   *)
(* the admission gate.                                                     *)
Arrives(rev, text, final) ==
    IF rev # 0 /\ rev \in retired
    THEN UNCHANGED <<cand, hyps, gate, gens, ids, tl, voice, suppress, sdk>>
    ELSE /\ sdk' = IF final THEN sdk \o text ELSE sdk
         /\ IF suppress
            THEN UNCHANGED <<cand, hyps, gate, gens, ids, tl, voice, suppress>>
            ELSE IF Absorbs(rev, text, final)
            THEN /\ cand' = [cand EXCEPT !.segs = <<FrameworkSegment(cand, text, "none")>>]
                 /\ UNCHANGED <<hyps, gate, gens, ids, tl, voice, suppress>>
            ELSE /\ StartsNewTurn(rev) => gens < MaxGen
                 /\ Records(rev, text, final)

Rev == IF named THEN sentence ELSE 0

(* The recogniser hears more of the sentence; one that does not name its   *)
(* sentences may also repeat its last hypothesis.                          *)
Hypothesis ==
    /\ ~closed /\ sentence \in Sentences
    /\ \E n \in (IF named THEN upto + 1 ELSE IF upto = 0 THEN 1 ELSE upto)..Len(Said[sentence]) :
         /\ upto' = n
         /\ Arrives(Rev, SubSeq(Said[sentence], 1, n), FALSE)
    /\ UNCHANGED <<named, checked, sentence, retired, speaking, queue, out, sent, gone, closed>>

Final ==
    /\ ~closed /\ sentence \in Sentences
    /\ sentence' = sentence + 1
    /\ upto' = 0
    /\ Arrives(Rev, Said[sentence], TRUE)
    /\ UNCHANGED <<named, checked, retired, speaking, queue, out, sent, gone, closed>>

(* withdraw_transcript_revision: an empty final takes back what was        *)
(* recorded of its sentence, and goes no further.                          *)
Withdrawn ==
    /\ ~closed /\ sentence \in Sentences /\ upto > 0
    /\ sentence' = sentence + 1
    /\ upto' = 0
    /\ LET mine == {i \in DOMAIN cand.segs : named /\ cand.state = "open"
                                             /\ cand.segs[i].rev = sentence}
       IN  /\ cand' = [cand EXCEPT !.segs = [i \in DOMAIN @ |->
                          IF i \in mine THEN [cand.segs[i] EXCEPT !.text = << >>, !.final = << >>]
                          ELSE cand.segs[i]]]
           /\ gate' = IF mine = {} THEN gate ELSE Notified(gate)
    /\ gone' = IF named THEN gone \cup {sentence} ELSE gone
    /\ UNCHANGED <<named, checked, ids, gens, retired, hyps, speaking, suppress,
                   sdk, queue, voice, tl, out, sent, closed>>

-----------------------------------------------------------------------------
(* Completed turns. *)

(* The framework announces a turn when the user is silent and something    *)
(* has been recognised; its hooks run one after the other.                 *)
EndpointCompletes ==
    /\ ~closed /\ ~speaking
    /\ sdk # << >> \/ (cand.state = "open" /\ Selected(cand) # << >>)
    /\ Len(queue) < MaxQueue /\ Len(sent) < MaxSent
    /\ queue' = Append(queue, sdk)
    /\ sdk' = << >>
    /\ UNCHANGED <<provider, cand, ids, gens, retired, hyps, speaking, suppress,
                   gate, voice, tl, out, sent, gone, closed>>

(* reject_active with what every rejection of an open candidate does. *)
Rejects ==
    /\ cand.state = "open"
    /\ cand' = [cand EXCEPT !.state = "rejected"]
    /\ retired' = retired \cup cand.revs

(* _finish_rejected_turn for a completion of timeline t. *)
RejectsCompletion(t) ==
    /\ IF cand.state = "open" THEN Rejects ELSE UNCHANGED <<cand, retired>>
    /\ tl' = Flushed(t)
    /\ gate' = NoGate

(* _align_framework_completed_turn after the candidate c was prepared. *)
Commits(c, text, t) ==
    LET words == Canonical(c, text)
    IN  IF Repeated(text, t)
        THEN /\ cand' = c /\ UNCHANGED <<retired, sent, out, tl>>
        ELSE IF words = << >>
        THEN /\ cand' = [c EXCEPT !.state = "rejected"]
             /\ retired' = retired \cup c.revs
             /\ tl' = Flushed(t)
             /\ UNCHANGED <<sent, out>>
        ELSE /\ cand' = [c EXCEPT !.state = "committed"]
             /\ sent' = Append(sent, [cand |-> c.id, heard |-> c.heard, words |-> words])
             /\ out' = IF t = 0 THEN out ELSE t
             /\ tl' = IF t # 0 /\ out # t THEN Flushed(out) ELSE tl
             /\ UNCHANGED retired

(* The rest of the hook once the transcripts have settled, with what the   *)
(* interruption owner says of the completion.                              *)
Concludes(g) ==
    LET c == Prepared(g.text, g.timeline)
    IN  /\ gate' = NoGate
        /\ ids'  = IF c.id > ids THEN c.id ELSE ids
        /\ gens' = IF c.gen > gens THEN c.gen ELSE gens
        /\ \/ /\ Commits(c, g.text, g.timeline)
              /\ UNCHANGED <<sdk, voice>>
           \/ /\ cand.state = "open"                  \* blocked: evidence still awaited
              /\ cand' = c
              /\ UNCHANGED <<retired, sent, out, tl, sdk, voice>>
           \/ /\ cand.state = "open"                  \* refused
              /\ cand' = [c EXCEPT !.state = "rejected"]
              /\ retired' = retired \cup c.revs
              /\ sdk' = << >>
              /\ vp' = "none" /\ vtl' = 0
              /\ tl' = Flushed(g.timeline)
              /\ UNCHANGED <<sent, out>>

(* One turn of the settlement loop, at its start and whenever it is woken. *)
Settles(g) ==
    \/ /\ Outcome(g) \in {"replaced", "rejected", "resumed"}
       /\ gate' = NoGate
       /\ UNCHANGED <<cand, ids, gens, retired, sent, out, tl, sdk, voice>>
    \/ /\ Outcome(g) = "ready"
       /\ Concludes(g)
    \/ /\ Outcome(g) = "wait"
       /\ gate' = [g EXCEPT !.woken = FALSE]
       /\ UNCHANGED <<cand, ids, gens, retired, sent, out, tl, sdk, voice>>

(* _route_allowed_framework_completed_turn *)
Routes(text, t) ==
    IF cand.state = "rejected"
    THEN /\ gate' = NoGate
         /\ UNCHANGED <<cand, ids, gens, retired, sent, out, tl, sdk, voice>>
    ELSE Settles([pc |-> "settle", text |-> text, timeline |-> t, cand |-> cand.id,
                  gen |-> CurrentGen(cand), woken |-> FALSE])

(* A voiceprint that says no, or failed. *)
Blocks(t) ==
    /\ RejectsCompletion(t)
    /\ UNCHANGED <<ids, gens, sent, out, sdk>>

(* allows_completed_turn, up to its first await. *)
HookStarts ==
    /\ gate.pc = "off" /\ queue # << >>
    /\ queue' = Tail(queue)
    /\ LET t == IF vtl # 0 THEN vtl ELSE tl
       IN  CASE vp = "running" ->
                    /\ gate' = [pc |-> "voice", text |-> Head(queue), timeline |-> t,
                                cand |-> cand.id, gen |-> CurrentGen(cand), woken |-> FALSE]
                    /\ UNCHANGED <<cand, ids, gens, retired, sent, out, tl, sdk, voice, suppress>>
             [] vp = "blocked" -> Blocks(t) /\ suppress' = TRUE /\ UNCHANGED voice
             [] OTHER -> Routes(Head(queue), t) /\ UNCHANGED suppress
    /\ UNCHANGED <<provider, hyps, speaking, gone, closed>>

(* The voiceprint of the speech that ended: check_scope refuses a          *)
(* candidate or a generation other than the one the hook began with.       *)
VoiceprintAnswers ==
    /\ gate.pc = "voice"
    /\ \/ /\ closed \/ cand.id # gate.cand \/ CurrentGen(cand) # gate.gen
          /\ gate' = NoGate
          /\ UNCHANGED <<cand, ids, gens, retired, sent, out, tl, sdk, voice, suppress>>
       \/ /\ ~closed /\ cand.id = gate.cand /\ CurrentGen(cand) = gate.gen
          /\ \/ /\ Routes(gate.text, gate.timeline)
                /\ UNCHANGED suppress
             \/ /\ Blocks(gate.timeline)
                /\ suppress' = TRUE /\ vp' = "blocked" /\ UNCHANGED vtl
             \/ /\ Blocks(gate.timeline)                   \* the check failed
                /\ UNCHANGED <<suppress, voice>>
    /\ UNCHANGED <<provider, hyps, queue, speaking, gone, closed>>

SettlementWakes ==
    /\ gate.pc = "settle" /\ gate.woken
    /\ Settles(gate)
    /\ UNCHANGED <<provider, hyps, queue, speaking, suppress, gone, closed>>

SettlementExpires ==
    /\ gate.pc = "settle"
    /\ Outcome(gate) = "wait"
    /\ Concludes(gate)
    /\ UNCHANGED <<provider, hyps, queue, speaking, suppress, gone, closed>>

-----------------------------------------------------------------------------
(* The rest of the session. *)

(* handle_transcription_timeout: the user stopped and nothing was          *)
(* recognised.                                                             *)
TranscriptionTimesOut ==
    /\ ~closed /\ ~speaking
    /\ Selected(cand) = << >>
    /\ Rejects
    /\ vp' = "none" /\ vtl' = 0
    /\ gate' = VoiceprintDropped(gate)
    /\ tl' = Flushed(cand.timeline)
    /\ UNCHANGED <<provider, ids, gens, hyps, speaking, suppress, sdk, queue, out, sent, gone, closed>>

(* _on_terminal_interruption_verdict: the interruption of this very        *)
(* generation ended as nothing to answer.                                  *)
InterruptionRefuses ==
    /\ ~closed
    /\ Rejects
    /\ sdk' = << >>
    /\ vp' = "none" /\ vtl' = 0
    /\ gate' = VoiceprintDropped(gate)
    /\ tl' = Flushed(cand.timeline)
    /\ UNCHANGED <<provider, ids, gens, hyps, speaking, suppress, queue, out, sent, gone, closed>>

(* The reply to a committed turn is over: its timeline is flushed. *)
ReplyEnds ==
    /\ out # 0
    /\ out' = 0
    /\ tl' = Flushed(out)
    /\ UNCHANGED <<provider, cand, ids, gens, retired, hyps, speaking, suppress,
                   sdk, queue, gate, voice, sent, gone, closed>>

(* _reject_open_user_turn_on_close *)
SessionCloses ==
    /\ ~closed
    /\ closed' = TRUE
    /\ IF cand.state = "open"
       THEN Rejects /\ tl' = Flushed(cand.timeline) /\ gate' = Notified(gate)
       ELSE UNCHANGED <<cand, retired, tl, gate>>
    /\ UNCHANGED <<provider, ids, gens, hyps, speaking, suppress, sdk, queue,
                   voice, out, sent, gone>>

(* A hook whose predecessor is done starts before anything else happens.   *)
NoHookDue == gate.pc # "off" \/ queue = << >>

TurnNext ==
    \/ HookStarts
    \/ /\ NoHookDue
       /\ \/ SpeechStarts \/ SpeechStops
          \/ Hypothesis \/ Final \/ Withdrawn
          \/ EndpointCompletes \/ VoiceprintAnswers
          \/ SettlementWakes \/ SettlementExpires
          \/ TranscriptionTimesOut \/ InterruptionRefuses \/ ReplyEnds \/ SessionCloses

TurnSpec == TurnInit /\ [][TurnNext]_turnVars

-----------------------------------------------------------------------------
(* Type invariant; an open candidate is the one the pipeline's timeline    *)
(* belongs to, unless it never had one.                                    *)
TurnTypeOK ==
    /\ named \in BOOLEAN /\ checked \in BOOLEAN /\ speaking \in BOOLEAN
    /\ suppress \in BOOLEAN /\ closed \in BOOLEAN
    /\ cand.state \in {"none", "open", "committed", "rejected"}
    /\ cand.state = "open" => tl = cand.timeline
    /\ retired \subseteq Sentences /\ gone \subseteq Sentences
    /\ gate.pc \in {"off", "voice", "settle"}
    /\ vp \in {"none", "running", "blocked"}
    /\ {vtl, tl, out} \subseteq 0..ids

(* A completed turn that waits for transcripts and has not been woken has  *)
(* a reason to wait: whatever could settle it notifies the lease           *)
(* (transcript_settlement.py "driven by coordinator notifications, not     *)
(* polling").                                                              *)
SleepsForAReason ==
    gate.pc = "settle" /\ ~gate.woken => Outcome(gate) = "wait"

(* What became of a candidate stands.                                      *)
TerminalStands ==
    [][Terminal(cand) /\ cand'.id = cand.id => cand'.state = cand.state]_turnVars

(* While a turn's timeline stands it is not committed again, whatever the  *)
(* framework announces of it late                                          *)
(* (test_materially_different_duplicate_completion_on_same_timeline_is_noop).*)
TimedTurnIsCommittedOnce ==
    [][sent' # sent /\ tl # 0 =>
        \A i \in DOMAIN sent : sent[i].cand # sent'[Len(sent')].cand]_turnVars

(* What was decided of a turn stands, however late anything about it comes.  *)
DecidedForGood == TerminalStands /\ TimedTurnIsCommittedOnce

(* No turn whatever is committed twice                                     *)
(* (test_duplicate_framework_completion_is_not_committed_twice).           *)
EveryTurnIsCommittedOnce ==
    \A i, j \in DOMAIN sent : i # j => sent[i].cand # sent[j].cand

(* The first commit of a turn carries every text recorded for it that no   *)
(* final covers, and all that the framework announced.                     *)
NothingLeftOut ==
    [][sent' # sent /\ cand.state = "open" =>
        LET words == sent'[Len(sent')].words
            asked == IF gate.pc = "off" THEN Head(queue) ELSE gate.text
        IN  /\ Within(asked, words)
            /\ \A i \in DOMAIN cand.segs :
                  ~cand.segs[i].covered => Within(SegText(cand.segs[i]), words)]_turnVars

(* A turn that commits carries no words withdrawn by then.                 *)
WithdrawnStaysOut ==
    [][sent' # sent /\ cand.state # "committed" =>
        \A u \in gone : ~Within(SubSeq(Said[u], 1, 1), sent'[Len(sent')].words)]_turnVars

(* A commit carries all the words that stand and none that do not, in      *)
(* whichever order revisions, withdrawals and completions arrive.          *)
CommitIsWhole == NothingLeftOut /\ WithdrawnStaysOut
=============================================================================
