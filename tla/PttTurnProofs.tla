---------------------------- MODULE PttTurnProofs ----------------------------
(***************************************************************************)
(* For any number of holds: the recorder and the running transcription are *)
(* the newest hold's, and only that hold commits.  The argument: a task    *)
(* of the newest hold that is not over finds the controller transcribing,  *)
(* hence the button up (Tasks); a task of an earlier hold finds another    *)
(* generation and leaves everything alone; and the only timeline open is   *)
(* the newest hold's (Timelines), so what a commit flushes is its own.     *)
(***************************************************************************)
EXTENDS PttTurn, TLAPS

\* The tasks of the holds so far, and what the newest one's implies.
Tasks ==
    \A g \in Turns :
        /\ final[g] # "none" => g <= generation
        /\ final[g] = "queued" /\ g = generation => state = "transcribing" /\ asr = 0
        /\ final[g] = "asr" /\ g = generation => state = "transcribing" /\ asr = g
        /\ closed => final[g] \in {"none", "done"}

\* Only the newest hold's timeline is open.
Timelines == \A g \in Turns : turn[g] = "open" => closed \/ g = generation

\* Holds are numbered by the presses.
Numbering ==
    /\ ~closed => generation <= MaxTurns
    /\ state = "recording" => generation \in Turns

PttInv == TypeOK /\ NewestHoldOwns /\ Tasks /\ Timelines /\ Numbering

-----------------------------------------------------------------------------
\* No hold has been opened, and nothing is committed.
LEMMA InitInv == Init => PttInv
<1> SUFFICES ASSUME Init PROVE PttInv
  OBVIOUS
<1>1. TypeOK
  <2>1. 0 \in 0 .. MaxTurns /\ 0 \in 0 .. MaxTurns + 1
    BY TurnsAssumption
  <2> QED
    BY <2>1 DEF Init, TypeOK
<1>2. NewestHoldOwns /\ Tasks /\ Timelines
  BY DEF Init, NewestHoldOwns, HoldIsRecorded, TracksCurrentTurn, Tasks, Timelines
<1>3. Numbering
  BY TurnsAssumption DEF Init, Numbering
<1> QED
  BY <1>1, <1>2, <1>3 DEF PttInv

\* Flushing closes every open timeline and touches no other.
LEMMA FlushedCloses ==
    ASSUME TypeOK, NEW terminal \in {"cancelled", "rejected", "committed"}
    PROVE  /\ Flushed(terminal) \in [Turns -> {"none", "open", "cancelled", "rejected", "committed"}]
           /\ \A g \in Turns : /\ Flushed(terminal)[g] # "open"
                               /\ turn[g] # "open" => Flushed(terminal)[g] = turn[g]
BY DEF TypeOK, Flushed

\* Cancelling leaves the controller, the answers and the tasks well typed.
LEMMA CancelledTyped ==
    ASSUME TypeOK PROVE Cancelled \in [Turns -> Answers \cup {"none", "pending", "cancelled"}]
BY DEF TypeOK, Cancelled

\* Interrupting the agent leaves the replies well typed.
LEMMA InterruptedTyped ==
    ASSUME TypeOK
    PROVE  Interrupted \in [Turns -> {"none", "asked", "playing", "interrupted", "done", "failed"}]
BY DEF TypeOK, Interrupted

-----------------------------------------------------------------------------
\* A press opens the hold after the newest one.
LEMMA PressInv == ASSUME PttInv, NEW g \in Turns, Press(g) PROVE PttInv'
<1>1. /\ generation \in Nat /\ generation' = g /\ g = generation + 1 /\ g <= MaxTurns
      /\ g \in 0 .. MaxTurns + 1 /\ 0 \in 0 .. MaxTurns
  BY TurnsAssumption DEF PttInv, TypeOK, Press, Turns
<1>2. TypeOK'
  <2>1. answer' \in [Turns -> Answers \cup {"none", "pending", "cancelled"}]
    BY CancelledTyped DEF PttInv, Press
  <2>2. reply' \in [Turns -> {"none", "asked", "playing", "interrupted", "done", "failed"}]
    BY InterruptedTyped DEF PttInv, TypeOK, Press
  <2>3. turn' \in [Turns -> {"none", "open", "cancelled", "rejected", "committed"}]
    BY FlushedCloses DEF PttInv, Press
  <2>4. barged' \in [Turns -> BOOLEAN]
    BY Zenon DEF PttInv, TypeOK, Press
  <2> QED
    BY <1>1, <2>1, <2>2, <2>3, <2>4 DEF PttInv, TypeOK, Press
<1>3. NewestHoldOwns'
  BY DEF Press, NewestHoldOwns, HoldIsRecorded, TracksCurrentTurn
<1>4. Tasks'
  BY <1>1 DEF PttInv, TypeOK, Tasks, Press, Turns
<1>5. Timelines'
  BY <1>1, FlushedCloses DEF PttInv, Timelines, Press
<1>6. Numbering'
  BY <1>1 DEF Numbering, Press
<1> QED
  BY <1>2, <1>3, <1>4, <1>5, <1>6 DEF PttInv

\* A release hands the newest hold to its own task.
LEMMA ReleaseInv == ASSUME PttInv, Release PROVE PttInv'
<1>1. /\ generation \in Turns /\ asr = 0 /\ ~closed
      /\ final' = [final EXCEPT ![generation] = "queued"]
  BY DEF PttInv, Numbering, NewestHoldOwns, TracksCurrentTurn, Release
<1>2. TypeOK'
  BY <1>1 DEF PttInv, TypeOK, Release
<1>3. NewestHoldOwns'
  BY <1>1 DEF Release, NewestHoldOwns, HoldIsRecorded, TracksCurrentTurn
<1>4. Tasks'
  BY <1>1 DEF PttInv, TypeOK, Tasks, Release, Turns
<1> QED
  BY <1>2, <1>3, <1>4 DEF PttInv, Timelines, Numbering, Release

\* The newest hold's task finds the button up and the controller transcribing.
LEMMA TaskOfNewest ==
    ASSUME PttInv, final[generation] \in {"queued", "asr"}, generation \in Turns
    PROVE  ~closed /\ ~held /\ state = "transcribing"
BY DEF PttInv, Tasks, NewestHoldOwns, HoldIsRecorded

\* A hold that comes to its end gives the controller back.
LEMMA ConcludesInv ==
    ASSUME PttInv, NEW g \in Turns, g = generation, final[g] \in {"queued", "asr"},
           state' = "idle", asr' = 0, Rejects(g) \/ Commits(g),
           UNCHANGED <<held, generation, barged, active, closed>>,
           answer' \in [Turns -> Answers \cup {"none", "pending", "cancelled"}]
    PROVE  PttInv'
<1>1. ~closed /\ ~held
  BY TaskOfNewest
<1>2. final' = [final EXCEPT ![g] = "done"]
  BY DEF Rejects, Commits
<1>3. /\ turn' \in [Turns -> {"none", "open", "cancelled", "rejected", "committed"}]
      /\ \A h \in Turns : turn'[h] # "open"
  BY FlushedCloses DEF PttInv, Rejects, Commits
<1>4. reply' \in [Turns -> {"none", "asked", "playing", "interrupted", "done", "failed"}]
  BY DEF PttInv, TypeOK, Rejects, Commits
<1>5. TypeOK'
  <2>1. 0 \in 0 .. MaxTurns
    BY TurnsAssumption
  <2>2. final' \in [Turns -> {"none", "queued", "asr", "done"}]
    BY <1>2 DEF PttInv, TypeOK
  <2>3. barged' \in [Turns -> BOOLEAN]
    BY Zenon DEF PttInv, TypeOK
  <2> QED
    BY <1>3, <1>4, <2>1, <2>2, <2>3 DEF PttInv, TypeOK
<1>6. NewestHoldOwns'
  BY <1>1 DEF NewestHoldOwns, HoldIsRecorded, TracksCurrentTurn
<1>7. Tasks'
  BY <1>1, <1>2 DEF PttInv, TypeOK, Tasks
<1>8. Timelines' /\ Numbering'
  BY <1>3 DEF PttInv, Timelines, Numbering
<1> QED
  BY <1>5, <1>6, <1>7, <1>8 DEF PttInv

\* The task of an earlier hold leaves everything alone but itself.
LEMMA SupersededInv ==
    ASSUME PttInv, NEW g \in Turns, g # generation, final[g] # "none", Superseded(g)
    PROVE  PttInv'
BY DEF PttInv, TypeOK, NewestHoldOwns, HoldIsRecorded, TracksCurrentTurn, Tasks, Timelines,
       Numbering, Superseded, control

\* The task of a hold starts to transcribe, or finds itself superseded.
LEMMA StartsInv == ASSUME PttInv, NEW g \in Turns, TranscribeStarts(g) PROVE PttInv'
<1>1. CASE g # generation
  BY <1>1, SupersededInv DEF TranscribeStarts
<1>2. CASE g = generation /\ state' = "idle"
  <2>1. /\ asr' = 0 /\ Rejects(g) /\ answer' = answer
        /\ UNCHANGED <<held, generation, barged, active, closed>>
    BY <1>2, TaskOfNewest DEF TranscribeStarts, PttInv, Tasks
  <2>2. final[g] \in {"queued", "asr"} /\ answer' \in [Turns -> Answers \cup {"none", "pending", "cancelled"}]
    BY <2>1 DEF TranscribeStarts, PttInv, TypeOK
  <2> QED
    BY <1>2, <2>1, <2>2, ConcludesInv
<1>3. CASE g = generation /\ state' # "idle"
  <2>1. /\ asr' = g /\ final' = [final EXCEPT ![g] = "asr"]
        /\ answer' = [answer EXCEPT ![g] = "pending"]
        /\ UNCHANGED <<held, state, generation, barged, turn, reply, active, closed>>
    BY <1>3 DEF TranscribeStarts
  <2>2. ~closed /\ ~held /\ state = "transcribing"
    BY <1>3, TaskOfNewest DEF TranscribeStarts
  <2>3. TypeOK'
    BY <2>1 DEF PttInv, TypeOK, Turns
  <2>4. NewestHoldOwns' /\ Tasks'
    BY <1>3, <2>1, <2>2 DEF PttInv, TypeOK, NewestHoldOwns, HoldIsRecorded, TracksCurrentTurn, Tasks, Turns
  <2> QED
    BY <2>1, <2>3, <2>4 DEF PttInv, Timelines, Numbering
<1> QED
  BY <1>1, <1>2, <1>3

\* The task of a hold takes the answer, and concludes its hold if it is the newest.
LEMMA EndsInv == ASSUME PttInv, NEW g \in Turns, TranscribeEnds(g) PROVE PttInv'
<1>1. CASE g # generation
  BY <1>1, SupersededInv DEF TranscribeEnds, Answered
<1>2. CASE g = generation
  <2>1. /\ state' = "idle" /\ asr' = 0 /\ (Rejects(g) \/ Commits(g)) /\ answer' = answer
        /\ UNCHANGED <<held, generation, barged, active, closed>>
        /\ final[g] \in {"queued", "asr"}
    BY <1>2 DEF TranscribeEnds, Answered
  <2>2. answer' \in [Turns -> Answers \cup {"none", "pending", "cancelled"}]
    BY <2>1 DEF PttInv, TypeOK
  <2> QED
    BY <1>2, <2>1, <2>2, ConcludesInv
<1> QED
  BY <1>1, <1>2

\* The shutdown cancels every task and closes every timeline.
LEMMA ShutdownInv == ASSUME PttInv, Shutdown PROVE PttInv'
<1>1. TypeOK'
  <2>1. answer' \in [Turns -> Answers \cup {"none", "pending", "cancelled"}]
    BY CancelledTyped DEF PttInv, Shutdown
  <2>2. generation' \in 0 .. MaxTurns + 1 /\ 0 \in 0 .. MaxTurns
    BY TurnsAssumption DEF PttInv, TypeOK, Numbering, Shutdown
  <2> QED
    BY <2>1, <2>2 DEF PttInv, TypeOK, Shutdown
<1>2. NewestHoldOwns' /\ Timelines' /\ Numbering'
  BY DEF Shutdown, NewestHoldOwns, HoldIsRecorded, TracksCurrentTurn, Timelines, Numbering
<1>3. Tasks'
  BY DEF PttInv, TypeOK, Tasks, Shutdown, Turns
<1> QED
  BY <1>1, <1>2, <1>3 DEF PttInv

\* The recognizer and the AgentSession touch answers, replies and `active` only.
LEMMA OthersInv ==
    ASSUME PttInv, UNCHANGED <<control, final, turn, closed>>, TypeOK'
    PROVE  PttInv'
BY DEF PttInv, NewestHoldOwns, HoldIsRecorded, TracksCurrentTurn, Tasks, Timelines, Numbering, control

\* Every step, and a stutter, preserves the argument.
LEMMA NextInv == PttInv /\ [Next]_vars => PttInv'
<1> SUFFICES ASSUME PttInv, [Next]_vars PROVE PttInv'
  OBVIOUS
<1>1. CASE Release
  BY <1>1, ReleaseInv
<1>2. CASE GoesQuiet
  BY <1>2, OthersInv DEF GoesQuiet, PttInv, TypeOK, control
<1>3. CASE Shutdown
  BY <1>3, ShutdownInv
<1>4. ASSUME NEW g \in Turns, Press(g) \/ Finalizes(g) PROVE PttInv'
  BY <1>4, PressInv, StartsInv, EndsInv DEF Finalizes
<1>5. ASSUME NEW g \in Turns, NEW what \in Answers, AsrAnswers(g, what) PROVE PttInv'
  <2>1. TypeOK'
    BY <1>5 DEF PttInv, TypeOK, AsrAnswers, control
  <2> QED
    BY <1>5, <2>1, OthersInv DEF AsrAnswers
<1>6. ASSUME NEW g \in Turns, ReplyStarts(g) \/ ReplyEnds(g) PROVE PttInv'
  <2>1. TypeOK'
    BY <1>6 DEF PttInv, TypeOK, ReplyStarts, ReplyEnds, control
  <2> QED
    BY <1>6, <2>1, OthersInv DEF ReplyStarts, ReplyEnds
<1>7. CASE UNCHANGED vars
  <2>1. TypeOK'
    BY <1>7 DEF PttInv, TypeOK, vars, control
  <2> QED
    BY <1>7, <2>1, OthersInv DEF vars
<1> QED
  BY <1>1, <1>2, <1>3, <1>4, <1>5, <1>6, <1>7 DEF Next

-----------------------------------------------------------------------------
\* Whatever late answers, errors and cancellations come to, the button's hold is
\* recorded and the transcription that runs is the newest hold's, for any number
\* of holds.
THEOREM PttNewestHoldOwns == Spec => []NewestHoldOwns
<1>1. PttInv => NewestHoldOwns
  BY DEF PttInv
<1> QED
  BY <1>1, InitInv, NextInv, PTL DEF Spec

\* Only the newest hold is committed or answered, and not while the button is
\* down: a step that commits is the end of the newest hold's own task.
LEMMA CommitIsNewest ==
    ASSUME PttInv, [Next]_vars, NEW g \in Turns,
           \/ turn'[g] # turn[g] /\ turn'[g] = "committed"
           \/ reply'[g] # reply[g] /\ reply'[g] = "asked"
    PROVE  g = generation /\ ~held
<1>1. PICK h \in Turns : TranscribeEnds(h)
  <2>1. ~(UNCHANGED vars) /\ ~Release /\ ~GoesQuiet /\ ~Shutdown
    BY DEF vars, Release, GoesQuiet, Shutdown
  <2>2. ASSUME NEW h \in Turns, Press(h) PROVE FALSE
    BY <2>2, FlushedCloses DEF Press, PttInv, TypeOK, Flushed, Interrupted
  <2>3. ASSUME NEW h \in Turns, TranscribeStarts(h) PROVE FALSE
    BY <2>3 DEF TranscribeStarts, Superseded, Rejects, PttInv, TypeOK, Flushed
  <2>4. ASSUME NEW h \in Turns, NEW what \in Answers, AsrAnswers(h, what) PROVE FALSE
    BY <2>4 DEF AsrAnswers
  <2>5. ASSUME NEW h \in Turns, ReplyStarts(h) \/ ReplyEnds(h) PROVE FALSE
    BY <2>5 DEF ReplyStarts, ReplyEnds, PttInv, TypeOK
  <2> QED
    BY <2>1, <2>2, <2>3, <2>4, <2>5 DEF Next, Finalizes
<1>2. h = generation /\ Commits(h)
  BY <1>1 DEF TranscribeEnds, Superseded, Rejects, PttInv, TypeOK, Flushed
<1>3. ~closed /\ ~held
  BY <1>1, <1>2, TaskOfNewest DEF TranscribeEnds, Answered
<1>4. turn[g] = "open" \/ g = h
  BY <1>2 DEF Commits, PttInv, TypeOK, Flushed
<1> QED
  BY <1>2, <1>3, <1>4 DEF PttInv, Timelines

\* A superseded result commits nothing and triggers no reply, for any number of
\* holds.
THEOREM PttOnlyNewestCommits == Spec => OnlyNewestCommits
<1>1. PttInv /\ [Next]_vars =>
        [\A g \in Turns :
          (turn'[g] # turn[g] /\ turn'[g] = "committed") \/ (reply'[g] # reply[g] /\ reply'[g] = "asked")
              => g = generation /\ ~held]_vars
  BY CommitIsNewest
<1> QED
  BY <1>1, InitInv, NextInv, PTL DEF Spec, OnlyNewestCommits
=============================================================================
