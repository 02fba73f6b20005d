-------------------------- MODULE InterruptionProofs --------------------------
(***************************************************************************)
(* The interruption owner judges a generation once, lets no refused words  *)
(* go on to the model, and leaves no suspended output without a deadline,  *)
(* for any budgets, and any number of generations and of deadlines asleep. *)
(*                                                                         *)
(* Every operation is an effect on the candidate, the turn and the output  *)
(* it begins with (Effect): the output is left, resumed or cancelled, and  *)
(* the candidate is left or judged.  Generations only grow (KnownKeys), so *)
(* the key of a new stretch of speech has no verdict.  A verdict that does *)
(* not dispose of its open turn has claimed the stop of the playback, or   *)
(* ended the turn (JudgedHasClaimed), and while that claim stands the      *)
(* output stays cancelled (ClaimStands): so no second candidate begins in  *)
(* a judged stretch, and a cancellation is ignored as a duplicate only     *)
(* where nothing is suspended.  A reply that begins in a turn with a claim *)
(* breaks the last step, so the two theorems that rest on it are about     *)
(* agents where nothing is typed (~Typed).                                 *)
(***************************************************************************)
EXTENDS Interruption, TLAPS

Key == [turn : Nat, gen : Nat]
Age == Nat \cup {NoTime}
Timer == {Off} \cup [len : Nat, left : Nat]
Outputs == {"normal", "suspended", "cancelled"}
Texts == {"none", "artifact", "interim", "final"}
Acts == {"cancel", "rollback", "hold", "resume"}
Intents == {"uncertain", "reply", "stop", "noise"}
States == {"waiting", "postwait", "resumed", "cancelled", "collecting", "false"}
Asks == {"none", "asked", "reply", "stop", "noise", "unsure"}
TurnStates == {"none", "open", "committed", "rejected"}
Candidates ==
    [live : BOOLEAN, key : Key, age : Nat, stop : Age, awaiting : BOOLEAN, text : Texts,
     last : Acts \cup {"none"}, intent : Intents \cup {"none"}, vad : BOOLEAN, state : States,
     ask : Asks]
Turns == [id : Nat, gen : Nat, state : TurnStates, ended : BOOLEAN, text : BOOLEAN, age : Nat]
Decided == [act : Acts, intent : Intents, kind : {"plain", "recheck", "artifact"}]

\* What an operation makes of the output, its deadlines and the turn.
Made ==
    [out : Outputs, timers : [TimerIds -> Timer], armed : {0} \cup TimerIds,
     turn : Turns, recheck : BOOLEAN]

\* What the owner, its output and its turn are made of.
StateOK ==
    /\ Now \in Made /\ cand \in Candidates
    /\ claimed \in BOOLEAN /\ speaking \in BOOLEAN /\ heard \in BOOLEAN /\ since \in Nat

\* Generations only grow: no verdict, and no candidate, is of a later one than the turn's.
KnownKeys ==
    /\ \A k \in DOMAIN verdicts : k \in Key /\ k.gen <= turn.gen
    /\ cand.live => cand.key.gen <= turn.gen

\* An open turn whose stretch of speech has been judged, and that no VAD stop has ended
\* yet, has stopped the playback.
JudgedHasClaimed ==
    turn.state = "open" /\ ~turn.ended /\ ~speaking /\ KeyOf(turn) \in DOMAIN verdicts => claimed

OwnerInv ==
    /\ StateOK
    /\ KnownKeys
    /\ JudgedHasClaimed
    /\ RefusedIsDisposedOf

\* A turn that has stopped the playback keeps it stopped while it is open, and nothing is
\* suspended for it again.
ClaimStands ==
    /\ output = "suspended" => ~claimed
    /\ claimed /\ turn.state = "open" => output = "cancelled"

\* The candidate there is has not been judged.
LiveIsUnjudged == cand.live => cand.key \notin DOMAIN verdicts

UntypedInv ==
    /\ SuspensionIsWatched
    /\ ClaimStands
    /\ LiveIsUnjudged

-----------------------------------------------------------------------------
\* A deadline of the output, if it is suspended, sleeps.
Watched(s) == s.out = "suspended" => s.armed # 0 /\ s.timers[s.armed] # Off

\* What an operation does to the candidate c, the verdicts and the turn t: it leaves them, or
\* the candidate is judged, and its turn disposed of with it.  A verdict that spares the
\* turn is of a turn that has claimed its stop, has been ended, or is no longer open.
Judged(c, t) ==
    \/ verdicts' = verdicts /\ turn' = t /\ cand'.live = c.live /\ cand'.key = c.key
    \/ /\ c.live /\ ~cand'.live
       /\ \E v : /\ verdicts' = Recorded(c.key, v) /\ turn' = Disposed(t, c.key, v)
                 /\ v.llm => claimed' \/ t.ended \/ t.state # "open"

\* What an operation does to the output: it cancels it, or ends its suspension, or
\* leaves it; and a turn's claim is made when the output is cancelled.
Played(s) ==
    /\ \/ output' = s.out /\ claimed' = claimed
       \/ output' = "cancelled" /\ (claimed => claimed')
       \/ output' = "normal" /\ s.out = "suspended" /\ claimed' = claimed

Effect(c, s) ==
    /\ Now' \in Made /\ cand' \in Candidates /\ claimed' \in BOOLEAN
    /\ Judged(c, s.turn) /\ Played(s)

-----------------------------------------------------------------------------
\* A decision is noted in the candidate, which stays of its generation.
LEMMA NotedOK ==
    ASSUME NEW c \in Candidates, NEW d \in Decided, NEW vad \in BOOLEAN
    PROVE  /\ NoteDecision(c, d, vad) \in Candidates
           /\ NoteDecision(c, d, vad).live = c.live /\ NoteDecision(c, d, vad).key = c.key
           /\ NoteDecision(c, d, vad).age = c.age /\ NoteDecision(c, d, vad).stop = c.stop
<1>1. CASE ~c.live
  BY <1>1 DEF NoteDecision
<1>2. CASE c.live
  <2> DEFINE text == IF d.kind = "artifact" THEN "artifact"
                     ELSE IF c.text = "artifact" \/ (c.text = "none" /\ heard) THEN "interim" ELSE c.text
             state == CASE d.act = "cancel"   -> "cancelled"
                        [] d.act = "rollback" -> "false"
                        [] d.act = "resume"   -> "resumed"
                        [] OTHER -> IF c.state = "resumed" THEN c.state
                                    ELSE IF c.awaiting THEN "postwait" ELSE "waiting"
             seen == vad /\ d.act = "cancel"
  <2>1. /\ text \in Texts /\ state \in States /\ seen \in BOOLEAN
        /\ d.act \in Acts /\ d.intent \in Intents
    <3>1. c.text \in Texts /\ c.state \in States
      BY DEF Candidates
    <3>2. d.intent \in Intents /\ d.act \in Acts
      BY DEF Decided
    <3>3. text \in Texts
      BY <3>1 DEF Texts
    <3>4. state \in States
      BY <3>1, <3>2 DEF States, Acts
    <3> QED
      BY <3>2, <3>3, <3>4
  <2>2. NoteDecision(c, d, vad) = [c EXCEPT !.last = d.act, !.intent = d.intent, !.vad = seen,
                                            !.text = text, !.state = state]
    BY <1>2 DEF NoteDecision
  <2> HIDE DEF text, state, seen
  <2> QED
    BY <2>1, <2>2 DEF Candidates
<1> QED
  BY <1>1, <1>2

\* Disarming touches neither the mode of the output nor the turn.
LEMMA DisarmedOK ==
    ASSUME NEW s \in Made
    PROVE  /\ Disarm(s) \in Made
           /\ Disarm(s).out = s.out /\ Disarm(s).turn = s.turn /\ Disarm(s).recheck = s.recheck
<1>1. CASE s.armed = 0
  BY <1>1 DEF Disarm
<1>2. CASE s.armed # 0
  <2> DEFINE ts == [s.timers EXCEPT ![s.armed] = Off]
  <2>1. ts \in [TimerIds -> Timer]
    BY <1>2 DEF Made, Timer
  <2>2. Disarm(s) = [s EXCEPT !.timers = ts, !.armed = 0]
    BY <1>2 DEF Disarm
  <2> HIDE DEF ts
  <2> QED
    BY <2>1, <2>2 DEF Made
<1> QED
  BY <1>1, <1>2

\* A deadline that is put to sleep watches the output.
LEMMA SleepingOK ==
    ASSUME NEW s \in Made, NEW i \in TimerIds, NEW len \in Nat
    PROVE  /\ Sleeping(s, i, len) \in Made
           /\ Sleeping(s, i, len).out = s.out /\ Sleeping(s, i, len).turn = s.turn
           /\ Watched(Sleeping(s, i, len))
<1> DEFINE t == [len |-> len, left |-> len]
           ts == [s.timers EXCEPT ![i] = t]
<1>1. t \in Timer /\ t # Off
  BY DEF Timer, Off, NoTime
<1>2. ts \in [TimerIds -> Timer] /\ ts[i] = t
  BY <1>1 DEF Made
<1>3. Sleeping(s, i, len) = [s EXCEPT !.timers = ts, !.armed = i]
  BY DEF Sleeping
<1>4. i # 0
  BY DEF TimerIds
<1> HIDE DEF t, ts
<1> QED
  BY <1>1, <1>2, <1>3, <1>4 DEF Made, Watched

\* What an operation has made is what there is after it.
LEMMA PutOK ==
    ASSUME NEW s \in Made, Put(s)
    PROVE  /\ Now' \in Made
           /\ output' = s.out /\ timers' = s.timers /\ armed' = s.armed /\ turn' = s.turn
           /\ recheck' = s.recheck
           /\ Watched(Now)' <=> Watched(s)
BY DEF Put, Made, Now, Watched

\* A verdict disposes of the open turn of its own key, unless it lets it go on to the model.
LEMMA DisposedOK ==
    ASSUME NEW t \in Turns, NEW key, NEW v
    PROVE  /\ Disposed(t, key, v) \in Turns
           /\ Disposed(t, key, v).id = t.id /\ Disposed(t, key, v).gen = t.gen
           /\ Disposed(t, key, v).ended = t.ended
           /\ Disposed(t, key, v).state \in {t.state, "rejected"}
           /\ KeyOf(t) # key => Disposed(t, key, v) = t
           /\ KeyOf(t) = key /\ t.state = "open" => v.llm \/ Disposed(t, key, v).state = "rejected"
<1>1. "rejected" \in TurnStates
  BY DEF TurnStates
<1> QED
  BY <1>1 DEF Turns, Disposed

\* No candidate is live after a judgement.
LEMMA NoCandidateOK ==
    NoCandidate \in Candidates /\ ~NoCandidate.live
BY DEF NoCandidate, NewCandidate, NoKey, Candidates, Key, Age, NoTime, Texts, Acts, Intents,
       States, Asks

\* A new candidate is live, and of the key it is made for.
LEMMA NewCandidateOK ==
    ASSUME NEW key \in Key
    PROVE  NewCandidate(key) \in Candidates /\ NewCandidate(key).live /\ NewCandidate(key).key = key
BY DEF NewCandidate, Candidates, Key, Age, NoTime, Texts, Acts, Intents, States, Asks

\* Keeping the candidate is no judgement.
LEMMA KeepEffect ==
    ASSUME NEW s \in Made, NEW c \in Candidates, Keep(c, s)
    PROVE  /\ Now' \in Made /\ cand' \in Candidates
           /\ Judged(c, s.turn) /\ output' = s.out /\ (Watched(Now)' <=> Watched(s))
BY PutOK DEF Keep, Judged

\* The end of a candidate is a judgement of it.  A verdict lets the turn go on only if it
\* cancels.
LEMMA ResolveEffect ==
    ASSUME NEW s \in Made, NEW c \in Candidates, NEW act, NEW why, Resolve(c, act, why, s),
           act = "cancel" => claimed' \/ s.turn.ended \/ s.turn.state # "open"
    PROVE  /\ Now' \in Made /\ cand' \in Candidates
           /\ Judged(c, s.turn) /\ output' = s.out /\ (Watched(Now)' <=> Watched(s))
<1>1. CASE ~c.live
  BY <1>1, KeepEffect DEF Resolve
<1>2. CASE c.live
  <2> DEFINE v == Verdict(c, act, why)
             t == Disposed(s.turn, c.key, v)
             r == [s EXCEPT !.turn = t]
  <2>1. verdicts' = Recorded(c.key, v) /\ cand' = NoCandidate /\ Put(r)
    BY <1>2 DEF Resolve
  <2>2. v.llm => act = "cancel"
    BY DEF Verdict
  <2> HIDE DEF v
  <2>3. t \in Turns
    BY DisposedOK DEF Made
  <2> HIDE DEF t
  <2>4. r \in Made /\ r.out = s.out /\ r.turn = t /\ r.timers = s.timers /\ r.armed = s.armed
    BY <2>3 DEF Made
  <2> HIDE DEF r
  <2>5. /\ Now' \in Made /\ output' = s.out /\ turn' = t
        /\ (Watched(Now)' <=> Watched(r)) /\ (Watched(r) <=> Watched(s))
    BY <2>1, <2>4, PutOK DEF Watched
  <2>6. turn' = Disposed(s.turn, c.key, v)
    BY <2>5 DEF t
  <2> QED
    BY <1>2, <2>1, <2>2, <2>5, <2>6, NoCandidateOK DEF Judged
<1> QED
  BY <1>1, <1>2

-----------------------------------------------------------------------------
\* The effects of a decision

\* A cancelled output is cancelled, in the same turn.
LEMMA OutputCancelledOK ==
    ASSUME NEW s \in Made
    PROVE  /\ OutputCancelled(s) \in Made /\ OutputCancelled(s).out = "cancelled"
           /\ OutputCancelled(s).turn = s.turn
<1> DEFINE r == Disarm(s)
<1>1. r \in Made /\ r.turn = s.turn
  BY DisarmedOK
<1>2. OutputCancelled(s) = [r EXCEPT !.out = "cancelled", !.recheck = FALSE]
  BY DEF OutputCancelled
<1> HIDE DEF r
<1> QED
  BY <1>1, <1>2 DEF Made, Outputs

\* A resumption ends a suspension, and nothing else.
LEMMA ResumedOK ==
    ASSUME NEW s \in Made
    PROVE  /\ Resumed(s) \in Made /\ Resumed(s).turn = s.turn
           /\ Resumed(s).out = IF s.out = "suspended" THEN "normal" ELSE s.out
<1> DEFINE r == Disarm(s)
           o == IF r.out = "suspended" THEN "normal" ELSE r.out
<1>1. r \in Made /\ r.turn = s.turn /\ r.out = s.out
  BY DisarmedOK
<1>2. Resumed(s) = [r EXCEPT !.out = o]
  BY DEF Resumed
<1>3. o \in Outputs
  BY <1>1 DEF Made, Outputs
<1>4. o = IF s.out = "suspended" THEN "normal" ELSE s.out
  BY <1>1
<1> HIDE DEF r, o
<1> QED
  BY <1>1, <1>2, <1>3, <1>4 DEF Made

\* A candidate that collects stays of its generation.
LEMMA MarkedOK ==
    ASSUME NEW c \in Candidates
    PROVE  /\ [c EXCEPT !.state = "collecting"] \in Candidates
           /\ [c EXCEPT !.state = "collecting"].live = c.live
           /\ [c EXCEPT !.state = "collecting"].key = c.key
BY DEF Candidates, States

\* A cancellation ends a suspension, unless its turn has claimed a stop before.
LEMMA CancelEffect ==
    ASSUME NEW s \in Made, NEW c \in Candidates, claimed \in BOOLEAN, CancelAndInterrupt(c, s)
    PROVE  Effect(c, s) /\ (~Watched(Now)' => claimed)
<1>1. CASE s.out = "cancelled" /\ ~replying
  <2>1. Keep(c, s) /\ claimed' = claimed
    BY <1>1 DEF CancelAndInterrupt
  <2>2. Watched(s)
    BY <1>1 DEF Watched
  <2> QED
    BY <2>1, <2>2, KeepEffect DEF Effect, Played
<1>2. CASE ~(s.out = "cancelled" /\ ~replying) /\ AlreadyClaimed(s)
  <2> DEFINE r == [s EXCEPT !.recheck = FALSE]
  <2>1. r \in Made /\ r.out = s.out /\ r.turn = s.turn
    BY DEF Made
  <2>2. /\ Keep(c, r) \/ Resolve(c, "cancel", "duplicate", r)
        /\ claimed' = claimed
    BY <1>2 DEF CancelAndInterrupt
  <2>3. claimed
    BY <1>2 DEF AlreadyClaimed
  <2> HIDE DEF r
  <2>4. /\ Now' \in Made /\ cand' \in Candidates
        /\ Judged(c, r.turn) /\ output' = r.out
    BY <2>1, <2>2, <2>3, KeepEffect, ResolveEffect
  <2> QED
    BY <2>1, <2>2, <2>3, <2>4 DEF Effect, Played
<1>3. CASE ~(s.out = "cancelled" /\ ~replying) /\ ~AlreadyClaimed(s)
  <2> DEFINE r == OutputCancelled(s)
  <2>1. r \in Made /\ r.out = "cancelled" /\ r.turn = s.turn
    BY OutputCancelledOK
  <2>2. /\ MarkCollecting(c, r) \/ Resolve(c, "cancel", "eot_cancel", r)
        /\ claimed' = TRUE
    BY <1>3 DEF CancelAndInterrupt
  <2> HIDE DEF r
  <2>3. /\ Now' \in Made /\ cand' \in Candidates
        /\ Judged(c, r.turn) /\ output' = r.out /\ (Watched(Now)' <=> Watched(r))
    <3>1. CASE Resolve(c, "cancel", "eot_cancel", r)
      BY <2>1, <2>2, <3>1, ResolveEffect
    <3>2. CASE MarkCollecting(c, r)
      <4> DEFINE m == [c EXCEPT !.state = "collecting"]
      <4>1. Keep(m, r) /\ m \in Candidates /\ m.live = c.live /\ m.key = c.key
        BY <3>2, MarkedOK DEF MarkCollecting
      <4> HIDE DEF m
      <4>2. Judged(m, r.turn) => Judged(c, r.turn)
        BY <4>1 DEF Judged
      <4> QED
        BY <2>1, <4>1, <4>2, KeepEffect
    <3> QED
      BY <2>2, <3>1, <3>2
  <2>4. Watched(r)
    BY <2>1 DEF Watched
  <2> QED
    BY <2>1, <2>2, <2>3, <2>4 DEF Effect, Played
<1> QED
  BY <1>1, <1>2, <1>3

\* A rollback ends a suspension.
LEMMA RollbackEffect ==
    ASSUME NEW s \in Made, NEW c \in Candidates, claimed \in BOOLEAN, NEW why,
           RollbackIfSuspended(c, why, s)
    PROVE  Effect(c, s) /\ Watched(Now)'
<1>1. CASE s.out = "suspended"
  <2> DEFINE d == Disarm(s)
             r == [d EXCEPT !.out = "normal", !.recheck = FALSE]
  <2>1. d \in Made /\ d.turn = s.turn
    BY DisarmedOK
  <2>2. Resolve(c, "rollback", why, r) /\ claimed' = claimed
    BY <1>1 DEF RollbackIfSuspended
  <2> HIDE DEF d
  <2>3. r \in Made /\ r.out = "normal" /\ r.turn = s.turn
    BY <2>1 DEF Made, Outputs
  <2> HIDE DEF r
  <2>4. Watched(r)
    BY <2>3 DEF Watched
  <2> QED
    BY <1>1, <2>2, <2>3, <2>4, ResolveEffect DEF Effect, Played
<1>2. CASE s.out # "suspended"
  <2> DEFINE r == IF c.live THEN Disarm(s) ELSE s
  <2>1. r \in Made /\ r.out = s.out /\ r.turn = s.turn
    BY DisarmedOK
  <2>2. Resolve(c, "rollback", why, r) /\ claimed' = claimed
    BY <1>2 DEF RollbackIfSuspended
  <2> HIDE DEF r
  <2>3. Watched(r)
    BY <1>2, <2>1 DEF Watched
  <2> QED
    BY <2>1, <2>2, <2>3, ResolveEffect DEF Effect, Played
<1> QED
  BY <1>1, <1>2

\* A hold leaves the output, and its deadline, as they are.
LEMMA HoldEffect ==
    ASSUME NEW s \in Made, NEW c \in Candidates, claimed \in BOOLEAN, NEW d, HandleHold(c, d, s)
    PROVE  Effect(c, s) /\ (Watched(s) => Watched(Now)')
<1> DEFINE b == s.recheck \/ (d.kind = "recheck" /\ (c.live \/ s.out = "suspended"))
           r == [s EXCEPT !.recheck = b]
<1>1. Keep(c, r) /\ claimed' = claimed
  BY DEF HandleHold
<1>2. b \in BOOLEAN
  OBVIOUS
<1> HIDE DEF b
<1>3. /\ r \in Made /\ r.out = s.out /\ r.turn = s.turn /\ r.timers = s.timers
      /\ r.armed = s.armed
  BY <1>2 DEF Made
<1> HIDE DEF r
<1>4. Watched(r) <=> Watched(s)
  BY <1>3 DEF Watched
<1> QED
  BY <1>1, <1>3, <1>4, KeepEffect DEF Effect, Played

\* A decision that is applied is noted first; one that does not hold the output ends its
\* suspension, unless its turn has claimed a stop before.
LEMMA ApplyEffect ==
    ASSUME NEW s \in Made, NEW c \in Candidates, claimed \in BOOLEAN, NEW d \in Decided, NEW why,
           NEW vad \in BOOLEAN, Apply(d, why, vad, c, s)
    PROVE  /\ Effect(c, s)
           /\ Watched(s) \/ d.act # "hold" => Watched(Now)' \/ claimed
<1> DEFINE n == NoteDecision(c, d, vad)
<1>1. n \in Candidates /\ n.live = c.live /\ n.key = c.key
  BY NotedOK
<1>2. \/ d.act = "cancel"   /\ CancelAndInterrupt(n, s)
      \/ d.act = "rollback" /\ RollbackIfSuspended(n, why, s)
      \/ d.act = "hold"     /\ HandleHold(n, d, s)
  BY DEF Apply
<1> HIDE DEF n
<1>3. Effect(n, s) => Effect(c, s)
  BY <1>1 DEF Effect, Judged
<1> QED
  BY <1>1, <1>2, <1>3, CancelEffect, RollbackEffect, HoldEffect

-----------------------------------------------------------------------------
\* The deadline

\* What is left of a budget is a time.
LEMMA LeftOK ==
    ASSUME NEW budget \in Nat, NEW age \in Age
    PROVE  Left(budget, age) \in Nat
BY DEF Left, Age, NoTime

\* What the owner says is left to wait is a time.
LEMMA RemainingOK ==
    ASSUME StateOK
    PROVE  HoldRemaining \in Age /\ PlaybackHoldRemaining \in Age
<1>1. cand.age \in Age /\ cand.stop \in Age
  BY DEF StateOK, Candidates, Age
<1>2. Evidence \in Nat /\ NoEvidence \in Nat /\ Grace \in Nat
  BY InterruptionAssumption
<1>3. /\ Left(Evidence, cand.age) \in Nat /\ Left(Evidence, cand.stop) \in Nat
      /\ Left(NoEvidence, cand.stop) \in Nat /\ Left(Grace, cand.stop) \in Nat
  BY <1>1, <1>2, LeftOK
<1>4. HoldRemaining \in Age
  BY <1>3 DEF HoldRemaining, Age
<1>5. PlaybackHoldRemaining \in Age
  BY <1>3 DEF PlaybackHoldRemaining, Age
<1> QED
  BY <1>4, <1>5

\* The decisions the code builds are decisions.
LEMMA DecisionsOK ==
    /\ Hold \in Decided /\ Hold.act = "hold" /\ Rollback \in Decided /\ Rollback.act = "rollback"
    /\ Cancel \in Decided /\ Cancel.act = "cancel"
    /\ \A act \in Acts, intent \in Intents, kind \in {"plain", "recheck", "artifact"} :
          /\ Decision(act, intent, kind) \in Decided
          /\ Decision(act, intent, kind).act = act
BY DEF Hold, Rollback, Cancel, Decision, Decided, Acts, Intents

\* A resumption ends a suspension; what its caller arms sleeps.
LEMMA ResumeEffect ==
    ASSUME NEW s \in Made, NEW r \in Made, NEW c \in Candidates, claimed \in BOOLEAN,
           NEW d \in Decided, NEW vad \in BOOLEAN,
           ResumePendingOutput(NoteDecision(c, d, vad), r),
           r.turn = s.turn, r.out = IF s.out = "suspended" THEN "normal" ELSE s.out
    PROVE  Effect(c, s) /\ Watched(Now)'
<1> DEFINE n == NoteDecision(c, d, vad)
<1>1. n \in Candidates /\ n.live = c.live /\ n.key = c.key
  BY NotedOK
<1>2. Keep(n, r) /\ claimed' = claimed
  BY DEF ResumePendingOutput
<1> HIDE DEF n
<1>3. r.out # "suspended"
  OBVIOUS
<1>4. Watched(r)
  BY <1>3 DEF Watched
<1>5. Now' \in Made /\ cand' \in Candidates /\ Judged(n, r.turn) /\ output' = r.out /\ Watched(Now)'
  BY <1>1, <1>2, <1>4, KeepEffect
<1>6. Judged(c, s.turn)
  BY <1>1, <1>5 DEF Judged
<1> QED
  BY <1>2, <1>5, <1>6 DEF Effect, Played

\* The nearer of two times is a time.
LEMMA LeastOK ==
    ASSUME NEW a \in Nat, NEW b \in Nat
    PROVE  Least(a, b) \in Nat
BY DEF Least

\* The deadline that finds a hold ends the suspension, or arms the next deadline.
LEMMA RearmEffect ==
    ASSUME StateOK, NEW s \in Made, NEW len \in Nat, NEW slot \in TimerIds,
           ResolveHoldOrRearm(len, slot, s)
    PROVE  Effect(cand, s) /\ (Watched(Now)' \/ claimed)
<1> DEFINE own == HoldRemaining
           play == IF s.out = "suspended" THEN PlaybackHoldRemaining ELSE NoTime
           budget == IF own # NoTime THEN own ELSE Left(BufferMax, since)
           next == IF play = NoTime THEN budget ELSE Least(budget, play)
           resume == Decision("resume", "uncertain", "plain")
<1>1. cand \in Candidates /\ claimed \in BOOLEAN /\ speaking \in BOOLEAN
  BY DEF StateOK
<1>2. \/ /\ ResumePendingOutput(NoteDecision(cand, resume, TRUE), Resumed(s))
      \/ Apply(Rollback, "timeout", speaking, cand, s)
      \/ ResumePendingOutput(NoteDecision(cand, resume, speaking),
                             IF speaking THEN Resumed(s) ELSE Sleeping(Resumed(s), slot, len))
      \/ Apply(Hold, "timeout", speaking, cand, Sleeping(s, slot, Least(len, next)))
  BY DEF ResolveHoldOrRearm
<1>3. resume \in Decided
  BY DecisionsOK DEF Acts, Intents
<1>4. next \in Nat
  <2>1. own \in Age /\ play \in Age
    BY RemainingOK DEF Age
  <2>2. Left(BufferMax, since) \in Nat
    BY LeftOK, InterruptionAssumption DEF StateOK, Age
  <2>3. budget \in Nat
    BY <2>1, <2>2 DEF Age
  <2> HIDE DEF own, budget
  <2> QED
    BY <2>1, <2>3, LeastOK DEF Age
<1>5. Resumed(s) \in Made
  BY ResumedOK
<1> HIDE DEF next, resume
<1>6. CASE ResumePendingOutput(NoteDecision(cand, resume, TRUE), Resumed(s))
  BY <1>1, <1>3, <1>5, <1>6, ResumeEffect, ResumedOK
<1>7. CASE Apply(Rollback, "timeout", speaking, cand, s)
  BY <1>1, <1>7, ApplyEffect, DecisionsOK
<1>8. CASE ResumePendingOutput(NoteDecision(cand, resume, speaking),
                               IF speaking THEN Resumed(s) ELSE Sleeping(Resumed(s), slot, len))
  <2> DEFINE r == IF speaking THEN Resumed(s) ELSE Sleeping(Resumed(s), slot, len)
  <2>1. r \in Made /\ r.turn = s.turn /\ r.out = IF s.out = "suspended" THEN "normal" ELSE s.out
    BY <1>5, SleepingOK, ResumedOK
  <2>2. ResumePendingOutput(NoteDecision(cand, resume, speaking), r)
    BY <1>8
  <2> HIDE DEF r
  <2> QED
    BY <1>1, <1>3, <2>1, <2>2, ResumeEffect
<1>9. CASE Apply(Hold, "timeout", speaking, cand, Sleeping(s, slot, Least(len, next)))
  <2> DEFINE r == Sleeping(s, slot, Least(len, next))
  <2>1. r \in Made /\ r.turn = s.turn /\ r.out = s.out /\ Watched(r)
    BY <1>4, LeastOK, SleepingOK
  <2>2. Apply(Hold, "timeout", speaking, cand, r)
    BY <1>9
  <2> HIDE DEF r
  <2>3. Effect(cand, r) /\ (Watched(Now)' \/ claimed)
    BY <1>1, <2>1, <2>2, ApplyEffect, DecisionsOK
  <2> QED
    BY <2>1, <2>3 DEF Effect, Played
<1> QED
  BY <1>2, <1>6, <1>7, <1>8, <1>9

\* A deadline that has slept leaves no suspension without another one.
LEMMA RunEffect ==
    ASSUME StateOK, NEW s \in Made, NEW len \in Nat, NEW slot \in TimerIds, s.out = output,
           RunDeadline(len, slot, s)
    PROVE  Effect(cand, s) /\ (Watched(Now)' \/ claimed)
<1>1. cand \in Candidates /\ claimed \in BOOLEAN /\ speaking \in BOOLEAN
  BY DEF StateOK
<1>2. CASE output # "suspended" /\ ~cand.live
  <2>1. Keep(cand, s) /\ claimed' = claimed
    BY <1>2 DEF RunDeadline
  <2>2. Watched(s)
    BY <1>2 DEF Watched
  <2> QED
    BY <1>1, <2>1, <2>2, KeepEffect DEF Effect, Played
<1>3. CASE ~(output # "suspended" /\ ~cand.live)
  <2>1. PICK d \in DeadlineDecisions :
           IF d.act = "hold" THEN ResolveHoldOrRearm(len, slot, s)
                             ELSE Apply(d, "timeout", speaking, cand, s)
    BY <1>3 DEF RunDeadline
  <2>2. d \in {Hold, Cancel, Rollback}
    BY DEF DeadlineDecisions
  <2>3. d \in Decided
    BY <2>2, DecisionsOK
  <2>4. CASE d.act = "hold"
    BY <2>1, <2>4, RearmEffect
  <2>5. CASE d.act # "hold"
    BY <1>1, <2>1, <2>3, <2>5, ApplyEffect
  <2> QED
    BY <2>4, <2>5
<1> QED
  BY <1>2, <1>3

-----------------------------------------------------------------------------
\* What holds of a step that takes effect on the present stretch of speech

\* t is the turn that an operation begins with: the one there is, which may have ended its
\* stretch of speech or itself.
SameStretch(t) ==
    /\ t.id = turn.id /\ t.gen = turn.gen
    /\ t.state = "open" => turn.state = "open" /\ (~t.ended /\ ~speaking' => ~turn.ended /\ ~speaking)

\* The operation works on the candidate there is, in its turn.
OnStretch(c, s) ==
    /\ s \in Made /\ c.live = cand.live /\ c.key = cand.key
    /\ SameStretch(s.turn)
    /\ speaking' \in BOOLEAN /\ heard' \in BOOLEAN /\ since' \in Nat

\* The key of a turn has the turn's generation.
LEMMA KeyOfOK ==
    ASSUME NEW t \in Turns
    PROVE  KeyOf(t) \in Key /\ KeyOf(t).gen = t.gen
BY DEF KeyOf, Turns, Key

\* An effect on the present stretch keeps the owner's invariant: the only verdict it may add is on
\* the candidate, and it disposes of the turn with it.
LEMMA EffectKeepsOwner ==
    ASSUME OwnerInv, NEW c, NEW s, OnStretch(c, s), Effect(c, s)
    PROVE  OwnerInv'
<1> DEFINE t == s.turn
<1>1. /\ t \in Turns /\ turn \in Turns /\ turn' \in Turns /\ cand \in Candidates
      /\ cand' \in Candidates
  BY DEF OwnerInv, StateOK, OnStretch, Effect, Made, Now
<1>2. KeyOf(t) = KeyOf(turn) /\ (cand.live => cand.key \in Key)
  BY <1>1 DEF OnStretch, SameStretch, KeyOf, Candidates
<1>3. claimed => claimed'
  BY DEF Effect, Played
<1>4. StateOK'
  BY DEF Effect, OnStretch, StateOK
<1>5. CASE verdicts' = verdicts /\ turn' = t /\ cand'.live = c.live /\ cand'.key = c.key
  <2>1. KeyOf(turn') = KeyOf(turn) /\ turn'.gen = turn.gen
    BY <1>2, <1>5 DEF OnStretch, SameStretch
  <2>2. KnownKeys'
    BY <1>5, <2>1 DEF OwnerInv, KnownKeys, OnStretch
  <2>3. JudgedHasClaimed' /\ RefusedIsDisposedOf'
    BY <1>2, <1>3, <1>5, <2>1
       DEF OwnerInv, JudgedHasClaimed, RefusedIsDisposedOf, OnStretch, SameStretch
  <2> QED
    BY <1>4, <2>2, <2>3 DEF OwnerInv
<1>6. ASSUME c.live, ~cand'.live, NEW v, verdicts' = Recorded(c.key, v),
             turn' = Disposed(t, c.key, v),
             v.llm => claimed' \/ t.ended \/ t.state # "open"
      PROVE  OwnerInv'
  <2>1. /\ DOMAIN verdicts' = DOMAIN verdicts \cup {c.key} /\ verdicts'[c.key] = v
        /\ \A k \in DOMAIN verdicts : k # c.key => verdicts'[k] = verdicts[k]
    BY <1>6 DEF Recorded
  <2>2. /\ turn'.id = t.id /\ turn'.gen = t.gen /\ turn'.ended = t.ended
        /\ turn'.state \in {t.state, "rejected"}
        /\ KeyOf(t) = c.key /\ t.state = "open" => v.llm \/ turn'.state = "rejected"
    BY <1>1, <1>6, DisposedOK
  <2>3. KeyOf(turn') = KeyOf(turn)
    BY <1>2, <2>2 DEF KeyOf
  <2>4. KnownKeys'
    BY <1>2, <1>6, <2>1, <2>2 DEF OwnerInv, KnownKeys, OnStretch, SameStretch
  <2>5. turn'.state = "open" => t.state = "open"
    BY <2>2
  <2>6. RefusedIsDisposedOf'
    BY <1>2, <2>1, <2>2, <2>3, <2>5 DEF OwnerInv, RefusedIsDisposedOf, OnStretch, SameStretch
  <2>7. JudgedHasClaimed'
    BY <1>2, <1>3, <1>6, <2>1, <2>2, <2>3, <2>5
       DEF OwnerInv, JudgedHasClaimed, OnStretch, SameStretch
  <2> QED
    BY <1>4, <2>4, <2>6, <2>7 DEF OwnerInv
<1> QED
  BY <1>5, <1>6 DEF Effect, Judged

\* The claim stands in what the operation begins with.
Standing(s) ==
    /\ s.out = "suspended" => ~claimed
    /\ claimed /\ s.turn.state = "open" => s.out = "cancelled"

\* An effect on the present stretch leaves no suspension unwatched or against a claim, and no
\* live candidate judged.
LEMMA EffectKeepsUntyped ==
    ASSUME OwnerInv, UntypedInv, NEW c, NEW s, OnStretch(c, s), Effect(c, s), Standing(s),
           ~closed' => Watched(Now)' \/ claimed
    PROVE  UntypedInv'
<1>1. s.turn \in Turns
  BY DEF OnStretch, Made
<1>2. ClaimStands'
  <2>1. turn'.state = "open" => s.turn.state = "open"
    BY <1>1, DisposedOK DEF Effect, Judged
  <2> QED
    BY <2>1 DEF Effect, Played, Standing, ClaimStands
<1>3. SuspensionIsWatched'
  BY DEF Effect, Played, Standing, SuspensionIsWatched, Watched, Now
<1>4. LiveIsUnjudged'
  BY DEF Effect, Judged, UntypedInv, LiveIsUnjudged, OnStretch
<1> QED
  BY <1>2, <1>3, <1>4 DEF UntypedInv

\* What the two action properties ask of a step.
FinalStep == \A k \in DOMAIN verdicts : k \in DOMAIN verdicts' /\ verdicts'[k] = verdicts[k]
SparesStep ==
    \A k \in DOMAIN verdicts' \ DOMAIN verdicts :
       turn.state = "open" /\ turn' # turn /\ KeyOf(turn) # k => turn'.state # "rejected"

\* An effect overwrites no verdict, and rejects no turn but that of its verdict.
LEMMA EffectJudgesOnce ==
    ASSUME OwnerInv, UntypedInv, NEW c, NEW s, OnStretch(c, s), Effect(c, s),
           verdicts' = verdicts \/ (turn.state = "open" => s.turn.state # "rejected")
    PROVE  FinalStep /\ SparesStep
<1>1. CASE verdicts' = verdicts
  BY <1>1 DEF FinalStep, SparesStep
<1>2. ASSUME verdicts' # verdicts,
             c.live, NEW v, verdicts' = Recorded(c.key, v), turn' = Disposed(s.turn, c.key, v)
      PROVE  FinalStep /\ SparesStep
  <2>1. c.key \notin DOMAIN verdicts
    BY <1>2 DEF UntypedInv, LiveIsUnjudged, OnStretch
  <2>2. /\ DOMAIN verdicts' = DOMAIN verdicts \cup {c.key}
        /\ \A k \in DOMAIN verdicts : k # c.key => verdicts'[k] = verdicts[k]
    BY <1>2 DEF Recorded
  <2>3. FinalStep
    BY <2>1, <2>2 DEF FinalStep
  <2>4. s.turn \in Turns /\ KeyOf(s.turn) = KeyOf(turn)
    BY DEF OnStretch, SameStretch, Made, KeyOf
  <2>5. KeyOf(turn) # c.key => turn' = s.turn
    BY <1>2, <2>4, DisposedOK
  <2>6. SparesStep
    BY <1>2, <2>2, <2>5 DEF SparesStep
  <2> QED
    BY <2>3, <2>6
<1> QED
  BY <1>1, <1>2 DEF Effect, Judged

\* What every step keeps.
Kept ==
    /\ OwnerInv'
    /\ ~Typed /\ UntypedInv => UntypedInv' /\ FinalStep /\ SparesStep

\* The three together.
LEMMA KeptByEffect ==
    ASSUME OwnerInv, NEW c, NEW s, OnStretch(c, s), Effect(c, s),
           ~Typed /\ UntypedInv => Standing(s) /\ (~closed' => Watched(Now)' \/ claimed),
           verdicts' = verdicts \/ (turn.state = "open" => s.turn.state # "rejected")
    PROVE  Kept
BY EffectKeepsOwner, EffectKeepsUntyped, EffectJudgesOnce DEF Kept

\* A decision that is applied while the suspension is watched.
LEMMA KeptByApply ==
    ASSUME OwnerInv, NEW c \in Candidates, NEW s \in Made, NEW d \in Decided, NEW why,
           NEW vad \in BOOLEAN, OnStretch(c, s), Apply(d, why, vad, c, s),
           ~Typed /\ UntypedInv => Standing(s) /\ Watched(s),
           turn.state = "open" => s.turn.state # "rejected"
    PROVE  Kept
BY ApplyEffect, KeptByEffect DEF OwnerInv, StateOK

\* An operation that keeps the candidate.
LEMMA KeptByKeep ==
    ASSUME OwnerInv, NEW c \in Candidates, NEW s \in Made, OnStretch(c, s), Keep(c, s),
           claimed' = claimed,
           ~Typed /\ UntypedInv => Standing(s) /\ (~closed' => Watched(s))
    PROVE  Kept
<1>1. Effect(c, s) /\ (Watched(Now)' <=> Watched(s)) /\ verdicts' = verdicts
  BY KeepEffect DEF Effect, Played, OwnerInv, StateOK, Keep
<1> QED
  BY <1>1, KeptByEffect

\* What is there before a step, as the state that an operation begins with.
LEMMA NowOK ==
    ASSUME OwnerInv
    PROVE  /\ Now \in Made /\ Now.out = output /\ Now.timers = timers /\ Now.armed = armed
           /\ Now.turn = turn /\ turn \in Turns /\ output \in Outputs
           /\ timers \in [TimerIds -> Timer] /\ armed \in {0} \cup TimerIds
           /\ cand \in Candidates /\ claimed \in BOOLEAN
           /\ speaking \in BOOLEAN /\ heard \in BOOLEAN /\ since \in Nat
BY DEF OwnerInv, StateOK, Now, Made

\* With another turn in it.
LEMMA WithTurnOK ==
    ASSUME OwnerInv, NEW t \in Turns
    PROVE  LET s == [Now EXCEPT !.turn = t]
           IN  /\ s \in Made /\ s.out = output /\ s.timers = timers /\ s.armed = armed /\ s.turn = t
BY NowOK DEF Now, Made

\* The output that a step finds is watched, and stands by the claim of its turn.
LEMMA NowStands ==
    ASSUME OwnerInv, UntypedInv, ~closed, NEW s, s.out = output, s.timers = timers,
           s.armed = armed, s.turn.state = "open" => turn.state = "open"
    PROVE  Standing(s) /\ Watched(s)
BY DEF UntypedInv, ClaimStands, SuspensionIsWatched, Standing, Watched

\* A step that leaves the owner, its output and its turn alone.
LEMMA QuietKept ==
    ASSUME OwnerInv, Unchanged, UNCHANGED <<closed, speaking, heard, since>>
    PROVE  Kept
<1>1. OwnerInv'
  BY DEF OwnerInv, StateOK, Now, KnownKeys, JudgedHasClaimed, RefusedIsDisposedOf, Unchanged
<1>2. UntypedInv => UntypedInv'
  BY DEF UntypedInv, SuspensionIsWatched, ClaimStands, LiveIsUnjudged, Unchanged
<1>3. FinalStep /\ SparesStep
  BY DEF Unchanged, FinalStep, SparesStep
<1> QED
  BY <1>1, <1>2, <1>3 DEF Kept

\* The deadline that fires is the one that watched: it arms another, or ends the suspension.
LEMMA DeadlineKept ==
    ASSUME OwnerInv, NEW i \in TimerIds, DeadlineFires(i)
    PROVE  Kept
<1> DEFINE ts == [timers EXCEPT ![i] = Off]
           s == [Now EXCEPT !.timers[i] = Off]
<1>1. timers[i] \in Timer /\ timers[i].left = 0
  BY NowOK DEF DeadlineFires
<1>2. timers[i].len \in Nat
  BY <1>1 DEF Timer, Off, NoTime
<1>3. ts \in [TimerIds -> Timer]
  BY NowOK DEF Timer
<1>4. s = [Now EXCEPT !.timers = ts]
  BY DEF Now
<1>5. s \in Made /\ s.out = output /\ s.turn = turn
  BY NowOK, <1>3, <1>4 DEF Made
<1>6. RunDeadline(timers[i].len, i, s) /\ UNCHANGED <<closed, speaking, heard, since>>
  BY DEF DeadlineFires
<1> HIDE DEF s, ts
<1>7. Effect(cand, s) /\ (Watched(Now)' \/ claimed)
  BY <1>2, <1>5, <1>6, RunEffect DEF OwnerInv
<1>8. OnStretch(cand, s)
  BY <1>5, <1>6, NowOK DEF OnStretch, SameStretch
<1>9. UntypedInv => Standing(s)
  BY <1>5 DEF UntypedInv, ClaimStands, Standing
<1>10. turn.state = "open" => s.turn.state # "rejected"
  BY <1>5
<1> QED
  BY <1>7, <1>8, <1>9, <1>10, KeptByEffect

\* A deadline is armed over the one there is, or in a free slot.
LEMMA ArmOK ==
    ASSUME NEW s \in Made, HasSlot(s)
    PROVE  /\ Arm(s) \in Made /\ Arm(s).out = s.out /\ Arm(s).turn = s.turn
           /\ Watched(Arm(s)) /\ Arm(s).armed # 0 /\ Arm(s).timers[Arm(s).armed] # Off
<1> DEFINE r == Disarm(s)
           i == CHOOSE j \in Free(r) : TRUE
           t == [len |-> DuckTimeout, left |-> DuckTimeout]
           ts == [r.timers EXCEPT ![i] = t]
<1>1. r \in Made /\ r.out = s.out /\ r.turn = s.turn
  BY DisarmedOK
<1>2. Free(r) # {}
  <2>1. CASE s.armed = 0
    BY <2>1 DEF Disarm, HasSlot
  <2>2. CASE s.armed # 0
    <3>1. r.timers[s.armed] = Off /\ s.armed \in TimerIds
      BY <2>2 DEF Disarm, Made
    <3> QED
      BY <3>1 DEF Free
  <2> QED
    BY <2>1, <2>2
<1>3. i \in TimerIds
  BY <1>2 DEF Free
<1>4. DuckTimeout \in Nat
  BY InterruptionAssumption
<1>5. Arm(s) = Sleeping(r, i, DuckTimeout)
  BY DEF Arm
<1>6. Sleeping(r, i, DuckTimeout) = [r EXCEPT !.timers = ts, !.armed = i]
  BY DEF Sleeping
<1>7. t # Off /\ ts[i] = t /\ i # 0 /\ ts \in [TimerIds -> Timer]
  <2>1. t \in Timer /\ t # Off
    BY <1>4 DEF Timer, Off, NoTime
  <2>2. r.timers \in [TimerIds -> Timer]
    BY <1>1 DEF Made
  <2> HIDE DEF r, i, t
  <2>3. i # 0
    BY <1>3 DEF TimerIds
  <2> QED
    BY <1>3, <2>1, <2>2, <2>3
<1> HIDE DEF r, i, t, ts
<1>8. Arm(s).armed = i /\ Arm(s).timers = ts
  BY <1>1, <1>5, <1>6 DEF Made
<1> QED
  BY <1>1, <1>3, <1>4, <1>5, <1>7, <1>8, SleepingOK

\* What suspends the output arms a deadline with it.
LEMMA DuckOK ==
    ASSUME NEW s \in Made, HasSlot(s)
    PROVE  /\ Duck(s) \in Made /\ Duck(s).out = "suspended" /\ Duck(s).turn = s.turn
           /\ Watched(Duck(s)) /\ HasSlot(Duck(s))
<1> DEFINE r == Arm(s)
<1>1. r \in Made /\ r.turn = s.turn /\ r.armed # 0 /\ r.timers[r.armed] # Off
  BY ArmOK
<1>2. Duck(s) = [r EXCEPT !.out = "suspended"]
  BY DEF Duck
<1> HIDE DEF r
<1> QED
  BY <1>1, <1>2 DEF Made, Outputs, Watched, HasSlot

-----------------------------------------------------------------------------
\* Transcripts and the stop of a speech

\* A candidate stays of its generation whatever is asked about its text.
LEMMA AskedOK ==
    ASSUME NEW c \in Candidates, NEW ask \in Asks
    PROVE  /\ [c EXCEPT !.ask = ask] \in Candidates
           /\ [c EXCEPT !.ask = ask].live = c.live /\ [c EXCEPT !.ask = ask].key = c.key
BY DEF Candidates

\* A transcript is noted in the candidate, which stays of its generation.
LEMMA NotedTranscriptOK ==
    ASSUME NEW c \in Candidates, NEW final \in BOOLEAN
    PROVE  /\ NoteTranscript(c, final) \in Candidates
           /\ NoteTranscript(c, final).live = c.live /\ NoteTranscript(c, final).key = c.key
BY DEF NoteTranscript, Candidates, Texts, Asks

\* What a transcript may decide is a decision.
LEMMA TranscriptDecisionsOK ==
    ASSUME NEW c, NEW final, NEW vad, NEW d \in TranscriptDecisions(c, final, vad)
    PROVE  d \in Decided
<1>1. ModelDecision(c, vad) \in Decided
  BY DecisionsOK DEF ModelDecision, Acts, Intents
<1>2. /\ Decision("hold", "uncertain", "recheck") \in Decided
      /\ Decision("hold", "uncertain", "artifact") \in Decided
  BY DecisionsOK DEF Acts, Intents
<1> QED
  BY <1>1, <1>2, DecisionsOK DEF TranscriptDecisions

\* A pending transcript is decided on, or waits for the model.
LEMMA SemanticKept ==
    ASSUME OwnerInv, NEW final \in BOOLEAN, NEW s \in Made, OnStretch(cand, s),
           RunSemantic(final, s), ~Typed /\ UntypedInv => Standing(s) /\ Watched(s),
           turn.state = "open" => s.turn.state # "rejected"
    PROVE  Kept
<1> DEFINE c == NoteTranscript(cand, final)
<1>1. c \in Candidates /\ c.live = cand.live /\ c.key = cand.key
  BY NowOK, NotedTranscriptOK
<1>2. CASE model /\ ~cand.live
  <2>1. Keep(cand, s) /\ claimed' = claimed
    BY <1>2 DEF RunSemantic
  <2> QED
    BY <2>1, NowOK, KeptByKeep
<1>3. CASE ~(model /\ ~cand.live)
  <2>1. PICK d \in TranscriptDecisions(c, final, speaking) :
           Apply(d, "transcript", speaking, c, s)
    BY <1>3 DEF RunSemantic
  <2>2. d \in Decided
    BY TranscriptDecisionsOK
  <2> HIDE DEF c
  <2>3. OnStretch(c, s)
    BY <1>1 DEF OnStretch
  <2> QED
    BY <1>1, <2>1, <2>2, <2>3, NowOK, KeptByApply
<1> QED
  BY <1>2, <1>3

\* The turn of a transcript is open, so a claim of it has cancelled the output, and nothing is
\* suspended for it.
LEMMA TranscriptKept ==
    ASSUME OwnerInv, NEW final \in BOOLEAN, NEW routed \in BOOLEAN, NEW ducks \in BOOLEAN,
           TranscriptArrives(final, routed, ducks)
    PROVE  Kept
<1> DEFINE t == [turn EXCEPT !.text = TRUE]
           s1 == [Now EXCEPT !.turn = t]
           s == IF ducks THEN Duck(s1) ELSE s1
<1>1. t \in Turns /\ t.id = turn.id /\ t.gen = turn.gen /\ t.state = turn.state /\ t.ended = turn.ended
  BY NowOK DEF Turns
<1>2. /\ ~closed /\ turn.state = "open"
      /\ ducks => output = "normal" /\ HasSlot(Now)
      /\ heard' = TRUE /\ since' = IF ducks THEN 0 ELSE since
      /\ speaking' = speaking /\ closed' = closed
  BY DEF TranscriptArrives
<1>3. RunSemantic(final, s) \/ (Keep(cand, s) /\ claimed' = claimed)
  BY DEF TranscriptArrives, Now
<1> HIDE DEF t
<1>4. s1 \in Made /\ s1.out = output /\ s1.timers = timers /\ s1.armed = armed /\ s1.turn = t
  BY <1>1, WithTurnOK
<1>5. ducks => HasSlot(s1)
  BY <1>2, <1>4, NowOK DEF HasSlot, Free
<1> HIDE DEF s1
<1>6. s \in Made /\ s.turn = t
  BY <1>4, <1>5, DuckOK
<1>7. ~Typed /\ UntypedInv => Standing(s) /\ Watched(s)
  <2>1. CASE ducks
    <3>1. s.out = "suspended" /\ Watched(s)
      BY <1>4, <1>5, <2>1, DuckOK
    <3>2. UntypedInv => ~claimed
      BY <1>2, <2>1 DEF UntypedInv, ClaimStands
    <3> QED
      BY <3>1, <3>2 DEF Standing
  <2>2. CASE ~ducks
    BY <1>1, <1>2, <1>4, <2>2, NowStands
  <2> QED
    BY <2>1, <2>2
<1> HIDE DEF s
<1>8. OnStretch(cand, s)
  BY <1>1, <1>2, <1>6, NowOK DEF OnStretch, SameStretch
<1>9. turn.state = "open" => s.turn.state # "rejected"
  BY <1>1, <1>2, <1>6
<1> QED
  BY <1>3, <1>6, <1>7, <1>8, <1>9, NowOK, SemanticKept, KeptByKeep

\* A recheck decides again on the text there is.
LEMMA RecheckKept ==
    ASSUME OwnerInv, RecheckFires
    PROVE  Kept
<1> DEFINE s == [Now EXCEPT !.recheck = FALSE]
           final == cand.text = "final"
<1>1. s \in Made /\ s.out = output /\ s.timers = timers /\ s.armed = armed /\ s.turn = turn
  BY NowOK DEF Made
<1>2. /\ ~closed /\ UNCHANGED <<closed, speaking, heard, since>>
      /\ RunSemantic(final, s) \/ (Keep(cand, s) /\ claimed' = claimed)
  BY DEF RecheckFires
<1> HIDE DEF s
<1>3. OnStretch(cand, s)
  BY <1>1, <1>2, NowOK DEF OnStretch, SameStretch
<1>4. UntypedInv => Standing(s) /\ Watched(s)
  BY <1>1, <1>2, NowStands
<1>5. turn.state = "open" => s.turn.state # "rejected"
  BY <1>1
<1>6. final \in BOOLEAN
  OBVIOUS
<1> HIDE DEF final
<1> QED
  BY <1>1, <1>2, <1>3, <1>4, <1>5, <1>6, NowOK, SemanticKept, KeptByKeep

\* The answer of the model is about the text that the candidate still has.
LEMMA IntentKept ==
    ASSUME OwnerInv, NEW answer \in {"reply", "stop", "noise", "unsure"}, IntentIsKnown(answer)
    PROVE  Kept
<1> DEFINE c == [cand EXCEPT !.ask = answer]
           d == CASE answer = "reply" -> Cancel
                  [] answer = "stop"  -> Decision("cancel", "stop", "plain")
                  [] OTHER            -> ModelDecision(c, speaking)
<1>1. c \in Candidates /\ c.live = cand.live /\ c.key = cand.key
  BY NowOK, AskedOK DEF Asks
<1>2. d \in Decided
  <2>1. ModelDecision(c, speaking) \in Decided
    BY DecisionsOK DEF ModelDecision, Acts, Intents
  <2>2. Decision("cancel", "stop", "plain") \in Decided
    BY DecisionsOK DEF Acts, Intents
  <2> QED
    BY <2>1, <2>2, DecisionsOK
<1>3. /\ ~closed /\ UNCHANGED <<closed, speaking, heard, since>>
      /\ Apply(d, "transcript", speaking, c, Now)
  BY DEF IntentIsKnown
<1> HIDE DEF c, d
<1>4. OnStretch(c, Now)
  BY <1>1, <1>3, NowOK DEF OnStretch, SameStretch
<1>5. UntypedInv => Standing(Now) /\ Watched(Now)
  BY <1>3, NowOK, NowStands
<1>6. turn.state = "open" => Now.turn.state # "rejected"
  BY NowOK
<1> QED
  BY <1>1, <1>2, <1>3, <1>4, <1>5, <1>6, NowOK, KeptByApply

\* The candidate at the stop of its speech is the one there was.
LEMMA StoppedOK ==
    ASSUME OwnerInv
    PROVE  /\ Stopped.cand \in Candidates
           /\ Stopped.cand.live = cand.live /\ Stopped.cand.key = cand.key
<1> DEFINE text == IF cand.text = "none" /\ heard THEN "interim" ELSE cand.text
           c == [cand EXCEPT !.stop = 0, !.text = text]
           state == IF output = "suspended" THEN "postwait" ELSE "resumed"
<1>1. cand \in Candidates
  BY NowOK
<1>2. text \in Texts /\ state \in States /\ 0 \in Age
  BY <1>1 DEF Candidates, Texts, States, Age
<1>3. Stopped.cand \in {c, [c EXCEPT !.awaiting = TRUE, !.state = state]}
  BY DEF Stopped
<1> HIDE DEF text, state
<1>4. c \in Candidates /\ c.live = cand.live /\ c.key = cand.key
  BY <1>1, <1>2 DEF Candidates
<1> HIDE DEF c
<1> QED
  BY <1>2, <1>3, <1>4 DEF Candidates

\* The stop of a speech ends the stretch of its turn, and decides, or waits for evidence.
LEMMA StopKept ==
    ASSUME OwnerInv, SpeechStops
    PROVE  Kept
<1> DEFINE t == IF turn.state = "open" THEN [turn EXCEPT !.ended = TRUE, !.age = 0] ELSE turn
           s == [Now EXCEPT !.turn = t]
<1>1. /\ t \in Turns /\ t.id = turn.id /\ t.gen = turn.gen /\ t.state = turn.state
      /\ t.state = "open" => t.ended
  BY NowOK DEF Turns
<1>2. /\ ~closed /\ speaking' = FALSE /\ UNCHANGED <<closed, heard, since>>
      /\ \/ FinishConfirmedCancel(s)
         \/ ~IsCommittableCancel(cand) /\ cand.live /\ ResolveOnStop(s)
         \/ ~cand.live /\ Keep(cand, s) /\ UNCHANGED claimed
  BY DEF SpeechStops, Now
<1> HIDE DEF t
<1>3. s \in Made /\ s.out = output /\ s.timers = timers /\ s.armed = armed /\ s.turn = t
  BY <1>1, WithTurnOK
<1> HIDE DEF s
<1>4. ASSUME NEW c, c.live = cand.live, c.key = cand.key, NEW r \in Made, r.turn = t
      PROVE  OnStretch(c, r)
  BY <1>1, <1>2, <1>4, NowOK DEF OnStretch, SameStretch
<1>5. UntypedInv => Standing(s) /\ Watched(s)
  BY <1>1, <1>2, <1>3, NowStands
<1>6. CASE FinishConfirmedCancel(s)
  <2> DEFINE c == [cand EXCEPT !.stop = 0]
  <2>1. c \in Candidates /\ c.live = cand.live /\ c.key = cand.key
    BY NowOK DEF Candidates, Age
  <2>2. Resolve(c, "cancel", "confirmed_cancel_speech_completed", s) /\ claimed' = claimed
    BY <1>6 DEF FinishConfirmedCancel
  <2> HIDE DEF c
  <2>3. Effect(c, s) /\ (Watched(Now)' <=> Watched(s))
    BY <1>1, <1>3, <2>1, <2>2, ResolveEffect, NowOK DEF Effect, Played
  <2> QED
    BY <1>1, <1>3, <1>4, <1>5, <2>1, <2>3, KeptByEffect
<1>7. CASE ~cand.live /\ Keep(cand, s) /\ UNCHANGED claimed
  BY <1>3, <1>4, <1>5, <1>7, NowOK, KeptByKeep
<1>8. CASE ResolveOnStop(s)
  <2> DEFINE st == Stopped.cand
             ask == IF model /\ st.ask = "none" /\ cand.text = "final" THEN "asked" ELSE st.ask
             c == [st EXCEPT !.ask = ask]
             r == IF Stopped.waits /\ output # "suspended" THEN Arm(s) ELSE s
  <2>1. /\ Stopped.waits /\ output # "suspended" => HasSlot(s)
        /\ \/ \E d \in TranscriptDecisions(c, TRUE, FALSE) : Apply(d, "speech_stopped", FALSE, c, r)
           \/ Apply(UserSilent, "user_silent", FALSE, c, r)
           \/ Keep(c, r) /\ claimed' = claimed
    BY <1>8 DEF ResolveOnStop
  <2>2. st \in Candidates /\ st.live = cand.live /\ st.key = cand.key
    BY StoppedOK
  <2>3. r \in Made /\ r.turn = t /\ r.out = output
    BY <1>3, <2>1, ArmOK
  <2>4. UntypedInv => Standing(r) /\ Watched(r)
    <3>1. CASE r = s
      BY <1>5, <3>1
    <3>2. CASE r # s
      BY <1>3, <1>5, <2>1, <2>3, <3>2, ArmOK DEF Standing
    <3> QED
      BY <3>1, <3>2
  <2> HIDE DEF st, r
  <2>5. ask \in Asks
    BY <2>2 DEF Candidates, Asks
  <2> HIDE DEF ask
  <2>6. c \in Candidates /\ c.live = cand.live /\ c.key = cand.key
    BY <2>2, <2>5, AskedOK
  <2> HIDE DEF c
  <2>7. OnStretch(c, r)
    BY <1>4, <2>3, <2>6
  <2>8. turn.state = "open" => r.turn.state # "rejected"
    BY <1>1, <2>3
  <2>9. CASE \E d \in TranscriptDecisions(c, TRUE, FALSE) : Apply(d, "speech_stopped", FALSE, c, r)
    BY <2>3, <2>4, <2>6, <2>7, <2>8, <2>9, TranscriptDecisionsOK, KeptByApply
  <2>10. CASE Apply(UserSilent, "user_silent", FALSE, c, r)
    <3>1. UserSilent \in Decided
      BY DecisionsOK DEF UserSilent
    <3> QED
      BY <2>3, <2>4, <2>6, <2>7, <2>8, <2>10, <3>1, KeptByApply
  <2>11. CASE Keep(c, r) /\ claimed' = claimed
    BY <2>3, <2>4, <2>6, <2>7, <2>11, KeptByKeep
  <2> QED
    BY <2>1, <2>9, <2>10, <2>11
<1> QED
  BY <1>2, <1>6, <1>7, <1>8

-----------------------------------------------------------------------------
\* The endpointing task and the completion of a turn

\* The endpointing task runs the deadline without having armed it.
LEMMA EndpointKept ==
    ASSUME OwnerInv, EndpointDecides
    PROVE  Kept
<1> DEFINE i == CHOOSE j \in Free(Now) : TRUE
<1>1. /\ ~closed /\ UNCHANGED <<closed, speaking, heard, since>>
      /\ Free(Now) # {} /\ RunDeadline(0, i, Now)
  BY DEF EndpointDecides
<1>2. i \in TimerIds
  BY <1>1 DEF Free
<1> HIDE DEF i
<1>3. Effect(cand, Now) /\ (Watched(Now)' \/ claimed)
  BY <1>1, <1>2, NowOK, RunEffect DEF OwnerInv
<1>4. OnStretch(cand, Now)
  BY <1>1, NowOK DEF OnStretch, SameStretch
<1>5. UntypedInv => Standing(Now)
  BY <1>1, NowOK, NowStands
<1> QED
  BY <1>3, <1>4, <1>5, NowOK, KeptByEffect

\* A completion that only ends the turn.
LEMMA EndsKept ==
    ASSUME OwnerInv, ~closed, UNCHANGED <<closed, speaking, heard, since>>,
           NEW t \in {turn, Committed, Rejected}, Ends(t)
    PROVE  Kept
<1> DEFINE s == [Now EXCEPT !.turn = t]
<1>1. /\ t \in Turns /\ t.id = turn.id /\ t.gen = turn.gen /\ t.ended = turn.ended
      /\ t.state = "open" => turn.state = "open"
  BY NowOK DEF Turns, TurnStates, Committed, Rejected
<1>2. s \in Made /\ s.out = output /\ s.timers = timers /\ s.armed = armed /\ s.turn = t
  BY <1>1, WithTurnOK
<1>3. Keep(cand, s) /\ claimed' = claimed
  BY DEF Ends
<1> HIDE DEF s
<1>4. OnStretch(cand, s)
  BY <1>1, <1>2, NowOK DEF OnStretch, SameStretch
<1>5. UntypedInv => Standing(s) /\ Watched(s)
  BY <1>1, <1>2, NowStands
<1> QED
  BY <1>2, <1>3, <1>4, <1>5, NowOK, KeptByKeep

\* A completion that decides from its text commits the turn it cancels for.
LEMMA EvidenceKept ==
    ASSUME OwnerInv, ~closed, UNCHANGED <<closed, speaking, heard, since>>, CompleteOnEvidence
    PROVE  Kept
<1> DEFINE n == NoteTranscript(cand, TRUE)
           ask == IF cand.text = "final" THEN cand.ask ELSE "none"
           c == [n EXCEPT !.ask = ask]
           d == NoteDecision(c, Cancel, FALSE)
           s == [Now EXCEPT !.turn = Committed]
<1>1. \/ Keep(c, Now) /\ claimed' = claimed
      \/ Resolve(d, "cancel", "evidence", s) /\ claimed' = claimed /\ output = "cancelled"
      \/ CancelAndInterrupt(d, s)
  BY DEF CompleteOnEvidence
<1>2. c \in Candidates /\ c.live = cand.live /\ c.key = cand.key
  <2>1. n \in Candidates /\ n.live = cand.live /\ n.key = cand.key
    BY NowOK, NotedTranscriptOK
  <2>2. ask \in Asks
    BY NowOK DEF Candidates, Asks
  <2> HIDE DEF n, ask
  <2> QED
    BY <2>1, <2>2, AskedOK
<1> HIDE DEF c
<1>3. d \in Candidates /\ d.live = cand.live /\ d.key = cand.key
  BY <1>2, NotedOK, DecisionsOK
<1> HIDE DEF d
<1>4. /\ Committed \in Turns /\ Committed.id = turn.id /\ Committed.gen = turn.gen
      /\ Committed.state = "committed"
  BY NowOK DEF Turns, TurnStates, Committed
<1>5. s \in Made /\ s.out = output /\ s.timers = timers /\ s.armed = armed /\ s.turn = Committed
  BY <1>4, WithTurnOK
<1> HIDE DEF s
<1>6. UntypedInv => Standing(s) /\ Watched(s)
  BY <1>4, <1>5, NowStands
<1>7. UntypedInv => Standing(Now) /\ Watched(Now)
  BY NowOK, NowStands
<1>8. OnStretch(c, Now)
  BY <1>2, NowOK DEF OnStretch, SameStretch
<1>9. OnStretch(d, s)
  BY <1>3, <1>4, <1>5, NowOK DEF OnStretch, SameStretch
<1>10. CASE Keep(c, Now) /\ claimed' = claimed
  BY <1>2, <1>7, <1>8, <1>10, NowOK, KeptByKeep
<1>11. CASE Resolve(d, "cancel", "evidence", s) /\ claimed' = claimed
  <2>1. Effect(d, s) /\ (Watched(Now)' <=> Watched(s))
    BY <1>3, <1>4, <1>5, <1>11, NowOK, ResolveEffect DEF Effect, Played
  <2> QED
    BY <1>4, <1>5, <1>6, <1>9, <2>1, KeptByEffect
<1>12. CASE CancelAndInterrupt(d, s)
  <2>1. Effect(d, s) /\ (~Watched(Now)' => claimed)
    BY <1>3, <1>5, <1>12, NowOK, CancelEffect
  <2> QED
    BY <1>4, <1>5, <1>6, <1>9, <2>1, KeptByEffect
<1> QED
  BY <1>1, <1>10, <1>11, <1>12

\* A completed turn.
LEMMA CompleteKept ==
    ASSUME OwnerInv, NEW admitted \in BOOLEAN, Complete(admitted)
    PROVE  Kept
<1>1. ~closed /\ UNCHANGED <<closed, speaking, heard, since>>
  BY DEF Complete
<1>2. Ends(turn) \/ Ends(Rejected) \/ Ends(Committed) \/ CompleteOnEvidence
  BY DEF Complete
<1> QED
  BY <1>1, <1>2, EndsKept, EvidenceKept

-----------------------------------------------------------------------------
\* The agent's output, the client's controls, time

\* A reply lifts a cancellation; where nothing typed begins one, not that of an open turn
\* which has claimed it.
LEMMA ReplyStartsKept ==
    ASSUME OwnerInv, ReplyStarts
    PROVE  Kept
<1> DEFINE c == [cand EXCEPT !.ask = "none"]
           o == IF output = "cancelled" THEN "normal" ELSE output
           s == [Now EXCEPT !.out = o]
<1>1. c \in Candidates /\ c.live = cand.live /\ c.key = cand.key
  BY NowOK, AskedOK DEF Asks
<1>2. o \in Outputs
  BY NowOK DEF Outputs
<1>3. /\ s \in Made /\ s.out = o /\ s.timers = timers /\ s.armed = armed /\ s.turn = turn
      /\ s.recheck = recheck
  BY NowOK, <1>2 DEF Made, Now
<1>4. /\ cand' = c /\ output' = o /\ ~closed /\ (Typed \/ ~claimed \/ turn.state # "open")
      /\ UNCHANGED <<closed, speaking, turn, heard, since, claimed, verdicts, timers, armed, recheck>>
  BY DEF ReplyStarts
<1>5. ~Typed /\ UntypedInv => Standing(s) /\ Watched(s)
  <2>1. UntypedInv => Standing(Now) /\ Watched(Now)
    BY <1>4, NowOK, NowStands
  <2> QED
    BY <1>3, <1>4, <2>1, NowOK DEF Standing, Watched
<1> HIDE DEF c, o, s
<1>6. Keep(c, s)
  BY <1>3, <1>4 DEF Keep, Put
<1>7. OnStretch(c, s)
  BY <1>1, <1>3, <1>4, NowOK DEF OnStretch, SameStretch
<1> QED
  BY <1>1, <1>3, <1>4, <1>5, <1>6, <1>7, KeptByKeep

\* The end of a reply.
LEMMA ReplyEndsKept ==
    ASSUME OwnerInv, ReplyEnds
    PROVE  Kept
<1> DEFINE c == [cand EXCEPT !.ask = "none"]
<1>1. c \in Candidates /\ c.live = cand.live /\ c.key = cand.key
  BY NowOK, AskedOK DEF Asks
<1>2. /\ cand' = c /\ ~closed
      /\ UNCHANGED <<closed, speaking, turn, heard, output, since, claimed, verdicts, timers, armed, recheck>>
  BY DEF ReplyEnds
<1> HIDE DEF c
<1>3. Keep(c, Now)
  BY <1>2 DEF Keep, Put, Now
<1>4. OnStretch(c, Now)
  BY <1>1, <1>2, NowOK DEF OnStretch, SameStretch
<1>5. UntypedInv => Standing(Now) /\ Watched(Now)
  BY <1>2, NowOK, NowStands
<1> QED
  BY <1>1, <1>2, <1>3, <1>4, <1>5, NowOK, KeptByKeep

\* The client's preemption cancels the output.
LEMMA PreemptKept ==
    ASSUME OwnerInv, ExplicitPreempt
    PROVE  Kept
<1>1. /\ ~closed /\ UNCHANGED <<closed, speaking, heard, since>>
      /\ CancelAndInterrupt(cand, Now) \/ CancelSilentGeneration
  BY DEF ExplicitPreempt
<1>2. OnStretch(cand, Now)
  BY <1>1, NowOK DEF OnStretch, SameStretch
<1>3. UntypedInv => Standing(Now) /\ Watched(Now)
  BY <1>1, NowOK, NowStands
<1>4. CASE CancelAndInterrupt(cand, Now)
  <2>1. Effect(cand, Now) /\ (~Watched(Now)' => claimed)
    BY <1>4, NowOK, CancelEffect
  <2> QED
    BY <1>2, <1>3, <2>1, NowOK, KeptByEffect
<1>5. CASE CancelSilentGeneration
  <2> DEFINE s == OutputCancelled(Now)
  <2>1. s \in Made /\ s.out = "cancelled" /\ s.turn = turn
    BY NowOK, OutputCancelledOK
  <2>2. Keep(cand, s) /\ claimed' = claimed
    BY <1>5 DEF CancelSilentGeneration
  <2> HIDE DEF s
  <2>3. OnStretch(cand, s)
    BY <1>1, <2>1, NowOK DEF OnStretch, SameStretch
  <2> QED
    BY <2>1, <2>2, <2>3, NowOK, KeptByKeep DEF Standing, Watched
<1> QED
  BY <1>1, <1>4, <1>5

\* A time that grows older is a time.
LEMMA OlderOK ==
    ASSUME NEW age \in Age, NEW most \in Nat
    PROVE  Older(age, most) \in Age /\ (age \in Nat => Older(age, most) \in Nat)
BY DEF Older, Least, Age, NoTime

\* A deadline that sleeps goes on sleeping, however late it is.
LEMMA NearerOK ==
    ASSUME NEW t \in Timer
    PROVE  /\ [t EXCEPT !.left = Nearer(t.left)] \in Timer
           /\ t # Off => [t EXCEPT !.left = Nearer(t.left)] # Off
<1>1. CASE t = Off
  <2>1. [t EXCEPT !.left = Nearer(t.left)] = Off
    BY <1>1 DEF Off, NoTime, Nearer
  <2> QED
    BY <1>1, <2>1 DEF Timer
<1>2. CASE t \in [len : Nat, left : Nat]
  <2>1. Nearer(t.left) \in Nat
    BY <1>2 DEF Nearer
  <2>2. [t EXCEPT !.left = Nearer(t.left)] \in [len : Nat, left : Nat]
    BY <1>2, <2>1
  <2> QED
    BY <2>2 DEF Timer, Off, NoTime
<1> QED
  BY <1>1, <1>2 DEF Timer

\* Time passes.
LEMMA TickKept ==
    ASSUME OwnerInv, Tick
    PROVE  Kept
<1> DEFINE older == [cand EXCEPT !.age = Older(cand.age, Evidence), !.stop = Older(cand.stop, Evidence)]
           c == IF cand.live THEN older ELSE cand
           age == IF turn.state = "open" /\ turn.ended THEN Older(turn.age, Grace + 1) ELSE turn.age
           t == [turn EXCEPT !.age = age]
           ts == [i \in TimerIds |-> [timers[i] EXCEPT !.left = Nearer(timers[i].left)]]
           s == [Now EXCEPT !.timers = ts, !.turn = t]
<1>1. /\ cand' = c /\ turn' = t /\ timers' = ts /\ since' = Older(since, BufferMax) /\ ~closed
      /\ UNCHANGED <<closed, speaking, heard, output, claimed, verdicts, armed, recheck>>
  BY DEF Tick
<1>2. Evidence \in Nat /\ Grace + 1 \in Nat /\ BufferMax \in Nat
  BY InterruptionAssumption
<1>3. c \in Candidates /\ c.live = cand.live /\ c.key = cand.key
  <2>1. cand \in Candidates /\ cand.age \in Nat /\ cand.stop \in Age
    BY NowOK DEF Candidates
  <2>2. Older(cand.age, Evidence) \in Nat /\ Older(cand.stop, Evidence) \in Age
    BY <1>2, <2>1, OlderOK DEF Age
  <2>3. older \in Candidates /\ older.live = cand.live /\ older.key = cand.key
    BY <2>1, <2>2 DEF Candidates
  <2> QED
    BY <2>1, <2>3
<1>4. /\ t \in Turns /\ t.id = turn.id /\ t.gen = turn.gen /\ t.state = turn.state
      /\ t.ended = turn.ended
  <2>1. turn \in Turns /\ turn.age \in Nat
    BY NowOK DEF Turns
  <2>2. age \in Nat
    BY <1>2, <2>1, OlderOK DEF Age
  <2> HIDE DEF age
  <2> QED
    BY <2>1, <2>2 DEF Turns
<1>5. /\ ts \in [TimerIds -> Timer]
      /\ \A i \in TimerIds : timers[i] # Off => ts[i] # Off
  BY NowOK, NearerOK
<1>6. since' \in Nat
  BY <1>1, <1>2, NowOK, OlderOK DEF Age
<1> HIDE DEF c, t, ts
<1>7. /\ s \in Made /\ s.out = output /\ s.timers = ts /\ s.armed = armed /\ s.turn = t
      /\ s.recheck = recheck
  BY <1>4, <1>5, NowOK DEF Made, Now
<1> HIDE DEF s
<1>8. Keep(c, s)
  BY <1>1, <1>7 DEF Keep, Put
<1>9. OnStretch(c, s)
  BY <1>1, <1>3, <1>4, <1>6, <1>7, NowOK DEF OnStretch, SameStretch
<1>10. UntypedInv => Standing(s) /\ Watched(s)
  <2>1. UntypedInv => Standing(Now) /\ Watched(Now)
    BY <1>1, NowOK, NowStands
  <2> QED
    BY <1>4, <1>5, <1>7, <2>1, NowOK DEF Standing, Watched
<1> QED
  BY <1>1, <1>3, <1>7, <1>8, <1>9, <1>10, KeptByKeep

\* The session ends: the open turn is rejected, and nothing watches any more.
LEMMA CloseKept ==
    ASSUME OwnerInv, Close
    PROVE  Kept
<1> DEFINE r == Disarm(Now)
           t == IF turn.state = "open" THEN [turn EXCEPT !.state = "rejected"] ELSE turn
           s == [Now EXCEPT !.timers = r.timers, !.armed = 0, !.turn = t, !.recheck = FALSE]
<1>1. /\ cand' = cand /\ turn' = t /\ timers' = r.timers /\ armed' = 0 /\ recheck' = FALSE /\ closed'
      /\ UNCHANGED <<speaking, heard, since, output, claimed, verdicts>>
  BY DEF Close
<1>2. r.timers \in [TimerIds -> Timer]
  BY NowOK, DisarmedOK DEF Made
<1>3. t \in Turns /\ t.id = turn.id /\ t.gen = turn.gen /\ t.state # "open"
  BY NowOK DEF Turns, TurnStates
<1> HIDE DEF r, t
<1>4. /\ s \in Made /\ s.out = output /\ s.timers = r.timers /\ s.armed = 0 /\ s.turn = t
      /\ s.recheck = FALSE
  BY <1>2, <1>3, NowOK DEF Made, Now
<1> HIDE DEF s
<1>5. Keep(cand, s)
  BY <1>1, <1>4 DEF Keep, Put
<1>6. OnStretch(cand, s)
  BY <1>1, <1>3, <1>4, NowOK DEF OnStretch, SameStretch
<1>7. UntypedInv => Standing(s)
  BY <1>3, <1>4 DEF Standing, UntypedInv, ClaimStands
<1> QED
  BY <1>1, <1>4, <1>5, <1>6, <1>7, NowOK, KeptByKeep

-----------------------------------------------------------------------------
\* The start of a speech

\* The turn that speech begins is the open one, or of a generation that nobody has known.
LEMMA StartedTurnOK ==
    ASSUME OwnerInv
    PROVE  /\ StartedTurn \in Turns /\ StartedTurn.state = "open"
           /\ StartedTurn.id = turn.id => turn.state = "open"
           /\ \/ StartedTurn = turn /\ turn.state = "open" /\ ~turn.ended
              \/ StartedTurn.gen = turn.gen + 1
<1>1. turn \in Turns /\ turn.gen \in Nat /\ turn.id \in Nat
  BY NowOK DEF Turns
<1>2. CanMerge => turn.state = "open"
  BY DEF CanMerge
<1>3. CASE CanMerge /\ ~turn.ended
  BY <1>1, <1>2, <1>3 DEF StartedTurn
<1>4. CASE CanMerge /\ turn.ended
  <2> DEFINE g == turn.gen + 1
             t == [turn EXCEPT !.gen = g, !.ended = FALSE]
  <2>1. StartedTurn = t
    BY <1>4 DEF StartedTurn
  <2>2. g \in Nat
    BY <1>1
  <2> HIDE DEF g
  <2>3. t \in Turns /\ t.gen = g /\ t.state = turn.state
    BY <1>1, <2>2 DEF Turns
  <2> QED
    BY <1>2, <1>4, <2>1, <2>3 DEF g
<1>5. CASE ~CanMerge
  <2> DEFINE g == turn.gen + 1
             n == turn.id + 1
             t == [id |-> n, gen |-> g, state |-> "open", ended |-> FALSE, text |-> FALSE, age |-> 0]
  <2>1. StartedTurn = t
    BY <1>5 DEF StartedTurn
  <2>2. g \in Nat /\ n \in Nat /\ n # turn.id
    BY <1>1
  <2> HIDE DEF g, n
  <2>3. t \in Turns /\ t.gen = g /\ t.state = "open" /\ t.id = n
    BY <2>2 DEF Turns, TurnStates
  <2> QED
    BY <2>1, <2>2, <2>3 DEF g
<1> QED
  BY <1>3, <1>4, <1>5

\* What a start of speech does: r is what it makes of the output and its deadlines.
Started(r, window, ducks) ==
    /\ r \in Made /\ r.turn = StartedTurn /\ Put(r)
    /\ r.out = IF ducks THEN "suspended" ELSE output
    /\ ducks => output # "cancelled"
    /\ ~closed /\ closed' = closed /\ (turn.state = "open" => ~speaking /\ speaking')
    /\ speaking' \in BOOLEAN /\ heard' \in BOOLEAN /\ since' \in Nat
    /\ claimed' = (claimed /\ StartedTurn.id = turn.id)
    /\ \/ cand' = cand /\ verdicts' = verdicts
       \/ /\ output # "cancelled"
          /\ cand' = NewCandidate(KeyOf(StartedTurn))
          /\ ~(cand.live /\ cand.key = KeyOf(StartedTurn))
          /\ \/ cand.live /\ \E v : verdicts' = Recorded(cand.key, v)
             \/ ~cand.live /\ verdicts' = verdicts

\* A start of speech suspends the output, or not, and supersedes the candidate, or not.
LEMMA StartedShape ==
    ASSUME OwnerInv, NEW acoustic \in BOOLEAN, NEW window \in BOOLEAN, NEW ducks \in BOOLEAN,
           SpeechStarts(acoustic, window, ducks)
    PROVE  \E r : /\ Started(r, window, ducks)
                  /\ UntypedInv => Watched(r)
<1> DEFINE st == StartedTurn
           s1 == [Now EXCEPT !.turn = st]
           s2 == IF ducks THEN Duck(s1) ELSE s1
           starts == window /\ output # "cancelled"
           r == IF starts THEN Arm(s2) ELSE s2
<1>1. st \in Turns
  BY StartedTurnOK
<1>2. /\ ~closed /\ closed' = closed
      /\ IF acoustic THEN ~speaking ELSE turn.state # "open"
      /\ window => HasSlot(Now)
      /\ ducks => window /\ output # "cancelled"
      /\ speaking' = (speaking \/ acoustic)
      /\ heard' = FALSE /\ claimed' = (claimed /\ st.id = turn.id)
      /\ since' = IF ducks THEN 0 ELSE since
      /\ IF starts THEN StartCandidate(Arm(s2)) ELSE Keep(cand, s2)
  BY DEF SpeechStarts
<1> HIDE DEF st
<1>3. s1 \in Made /\ s1.out = output /\ s1.timers = timers /\ s1.armed = armed /\ s1.turn = st
  BY <1>1, WithTurnOK
<1> HIDE DEF s1
<1>4. window => HasSlot(s1)
  BY <1>2, <1>3, NowOK DEF HasSlot, Free
<1>5. /\ s2 \in Made /\ s2.turn = st /\ s2.out = IF ducks THEN "suspended" ELSE output
      /\ window => HasSlot(s2)
  BY <1>2, <1>3, <1>4, DuckOK
<1>6. UntypedInv => Watched(s2)
  <2>1. CASE ducks
    BY <1>2, <1>3, <1>4, <2>1, DuckOK
  <2>2. CASE ~ducks
    BY <1>2, <1>3, <2>2 DEF UntypedInv, SuspensionIsWatched, Watched
  <2> QED
    BY <2>1, <2>2
<1> HIDE DEF s2
<1>7. r \in Made /\ r.turn = st /\ r.out = s2.out /\ (UntypedInv => Watched(r))
  BY <1>5, <1>6, ArmOK
<1>8. IF starts THEN StartCandidate(r) ELSE Keep(cand, r)
  BY <1>2
<1> HIDE DEF r
<1>9. /\ Put(r)
      /\ \/ cand' = cand /\ verdicts' = verdicts
         \/ /\ output # "cancelled"
            /\ cand' = NewCandidate(KeyOf(st))
            /\ ~(cand.live /\ cand.key = KeyOf(st))
            /\ \/ cand.live /\ \E v : verdicts' = Recorded(cand.key, v)
               \/ ~cand.live /\ verdicts' = verdicts
  <2>1. CASE starts
    BY <1>7, <1>8, <2>1 DEF StartCandidate, Keep
  <2>2. CASE ~starts
    BY <1>8, <2>2 DEF Keep
  <2> QED
    BY <2>1, <2>2
<1>10. Started(r, window, ducks)
  BY <1>2, <1>5, <1>7, <1>9, NowOK DEF Started, st
<1> QED
  BY <1>7, <1>10

\* A start of speech begins a candidate of an unjudged generation: of a new one, or of the open
\* stretch of a turn, whose verdict, had it one, would have claimed the stop of the playback.
LEMMA StartKept ==
    ASSUME OwnerInv, NEW acoustic \in BOOLEAN, NEW window \in BOOLEAN, NEW ducks \in BOOLEAN,
           SpeechStarts(acoustic, window, ducks)
    PROVE  Kept
<1>1. PICK r : Started(r, window, ducks) /\ (UntypedInv => Watched(r))
  BY StartedShape
<1> DEFINE st == StartedTurn
<1>2. /\ st \in Turns /\ st.state = "open"
      /\ st.id = turn.id => turn.state = "open"
      /\ \/ st = turn /\ turn.state = "open" /\ ~turn.ended
         \/ st.gen = turn.gen + 1
  BY StartedTurnOK
<1>3. /\ Now' \in Made /\ turn' = st /\ output' = r.out /\ (Watched(Now)' <=> Watched(r))
  BY <1>1, PutOK DEF Started
<1>4. /\ r.out = IF ducks THEN "suspended" ELSE output
      /\ ducks => output # "cancelled"
      /\ ~closed /\ closed' = closed /\ (turn.state = "open" => ~speaking /\ speaking')
      /\ speaking' \in BOOLEAN /\ heard' \in BOOLEAN /\ since' \in Nat
      /\ claimed' = (claimed /\ st.id = turn.id)
      /\ \/ cand' = cand /\ verdicts' = verdicts
         \/ /\ output # "cancelled"
            /\ cand' = NewCandidate(KeyOf(st))
            /\ ~(cand.live /\ cand.key = KeyOf(st))
            /\ \/ cand.live /\ \E v : verdicts' = Recorded(cand.key, v)
               \/ ~cand.live /\ verdicts' = verdicts
  BY <1>1 DEF Started
<1> HIDE DEF st
<1>5. KeyOf(st) \in Key /\ KeyOf(st).gen = st.gen /\ KeyOf(turn).gen = turn.gen
      /\ turn.gen \in Nat /\ st.gen \in Nat
  BY <1>2, NowOK, KeyOfOK DEF Turns
<1>6. \/ verdicts' = verdicts
      \/ /\ cand.live /\ cand.key # KeyOf(st)
         /\ DOMAIN verdicts' = DOMAIN verdicts \cup {cand.key}
         /\ \A k \in DOMAIN verdicts : k # cand.key => verdicts'[k] = verdicts[k]
  BY <1>4 DEF Recorded
<1>7. /\ cand' \in Candidates
      /\ \/ cand' = cand
         \/ /\ cand'.live /\ cand'.key = KeyOf(st) /\ output # "cancelled"
            /\ ~(cand.live /\ cand.key = KeyOf(st))
  BY <1>4, <1>5, NowOK, NewCandidateOK
<1>8. \A k \in DOMAIN verdicts : k \in Key /\ k.gen \in Nat /\ k.gen <= turn.gen
  BY DEF OwnerInv, KnownKeys, Key
<1>9. cand.live => cand.key \in Key /\ cand.key.gen \in Nat /\ cand.key.gen <= turn.gen
  BY NowOK DEF OwnerInv, KnownKeys, Candidates, Key
<1>10. st.gen = turn.gen + 1 => KeyOf(st) \notin DOMAIN verdicts /\ KeyOf(st) \notin DOMAIN verdicts'
  BY <1>5, <1>6, <1>8, <1>9
<1>11. turn.gen <= st.gen
  BY <1>2, <1>5
<1>12. OwnerInv'
  <2>1. StateOK'
    <3>1. claimed' \in BOOLEAN
      BY <1>4
    <3> QED
      BY <1>3, <1>4, <1>7, <3>1 DEF StateOK
  <2>2. KnownKeys'
    <3>1. \A k \in DOMAIN verdicts' : k \in Key /\ k.gen <= turn'.gen
      BY <1>3, <1>5, <1>6, <1>8, <1>9, <1>11
    <3>2. cand'.live => cand'.key.gen <= turn'.gen
      BY <1>3, <1>5, <1>7, <1>9, <1>11
    <3> QED
      BY <3>1, <3>2 DEF KnownKeys
  <2>3. JudgedHasClaimed'
    <3>1. KeyOf(turn)' = KeyOf(st)
      BY <1>3 DEF KeyOf
    <3> QED
      BY <1>2, <1>3, <1>4, <1>10, <3>1 DEF JudgedHasClaimed
  <2>4. RefusedIsDisposedOf'
    <3>1. KeyOf(turn)' = KeyOf(st)
      BY <1>3 DEF KeyOf
    <3>2. CASE st = turn /\ turn.state = "open"
      BY <1>6, <3>1, <3>2 DEF OwnerInv, RefusedIsDisposedOf
    <3>3. CASE st.gen = turn.gen + 1
      BY <1>10, <3>1, <3>3 DEF RefusedIsDisposedOf
    <3> QED
      BY <1>2, <3>2, <3>3
  <2> QED
    BY <2>1, <2>2, <2>3, <2>4 DEF OwnerInv
<1>13. ASSUME UntypedInv
       PROVE  UntypedInv' /\ FinalStep /\ SparesStep
  <2>1. SuspensionIsWatched'
    BY <1>1, <1>3, <1>13 DEF SuspensionIsWatched, Watched, Now
  <2>2. ClaimStands'
    BY <1>2, <1>3, <1>4, <1>13 DEF UntypedInv, ClaimStands
  <2>3. LiveIsUnjudged'
    <3>1. CASE cand' = cand
      <4>1. verdicts' = verdicts
        BY <1>4, <1>5, <3>1, NewCandidateOK
      <4> QED
        BY <1>13, <3>1, <4>1 DEF UntypedInv, LiveIsUnjudged
    <3>2. CASE cand' # cand
      <4>1. KeyOf(st) \notin DOMAIN verdicts
        <5>1. CASE st = turn /\ turn.state = "open" /\ ~turn.ended
          BY <1>4, <1>7, <1>13, <3>2, <5>1
             DEF OwnerInv, JudgedHasClaimed, UntypedInv, ClaimStands
        <5> QED
          BY <1>2, <1>10, <5>1
      <4> QED
        BY <1>6, <1>7, <3>2, <4>1 DEF LiveIsUnjudged
    <3> QED
      BY <3>1, <3>2
  <2>4. FinalStep
    BY <1>6, <1>13 DEF FinalStep, UntypedInv, LiveIsUnjudged
  <2>5. SparesStep
    BY <1>2, <1>3 DEF SparesStep
  <2> QED
    BY <2>1, <2>2, <2>3, <2>4, <2>5 DEF UntypedInv
<1> QED
  BY <1>12, <1>13 DEF Kept

-----------------------------------------------------------------------------
\* Nothing is suspended, claimed or judged.
LEMMA InitOwner ==
    ASSUME Init
    PROVE  OwnerInv /\ UntypedInv
<1>1. /\ turn = [id |-> 0, gen |-> 0, state |-> "none", ended |-> TRUE, text |-> FALSE, age |-> 0]
      /\ timers = [i \in TimerIds |-> Off] /\ armed = 0 /\ recheck = FALSE /\ output = "normal"
      /\ claimed = FALSE /\ speaking = FALSE /\ heard = FALSE /\ since = 0
      /\ cand = NoCandidate /\ verdicts = <<>>
  BY DEF Init
<1>2. turn \in Turns /\ turn.state = "none"
  BY <1>1 DEF Turns, TurnStates
<1>3. timers \in [TimerIds -> Timer] /\ armed \in {0} \cup TimerIds
  BY <1>1 DEF Timer
<1>4. Now \in Made
  BY <1>1, <1>2, <1>3 DEF Now, Made, Outputs
<1>5. DOMAIN verdicts = {}
  BY <1>1
<1>6. OwnerInv
  BY <1>1, <1>2, <1>4, <1>5, NoCandidateOK
     DEF OwnerInv, StateOK, KnownKeys, JudgedHasClaimed, RefusedIsDisposedOf
<1>7. UntypedInv
  BY <1>1, <1>2, NoCandidateOK DEF UntypedInv, SuspensionIsWatched, ClaimStands, LiveIsUnjudged
<1> QED
  BY <1>6, <1>7

\* Every step.
LEMMA StepKept ==
    ASSUME OwnerInv, [Next]_vars
    PROVE  Kept
<1>1. CASE UNCHANGED vars
  <2>1. Unchanged /\ UNCHANGED <<closed, speaking, heard, since>>
    BY <1>1 DEF vars, Unchanged
  <2> QED
    BY <2>1, QuietKept
<1>2. CASE \E a, w, d \in BOOLEAN : SpeechStarts(a, w, d) \/ TranscriptArrives(a, w, d)
  BY <1>2, StartKept, TranscriptKept
<1>3. CASE SpeechStops \/ RecheckFires
  BY <1>3, StopKept, RecheckKept
<1>4. CASE \E i \in TimerIds : DeadlineFires(i)
  BY <1>4, DeadlineKept
<1>5. CASE \E a \in {"reply", "stop", "noise", "unsure"} : IntentIsKnown(a)
  BY <1>5, IntentKept
<1>6. CASE EndpointBegins \/ EndpointWaits \/ EndpointWakes \/ EndpointTimesOut \/ EndpointCancelled
  <2>1. Unchanged /\ UNCHANGED <<closed, speaking, heard, since>>
    BY <1>6 DEF EndpointBegins, EndpointWaits, EndpointWakes, EndpointTimesOut, EndpointCancelled
  <2> QED
    BY <2>1, QuietKept
<1>7. CASE EndpointDecides
  BY <1>7, EndpointKept
<1>8. CASE \E ok \in BOOLEAN : Complete(ok)
  BY <1>8, CompleteKept
<1>9. CASE ReplyStarts \/ ReplyEnds \/ ExplicitPreempt
  BY <1>9, ReplyStartsKept, ReplyEndsKept, PreemptKept
<1>10. CASE Tick \/ Close
  BY <1>10, TickKept, CloseKept
<1> QED
  BY <1>1, <1>2, <1>3, <1>4, <1>5, <1>6, <1>7, <1>8, <1>9, <1>10 DEF Next

-----------------------------------------------------------------------------
\* The invariant of the owner.
THEOREM InterruptionOwner == Spec => []OwnerInv
<1>1. Init => OwnerInv
  BY InitOwner
<1>2. OwnerInv /\ [Next]_vars => OwnerInv'
  BY StepKept DEF Kept
<1> QED
  BY <1>1, <1>2, PTL DEF Spec

\* Words that the owner has refused never reach the model.
THEOREM InterruptionRefuses == Spec => []RefusedIsDisposedOf
<1>1. OwnerInv => RefusedIsDisposedOf
  BY DEF OwnerInv
<1> QED
  BY <1>1, InterruptionOwner, PTL

\* What holds besides, unless a reply may begin in a turn that has stopped another.
LEMMA UntypedHolds ==
    ASSUME ~Typed
    PROVE  Spec => []UntypedInv
<1>1. Init => UntypedInv
  BY InitOwner
<1>2. OwnerInv /\ UntypedInv /\ [Next]_vars => UntypedInv'
  BY StepKept DEF Kept
<1> QED
  BY <1>1, <1>2, InterruptionOwner, PTL DEF Spec

\* A suspended output has a deadline that sleeps.
THEOREM InterruptionWatched ==
    ASSUME ~Typed
    PROVE  Spec => []SuspensionIsWatched
<1>1. UntypedInv => SuspensionIsWatched
  BY DEF UntypedInv
<1> QED
  BY <1>1, UntypedHolds, PTL

\* A generation is judged once, and for itself alone.
THEOREM InterruptionJudgesOnce ==
    ASSUME ~Typed
    PROVE  Spec => JudgedOnce
<1>1. OwnerInv /\ UntypedInv /\ [Next]_vars => FinalStep /\ SparesStep
  BY StepKept DEF Kept
<1>2. Spec => [][FinalStep /\ SparesStep]_vars
  BY <1>1, UntypedHolds, InterruptionOwner, PTL DEF Spec
<1>3. FinalStep /\ SparesStep =>
         \A k \in DOMAIN verdicts : k \in DOMAIN verdicts' /\ verdicts'[k] = verdicts[k]
  BY DEF FinalStep
<1>4. FinalStep /\ SparesStep =>
         \A k \in DOMAIN verdicts' \ DOMAIN verdicts :
            turn.state = "open" /\ turn' # turn /\ KeyOf(turn) # k => turn'.state # "rejected"
  BY DEF SparesStep
<1>5. Spec => VerdictIsFinal
  BY <1>2, <1>3, PTL DEF VerdictIsFinal
<1>6. Spec => LateVerdictSpares
  BY <1>2, <1>4, PTL DEF LateVerdictSpares
<1> QED
  BY <1>5, <1>6 DEF JudgedOnce
=============================================================================
