---------------------------- MODULE OutputProofs ----------------------------
(*************************************************************************)
(* What the agent says: the gate its audio passes (OutputGate) and the   *)
(* connections it is synthesized over (SpeechPool), for any number of    *)
(* frames, generations and suspensions, of connections, callers, outages *)
(* and losses.                                                           *)
(*                                                                       *)
(* OutputGate. GateInv: of two writers one holds the lock (Locks);       *)
(* frames are captured in their order and no others are about (Counted); *)
(* the frame under way is of this generation or void (Generations); with *)
(* a sink that pauses, what is heard, under way, held back and at the    *)
(* caller is in line (InLine); and a frame is somewhere, or was dropped  *)
(* for a reason (NothingLost). Cancellation voids what is under way      *)
(* before it counts the generation, which is why nothing of an older     *)
(* generation is heard.                                                  *)
(*                                                                       *)
(* SpeechPool. TurnsAreSeparate is inductive with the type invariant: a  *)
(* caller is given a connection that is pooled or has just been made, no *)
(* other caller holds one of these, and the pool refills with, disposes  *)
(* of and drains connections that no turn holds. What the proof rests on *)
(* is that fresh identities are free ones, which takes a subset of the   *)
(* right size to exist. TargetInv is what WaitersAreProvidedFor and      *)
(* PoolKeepsToTarget need: a pool that fits its target makes no surplus, *)
(* so that nothing that is on its way is lost to those who wait; a       *)
(* refill fills the pool exactly; and shutdown leaves nobody that could  *)
(* put a connection.                                                     *)
(*************************************************************************)
EXTENDS OutputGate, SpeechPool, FiniteSetTheorems, FunctionTheorems, SequenceTheorems, TLAPS

(* OutputGate *)

Stages == {"none", "created", "started", "done", "void"}
Writes == [frame : 0 .. MaxFrames, own : BOOLEAN, rest : BOOLEAN, stage : Stages]
Calls == [pc : {"off", "idle", "queued", "writing", "blocked"}, frame : 0 .. MaxFrames, gen : 0 .. MaxGen]

\* The types of the state, without the bounds that GateTypeOK states of it.
Typed ==
    /\ mode \in {"NORMAL", "SUSPENDED", "CANCELLED"} /\ gen \in 1 .. MaxGen
    /\ buffer \in Seq(Frames) /\ heard \in Seq(Frames)
    /\ pausing \in BOOLEAN /\ fade \in BOOLEAN /\ pass \in BOOLEAN /\ paused \in BOOLEAN
    /\ seg \in BOOLEAN /\ sinkOpen \in BOOLEAN /\ flushing \in BOOLEAN /\ clearing \in BOOLEAN
    /\ lock \in {"free", "producer", "drain", "dying"}
    /\ drain \in {"none", "waiting", "holding", "failed"}
    /\ write \in Writes /\ caller \in Calls
    /\ admitted \in [Frames -> 0 .. MaxGen] /\ dropped \subseteq 0 .. MaxFrames

Live == write.stage \in {"created", "started"}
Busy == caller.pc \in {"queued", "blocked", "writing"}

\* Who holds the lock, and what may be written under it.
Locks ==
    /\ (lock = "producer") = (caller.pc \in {"writing", "blocked"})
    /\ (lock = "drain") = (drain = "holding")
    /\ lock = "free" \/ caller.pc = "blocked" => write = NoWrite
    /\ write.stage = "none" => write = NoWrite
    /\ lock = "dying" => ~Live
    /\ write.own => lock = "producer"
    /\ caller.pc = "writing" \/ lock = "drain" => write.stage # "none"
    /\ lock = "drain" => write.stage # "void"

\* Frames are captured in their order, and no others are about.
Counted ==
    /\ Captured = 1 .. Cardinality(Captured)
    /\ \A i \in DOMAIN buffer : buffer[i] \in Captured
    /\ \A i \in DOMAIN heard : heard[i] \in Captured
    /\ write.stage # "none" => write.frame \in Captured
    /\ write.own => write.frame = caller.frame
    /\ Busy => caller.frame \in Captured /\ caller.frame = Cardinality(Captured)
    /\ Busy => caller.gen = admitted[caller.frame]

\* What is held back or being written is of this generation.
Generations ==
    /\ \A f \in Frames : admitted[f] <= gen
    /\ \A i \in DOMAIN buffer : admitted[buffer[i]] = gen
    /\ Live => admitted[write.frame] = gen
    /\ write.stage = "void" => admitted[write.frame] < gen
    /\ write.stage = "done" => write.frame \in Range(heard)

\* Where a suspension pauses the sink, nothing passes it.
Pauses ==
    pausing => /\ ~fade /\ ~pass /\ ~write.rest
               /\ mode = "SUSPENDED" => paused

\* The way to the ear: what is heard, what is being written, what is held back.
InLine ==
    /\ Increasing(heard) /\ Increasing(buffer)
    /\ \A i \in DOMAIN heard, j \in DOMAIN buffer : heard[i] <= buffer[j]
    /\ Live => /\ \A i \in DOMAIN heard : heard[i] <= write.frame
               /\ \A j \in DOMAIN buffer : write.frame <= buffer[j]

\* The generations that an interruption and a failure are still to bring fit the bound, as
\* does what is held back.
Bounds ==
    /\ gen + Owed <= MaxGen
    /\ Len(buffer) <= IF Room = 0 THEN 1 ELSE Room

GateInv ==
    /\ Typed /\ Bounds /\ Locks /\ Counted /\ Generations /\ Pauses
    /\ pausing => InLine
    /\ NothingLost

\* What is open at the sink, written or held back belongs to an open segment.
Sealed ==
    /\ sinkOpen => seg
    /\ Live \/ buffer # <<>> => seg
    /\ caller.pc \in {"writing", "blocked"} /\ ~Stale => seg

-----------------------------------------------------------------------------
\* Types of what the steps construct.
LEMMA Records ==
    /\ NoWrite \in Writes /\ NoCall \in Calls
    /\ \A f \in 0 .. MaxFrames, own, rest \in BOOLEAN :
          [frame |-> f, own |-> own, rest |-> rest, stage |-> "created"] \in Writes
    /\ \A w \in Writes, s \in Stages : [w EXCEPT !.stage = s] \in Writes
    /\ \A c \in Calls, s \in {"off", "idle", "queued", "writing", "blocked"} : [c EXCEPT !.pc = s] \in Calls
    /\ Frames \subseteq 0 .. MaxFrames
<1>1. MaxFrames \in Nat /\ MaxGen \in Nat
  BY GateAssumption
<1> QED
  BY <1>1 DEF NoWrite, NoCall, Writes, Calls, Stages, Frames

\* A step in which nothing moves on: what is somewhere stays there, or is dropped, or
\* returns to the SDK when it is heard or out of date.
Rests ==
    /\ UNCHANGED <<pausing, gen, heard, admitted>> /\ dropped \subseteq dropped'
    /\ buffer' = buffer \/ (buffer' = <<>> /\ Range(buffer) \subseteq dropped')
    /\ \/ write' = write
       \/ Live /\ write' = [write EXCEPT !.stage = "started"]
       \/ write' = NoWrite /\ (Live => write.frame \in dropped')
    /\ Busy' => Busy /\ caller'.frame = caller.frame /\ caller'.gen = caller.gen
    /\ Busy => \/ Busy' \/ caller.frame \in dropped' \cup Range(heard)
               \/ admitted[caller.frame] < gen

\* A step in which nothing moves on preserves the invariant.
LEMMA RestsInv ==
    ASSUME GateInv, Rests, Typed', Bounds', Locks', Pauses' PROVE GateInv'
<1> USE DEF GateInv, Rests
<1>1. Counted'
  BY DEF Counted, Captured, Typed, Locks, Live, Busy, NoWrite, Writes, Stages
<1>2. Generations'
  <2>1. \A i \in DOMAIN buffer' : admitted[buffer'[i]] = gen
    BY DEF Generations
  <2>2. CASE write' = write
    BY <2>1, <2>2 DEF Generations, Live
  <2>3. CASE Live /\ write' = [write EXCEPT !.stage = "started"]
    BY <2>1, <2>3 DEF Generations, Live, Typed, Writes
  <2>4. CASE write' = NoWrite
    BY <2>1, <2>4 DEF Generations, Live, NoWrite
  <2> QED
    BY <2>2, <2>3, <2>4
<1>3. pausing => InLine'
  <2>1. pausing => /\ Increasing(heard) /\ Increasing(buffer')
                  /\ \A i \in DOMAIN heard, j \in DOMAIN buffer' : heard[i] <= buffer'[j]
    BY DEF InLine, Increasing
  <2>2. Live' => Live /\ write'.frame = write.frame
    BY DEF Live, NoWrite, Typed, Writes
  <2>3. \A j \in DOMAIN buffer' : j \in DOMAIN buffer /\ buffer'[j] = buffer[j]
    OBVIOUS
  <2> QED
    BY <2>1, <2>2, <2>3 DEF InLine
<1>4. NothingLost'
  <2> SUFFICES ASSUME NEW f \in Frames, admitted[f] = gen
               PROVE  \/ f \in Range(heard) \cup Range(buffer') \cup {write'.frame} \cup dropped'
                      \/ Busy' /\ caller'.frame = f
    BY DEF NothingLost, Busy
  <2>1. CASE f \in Range(heard) \cup dropped
    BY <2>1
  <2>2. CASE f \in Range(buffer)
    BY <2>2
  <2>3. CASE f = write.frame
    BY <2>3 DEF Generations, Typed, Live, Locks, NoWrite, Writes, Stages, Frames
  <2>4. CASE Busy /\ caller.frame = f
    BY <2>4 DEF Typed
  <2> QED
    BY <2>1, <2>2, <2>3, <2>4 DEF NothingLost, Busy
<1> QED
  BY <1>1, <1>2, <1>3, <1>4

\* The first frame held back is taken to be written.
LEMMA TakesInv ==
    ASSUME GateInv, ~Live, buffer # <<>>, buffer' = Tail(buffer), StartWrite(Head(buffer), FALSE, FALSE),
           UNCHANGED <<pausing, gen, heard, admitted, dropped>>,
           Busy' = Busy, caller'.frame = caller.frame, caller'.gen = caller.gen,
           Typed', Bounds', Locks', Pauses'
    PROVE  GateInv'
<1> USE DEF GateInv, StartWrite
<1>1. /\ Head(buffer) = buffer[1] /\ 1 \in DOMAIN buffer /\ DOMAIN buffer = 1 .. Len(buffer)
      /\ DOMAIN buffer' = 1 .. Len(buffer) - 1 /\ Len(buffer) \in Nat
      /\ \A i \in DOMAIN buffer' : i + 1 \in DOMAIN buffer /\ buffer'[i] = buffer[i + 1]
      /\ \A i \in DOMAIN buffer : i = 1 \/ (i - 1 \in DOMAIN buffer' /\ buffer[i] = buffer'[i - 1])
  <2>1. buffer \in Seq(Frames) /\ Len(buffer) \in Nat /\ DOMAIN buffer = 1 .. Len(buffer)
    BY DEF Typed
  <2>2. Len(buffer) > 0 /\ Head(buffer) = buffer[1]
    BY <2>1
  <2>3. /\ Len(buffer') = Len(buffer) - 1 /\ DOMAIN buffer' = 1 .. Len(buffer')
        /\ \A i \in 1 .. Len(buffer') : buffer'[i] = buffer[i + 1]
    BY <2>1, HeadTailProperties, LenProperties
  <2> QED
    BY <2>1, <2>2, <2>3
<1>2. Counted'
  BY <1>1 DEF Counted, Captured, Typed
<1>3. Generations'
  BY <1>1 DEF Generations, Typed, Live
<1>4. pausing => InLine'
  <2>1. pausing => Increasing(buffer')
    BY <1>1 DEF InLine, Increasing
  <2>2. pausing => \A i \in DOMAIN heard, j \in DOMAIN buffer' : heard[i] <= buffer'[j]
    BY <1>1 DEF InLine
  <2>3. pausing => /\ \A i \in DOMAIN heard : heard[i] <= write'.frame
                  /\ \A j \in DOMAIN buffer' : write'.frame <= buffer'[j]
    BY <1>1 DEF InLine, Increasing
  <2> QED
    BY <2>1, <2>2, <2>3 DEF InLine
<1>5. NothingLost'
  <2> SUFFICES ASSUME NEW f \in Frames, admitted[f] = gen
               PROVE  \/ f \in Range(heard) \cup Range(buffer') \cup {write'.frame} \cup dropped'
                      \/ Busy' /\ caller'.frame = f
    BY DEF NothingLost, Busy
  <2>1. CASE f \in Range(heard) \cup dropped
    BY <2>1
  <2>2. CASE f \in Range(buffer)
    BY <2>2, <1>1 DEF Range
  <2>3. CASE f = write.frame
    BY <2>3 DEF Generations, Typed, Live, Locks, NoWrite, Writes, Stages, Frames
  <2>4. CASE Busy /\ caller.frame = f
    BY <2>4 DEF Typed
  <2> QED
    BY <2>1, <2>2, <2>3, <2>4 DEF NothingLost, Busy
<1> QED
  BY <1>2, <1>3, <1>4, <1>5

\* The caller writes its own frame: where a suspension pauses the sink, only once nothing is held back.
LEMMA WritesOwnInv ==
    ASSUME GateInv, ~Live, Busy, ~Stale, NEW rest \in BOOLEAN, StartWrite(caller.frame, TRUE, rest),
           pausing => buffer = <<>>,
           UNCHANGED <<pausing, gen, heard, admitted, dropped, buffer>>,
           Busy', caller'.frame = caller.frame, caller'.gen = caller.gen,
           Typed', Bounds', Locks', Pauses'
    PROVE  GateInv'
<1> USE DEF GateInv, StartWrite
<1>1. caller.frame \in Frames /\ admitted[caller.frame] = gen
  BY DEF Counted, Captured, Generations, Stale, Typed, Calls
<1>2. Counted'
  BY <1>1 DEF Counted, Captured, Typed
<1>3. Generations'
  BY <1>1 DEF Generations, Typed, Live
<1>4. pausing => InLine'
  <2>1. \A i \in DOMAIN heard : heard[i] <= caller.frame
    BY DEF Counted, Typed, Captured
  <2> QED
    BY <2>1 DEF InLine, Increasing, Typed, Live
<1>5. NothingLost'
  BY DEF NothingLost, Busy, Generations, Typed, Live, Locks, NoWrite, Writes, Stages, Frames
<1> QED
  BY <1>2, <1>3, <1>4, <1>5

\* The caller's frame is held back behind the others.
LEMMA HoldsBackInv ==
    ASSUME GateInv, ~Live, Busy, ~Stale, buffer' = Append(buffer, caller.frame), write' = NoWrite,
           UNCHANGED <<pausing, gen, heard, admitted, dropped>>, ~Busy',
           Typed', Bounds', Locks', Pauses'
    PROVE  GateInv'
<1> USE DEF GateInv
<1>1. caller.frame \in Frames /\ admitted[caller.frame] = gen
  BY DEF Counted, Captured, Generations, Stale, Typed, Calls
<1>2. /\ DOMAIN buffer = 1 .. Len(buffer) /\ DOMAIN buffer' = 1 .. Len(buffer) + 1 /\ Len(buffer) \in Nat
      /\ \A i \in DOMAIN buffer : i \in DOMAIN buffer' /\ buffer'[i] = buffer[i]
      /\ buffer'[Len(buffer) + 1] = caller.frame
  BY <1>1 DEF Typed
<1>3. Counted'
  <2>1. \A i \in DOMAIN buffer' : buffer'[i] \in Captured
    BY <1>1, <1>2 DEF Counted, Typed
  <2> QED
    BY <2>1 DEF Counted, Captured, NoWrite
<1>4. Generations'
  BY <1>1, <1>2 DEF Generations, Typed, Live, NoWrite
<1>5. pausing => InLine'
  <2>1. /\ \A i \in DOMAIN heard : heard[i] <= caller.frame
        /\ \A i \in DOMAIN buffer : buffer[i] <= caller.frame
    BY DEF Counted, Typed, Captured
  <2> QED
    BY <1>1, <1>2, <2>1 DEF InLine, Increasing, Typed, Live, NoWrite, Frames
<1>6. NothingLost'
  <2>1. Range(buffer) \subseteq Range(buffer') /\ caller.frame \in Range(buffer')
    BY <1>2 DEF Range
  <2> QED
    BY <2>1 DEF NothingLost, Busy, Generations, Typed, Live, Locks, NoWrite, Writes, Stages, Frames
<1> QED
  BY <1>3, <1>4, <1>5, <1>6

\* The sink has taken the frame.
LEMMA AcceptedInv ==
    ASSUME GateInv, WriteAccepted PROVE GateInv'
<1> USE DEF GateInv, WriteAccepted
<1>1. write.frame \in Frames /\ Live /\ write.frame \in Captured
  BY DEF Live, Counted, Captured
<1>2. /\ DOMAIN heard = 1 .. Len(heard) /\ DOMAIN heard' = 1 .. Len(heard) + 1 /\ Len(heard) \in Nat
      /\ \A i \in DOMAIN heard : i \in DOMAIN heard' /\ heard'[i] = heard[i]
      /\ heard'[Len(heard) + 1] = write.frame
  BY <1>1 DEF Typed
<1>3. /\ Range(heard) \subseteq Range(heard') /\ write.frame \in Range(heard')
  BY <1>2 DEF Range
<1>4. Typed' /\ Bounds'
  <2>1. write' \in Writes
    BY Records DEF Typed, Stages
  <2>2. heard' \in Seq(Frames)
    BY <1>1, AppendProperties DEF Typed
  <2> QED
    BY <2>1, <2>2 DEF Typed, Bounds, Owed, control, segment
<1>5. Locks'
  BY DEF Locks, Live, Typed, Writes, control, segment, NoWrite
<1>6. Counted'
  BY <1>1, <1>2 DEF Counted, Captured, Typed, Busy, Writes
<1>7. Generations'
  BY <1>1, <1>3 DEF Generations, Typed, Live, Writes
<1>8. Pauses'
  BY DEF Pauses, Typed, Writes, control
<1>9. pausing => InLine'
  BY <1>1, <1>2 DEF InLine, Increasing, Typed, Live, Writes, Frames
<1>10. NothingLost'
  BY <1>3 DEF NothingLost, Typed, Writes
<1> QED
  BY <1>4, <1>5, <1>6, <1>7, <1>8, <1>9, <1>10

\* Another frame is captured: the next in number, of this generation.
LEMMA CaptureInv ==
    ASSUME GateInv, Capture PROVE GateInv'
<1> USE DEF GateInv, Capture
<1> DEFINE f == Cardinality(Captured) + 1
<1>1. Cardinality(Captured) \in Nat
  <2>1. IsFiniteSet(1 .. MaxFrames)
    BY FS_Interval, GateAssumption
  <2>2. IsFiniteSet(Captured)
    BY <2>1, FS_Subset DEF Captured, Frames
  <2> QED
    BY <2>2, FS_CardinalityType
<1>2. /\ f \in Frames /\ f \notin Captured /\ Captured = 1 .. f - 1 /\ gen \in 1 .. MaxGen
      /\ \A c \in Captured : c < f
  BY <1>1, GateAssumption DEF Counted, Frames, Typed
<1>3. /\ caller'.frame = f /\ caller'.gen = gen /\ caller'.pc = "queued" /\ Busy' /\ ~Busy
      /\ admitted'[f] = gen /\ \A g \in Frames : g # f => admitted'[g] = admitted[g]
  BY <1>2 DEF Typed, Busy
<1>4. Captured' = 1 .. f /\ Cardinality(Captured') = f
  <2>1. Captured' = Captured \cup {f}
    BY <1>2, <1>3 DEF Captured
  <2>2. Captured' = 1 .. f
    BY <1>1, <1>2, <2>1
  <2> QED
    BY <1>1, <2>2, FS_Interval
<1>5. Typed'
  <2>1. caller' \in Calls /\ admitted' \in [Frames -> 0 .. MaxGen]
    BY <1>2, GateAssumption DEF Typed, Calls, Frames
  <2> QED
    BY <2>1 DEF Typed, control, segment
<1>6. Bounds' /\ Locks' /\ Pauses'
  BY <1>3 DEF Bounds, Owed, Locks, Live, Pauses, control
<1>7. Counted'
  <2>1. Captured \subseteq Captured'
    BY <1>1, <1>2, <1>4
  <2>2. ~write.own
    BY DEF Locks
  <2>3. UNCHANGED <<buffer, heard, write>>
    OBVIOUS
  <2>4. f \in Captured' /\ Captured' = 1 .. Cardinality(Captured') /\ Cardinality(Captured') = f
    BY <1>1, <1>4
  <2> QED
    BY <1>3, <2>1, <2>2, <2>3, <2>4 DEF Counted
<1>8. Generations'
  <2>1. \A c \in Captured : c \in Frames /\ admitted'[c] = admitted[c]
    BY <1>2, <1>3 DEF Captured
  <2> QED
    BY <1>2, <1>3, <2>1 DEF Generations, Counted, Live
<1>9. pausing => InLine'
  BY DEF InLine, Live
<1>10. NothingLost'
  BY <1>2, <1>3 DEF NothingLost, Busy
<1> QED
  BY <1>5, <1>6, <1>7, <1>8, <1>9, <1>10

-----------------------------------------------------------------------------
\* A cancellation voids what is being written and forgets what is held back.
LEMMA InvalidatedInv ==
    ASSUME GateInv, InvalidateWrites, UNCHANGED <<pausing, caller, history>>, gen + 1 + Owed' <= MaxGen,
           mode' \in {"NORMAL", "SUSPENDED", "CANCELLED"},
           {fade', pass', paused', seg', sinkOpen', flushing', clearing'} \subseteq BOOLEAN,
           pausing => ~fade' /\ ~pass' /\ (mode' = "SUSPENDED" => paused')
    PROVE  GateInv'
<1> USE DEF GateInv, InvalidateWrites, history
<1>1. /\ write'.frame = write.frame /\ write'.own = write.own /\ write'.rest = write.rest /\ ~Live'
      /\ write'.stage = IF Live THEN "void" ELSE write.stage
      /\ ~Live => write' = write
      /\ write' \in Writes
  BY DEF WritesVoid, Live, Typed, Writes, Stages
<1>2. lock' = IF lock = "drain" THEN "dying" ELSE lock
  BY DEF WritesVoid
<1>3. Typed'
  <2>1. gen' \in 1 .. MaxGen
    BY GateAssumption DEF Typed, Owed
  <2>2. lock' \in {"free", "producer", "drain", "dying"}
    BY <1>2 DEF Typed
  <2>3. buffer' \in Seq(Frames)
    OBVIOUS
  <2> QED
    BY <1>1, <2>1, <2>2, <2>3 DEF Typed
<1>4. Bounds'
  <2>1. Len(buffer') = 0
    OBVIOUS
  <2> QED
    BY <2>1, GateAssumption DEF Bounds, Typed, Owed
<1>5. Locks'
  <2>1. CASE lock = "drain"
    BY <1>1, <1>2, <2>1 DEF Locks, Live, NoWrite
  <2>2. CASE lock # "drain"
    <3>1. lock' = lock /\ drain' = "none" /\ caller' = caller /\ drain # "holding"
      BY <1>2, <2>2 DEF Locks
    <3>2. /\ lock = "free" \/ caller.pc = "blocked" => write' = NoWrite
          /\ write'.stage = "none" => write' = NoWrite
      <4>1. CASE Live
        <5>1. write'.stage = "void" /\ write # NoWrite
          BY <1>1, <4>1 DEF Live, NoWrite
        <5> QED
          BY <5>1 DEF Locks
      <4>2. CASE ~Live
        BY <1>1, <4>2 DEF Locks
      <4> QED
        BY <4>1, <4>2
    <3> QED
      BY <1>1, <2>2, <3>1, <3>2 DEF Locks
  <2> QED
    BY <2>1, <2>2
<1>6. Counted'
  BY <1>1 DEF Counted, Captured, Busy, Live
<1>7. Generations'
  BY <1>1 DEF Generations, Typed, Live, Counted, Captured
<1>8. Pauses'
  BY <1>1 DEF Pauses
<1>9. pausing => InLine'
  BY <1>1 DEF InLine, Increasing
<1>10. NothingLost'
  BY DEF NothingLost, Generations, Typed
<1> QED
  BY <1>3, <1>4, <1>5, <1>6, <1>7, <1>8, <1>9, <1>10

\* A new generation: whatever was on its way is void, and nothing of it is heard.
LEMMA CancelledInv ==
    ASSUME GateInv, Cancel \/ DrainFailureCancels \/ Reset \/ Clear PROVE GateInv'
<1>1. Typed /\ Bounds /\ MaxGen \in Nat
  BY GateAssumption DEF GateInv
<1>2. gen + 1 + Owed' <= MaxGen
  <2>1. CASE Cancel \/ DrainFailureCancels
    BY <1>1, <2>1 DEF Cancel, DrainFailureCancels, Cancelled, InvalidateWrites, WithinGens, Bounds, Owed, Typed
  <2>2. CASE Reset
    BY <1>1, <2>2 DEF Reset, InvalidateWrites, WithinGens, Owed, Typed
  <2>3. CASE Clear
    BY <1>1, <2>3 DEF Clear, InvalidateWrites, WithinGens, Bounds, Owed, Typed
  <2> QED
    BY <2>1, <2>2, <2>3
<1>3. CASE Cancel \/ DrainFailureCancels
  BY <1>1, <1>2, <1>3, InvalidatedInv DEF Cancel, DrainFailureCancels, Cancelled, SegmentClosed, Typed, history
<1>4. CASE Reset
  BY <1>1, <1>2, <1>4, InvalidatedInv DEF Reset, Typed, history
<1>5. CASE Clear
  BY <1>1, <1>2, <1>5, InvalidatedInv DEF GateInv, Clear, SegmentClosed, Typed, Pauses, control, history
<1> QED
  BY <1>3, <1>4, <1>5

-----------------------------------------------------------------------------
\* The caller, under the lock, with a frame of this generation.
LEMMA GoesOnInv ==
    ASSUME GateInv, CallerGoesOn, ~Stale, ~Live, Busy,
           lock = "free" \/ (lock = "producer" /\ caller.pc # "queued"),
           UNCHANGED <<pausing, mode, pass, paused, gen, drain, clearing, history>>,
           {seg', sinkOpen'} \subseteq BOOLEAN
    PROVE  GateInv'
<1> USE DEF GateInv, history
<1>1. /\ flushing' = flushing /\ caller' \in Calls /\ caller'.frame = caller.frame /\ caller'.gen = caller.gen
      /\ caller.frame \in 0 .. MaxFrames
  BY DEF CallerGoesOn, CallerForwards, CallerFades, CallerPasses, CallerBlocks, CallerHoldsBack, CallReturns, Typed, Calls
<1>2. CASE CallerForwards /\ lock' = "producer" /\ buffer # <<>>
  <2>1. /\ Head(buffer) \in Frames /\ Tail(buffer) \in Seq(Frames) /\ Len(Tail(buffer)) = Len(buffer) - 1
    BY <1>2, HeadTailProperties DEF Typed
  <2>2. /\ write' = [frame |-> Head(buffer), own |-> FALSE, rest |-> FALSE, stage |-> "created"]
        /\ buffer' = Tail(buffer) /\ caller'.pc = "writing" /\ fade' = fade
    BY <1>2 DEF CallerForwards, StartWrite, Typed, Calls
  <2>3. Typed'
    <3>1. write' \in Writes
      BY <2>1, <2>2, Records
    <3> QED
      BY <1>1, <1>2, <2>1, <2>2, <3>1 DEF Typed
  <2>4. Bounds'
    BY <2>1, <2>2, GateAssumption DEF Bounds, Owed, Typed
  <2>5. Locks' /\ Pauses'
    BY <1>2, <2>2 DEF Locks, Pauses, Live, NoWrite, Typed
  <2>6. Busy' = Busy
    BY <2>2 DEF Busy
  <2> QED
    BY <1>1, <1>2, <2>2, <2>3, <2>4, <2>5, <2>6, TakesInv DEF StartWrite
<1>3. CASE lock' = "producer" /\ ((CallerForwards /\ buffer = <<>>) \/ CallerFades \/ CallerPasses)
  <2>1. PICK rest \in BOOLEAN : /\ write' = [frame |-> caller.frame, own |-> TRUE, rest |-> rest, stage |-> "created"]
                                /\ buffer' = buffer /\ caller'.pc = "writing" /\ fade' \in BOOLEAN
                                /\ pausing => fade' = FALSE /\ rest = FALSE /\ buffer = <<>>
    BY <1>3 DEF CallerForwards, CallerFades, CallerPasses, StartWrite, Typed, Calls, Pauses
  <2>2. Typed'
    <3>1. write' \in Writes
      BY <1>1, <2>1, Records
    <3>2. lock' = "producer" /\ seg' \in BOOLEAN /\ sinkOpen' \in BOOLEAN
      BY <1>3
    <3> QED
      BY <1>1, <2>1, <3>1, <3>2 DEF Typed
  <2>3. Bounds'
    BY <2>1 DEF Bounds, Owed
  <2>4. Locks' /\ Pauses'
    <3>1. write'.own = TRUE /\ write'.stage = "created" /\ write'.rest = rest /\ lock' = "producer"
      BY <1>3, <2>1
    <3>2. Locks'
      BY <2>1, <3>1 DEF Locks, Live
    <3> QED
      BY <2>1, <3>1, <3>2 DEF Pauses
  <2>5. Busy'
    BY <2>1 DEF Busy
  <2> QED
    BY <1>1, <2>1, <2>2, <2>3, <2>4, <2>5, WritesOwnInv DEF StartWrite
<1>4. CASE lock' = "producer" /\ CallerBlocks
  <2>1. write' = NoWrite /\ buffer' = buffer /\ caller'.pc = "blocked" /\ fade' = fade
    BY <1>4 DEF CallerBlocks, Typed, Calls
  <2>2. Typed'
    BY <1>1, <1>4, <2>1, Records DEF Typed
  <2>3. Bounds' /\ Locks' /\ Pauses' /\ Busy'
    BY <1>4, <2>1 DEF Bounds, Owed, Locks, Pauses, Live, NoWrite, Typed, Busy
  <2> QED
    BY <1>1, <2>1, <2>2, <2>3, RestsInv DEF Rests
<1>5. CASE CallerHoldsBack
  <2>1. write' = NoWrite /\ buffer' = Append(buffer, caller.frame) /\ caller'.pc = "idle" /\ fade' = fade /\ lock' = "free"
    BY <1>5 DEF CallerHoldsBack, CallReturns, Typed, Calls
  <2>2. buffer' \in Seq(Frames) /\ Len(buffer') = Len(buffer) + 1 /\ Len(buffer) \in Nat
    <3>1. caller.frame \in Frames
      BY DEF Counted, Captured
    <3> QED
      BY <2>1, <3>1, AppendProperties, LenProperties DEF Typed
  <2>3. Typed'
    BY <1>1, <2>1, <2>2, Records DEF Typed
  <2>4. Bounds'
    BY <1>5, <2>1, <2>2, GateAssumption DEF Bounds, Owed, CallerHoldsBack, HasRoom
  <2>5. Locks' /\ Pauses' /\ ~Busy'
    BY <2>1 DEF Locks, Pauses, Live, NoWrite, Typed, Busy
  <2> QED
    BY <2>1, <2>3, <2>4, <2>5, HoldsBackInv
<1> QED
  BY <1>2, <1>3, <1>4, <1>5 DEF CallerGoesOn

\* The task that drains what was held back, under the lock.
LEMMA DrainGoesOnInv ==
    ASSUME GateInv, DrainGoesOn, ~Live, \/ lock = "free" /\ drain = "waiting"
                                        \/ lock = "drain",
           UNCHANGED <<pausing, control, gen, caller, clearing, history>>
    PROVE  GateInv'
<1> USE DEF GateInv, history, control
<1>1. {seg', sinkOpen', flushing'} \subseteq BOOLEAN
  BY DEF DrainGoesOn, segment, FlushIfReady, SegmentClosed, Typed
<1>2. caller.pc \in {"off", "idle", "queued"}
  BY DEF Locks, Typed, Calls
<1>3. CASE buffer # <<>> /\ mode = "NORMAL"
  <2>1. /\ Head(buffer) \in Frames /\ Tail(buffer) \in Seq(Frames) /\ Len(Tail(buffer)) = Len(buffer) - 1
    BY <1>3, HeadTailProperties DEF Typed
  <2>2. /\ write' = [frame |-> Head(buffer), own |-> FALSE, rest |-> FALSE, stage |-> "created"]
        /\ buffer' = Tail(buffer) /\ lock' = "drain" /\ drain' = "holding"
    BY <1>3 DEF DrainGoesOn, StartWrite
  <2>3. Typed'
    <3>1. write' \in Writes
      BY <2>1, <2>2, Records
    <3> QED
      BY <1>1, <2>1, <2>2, <3>1 DEF Typed
  <2>4. Bounds'
    BY <2>1, <2>2, GateAssumption DEF Bounds, Owed, Typed, Locks
  <2>5. Locks' /\ Pauses'
    BY <1>2, <2>2 DEF Locks, Pauses, Live, NoWrite, Typed
  <2>6. Busy' = Busy
    BY DEF Busy
  <2> QED
    BY <1>3, <2>2, <2>3, <2>4, <2>5, <2>6, TakesInv DEF StartWrite
<1>4. CASE ~(buffer # <<>> /\ mode = "NORMAL")
  <2>1. lock' = "free" /\ drain' = "none" /\ write' = NoWrite /\ buffer' = buffer
    BY <1>4 DEF DrainGoesOn
  <2>2. Typed'
    BY <1>1, <2>1, Records DEF Typed
  <2>3. Bounds' /\ Locks' /\ Pauses' /\ Busy' = Busy
    BY <1>2, <2>1 DEF Bounds, Owed, Locks, Pauses, Live, NoWrite, Typed, Busy
  <2> QED
    BY <2>1, <2>2, <2>3, RestsInv DEF Rests
<1> QED
  BY <1>3, <1>4

-----------------------------------------------------------------------------
\* The call of capture_frame, action by action.
LEMMA SegmentTyped ==
    ASSUME Typed, NEW pending \in BOOLEAN, NEW held, FlushIfReady(pending, held)
    PROVE  {seg', sinkOpen', flushing'} \subseteq BOOLEAN
BY DEF FlushIfReady, SegmentClosed, Typed

\* A call that returns without its frame: the frame was dropped, or is heard or void.
LEMMA ReturnsInv ==
    ASSUME GateInv, CallReturns, ~Live, lock \in {"free", "producer"}, Busy, drain # "holding",
           \/ caller.frame \in dropped' \cup Range(heard)
           \/ admitted[caller.frame] < gen,
           dropped \subseteq dropped', dropped' \subseteq 0 .. MaxFrames,
           {seg', sinkOpen', flushing'} \subseteq BOOLEAN,
           UNCHANGED <<pausing, control, gen, buffer, drain, clearing, admitted, heard>>
    PROVE  GateInv'
<1> USE DEF GateInv, CallReturns, control
<1>1. caller'.pc = "idle" /\ caller' \in Calls /\ write' = NoWrite /\ lock' = "free"
  BY Records DEF Typed, Calls
<1>2. Typed'
  BY <1>1, Records DEF Typed
<1>3. Bounds' /\ Pauses'
  BY DEF Bounds, Owed, Pauses, NoWrite
<1>4. Locks' /\ ~Busy'
  BY <1>1 DEF Locks, Live, NoWrite, Busy
<1> QED
  BY <1>1, <1>2, <1>3, <1>4, RestsInv DEF Rests

\* A frame of a cancelled generation is refused.
LEMMA CaptureRefusedInv == ASSUME GateInv, CaptureRefused PROVE GateInv'
<1>1. /\ ~Live /\ Busy /\ drain # "holding"
      /\ {seg', sinkOpen', flushing'} \subseteq BOOLEAN /\ caller.frame \in 0 .. MaxFrames
  BY DEF GateInv, CaptureRefused, Locks, Live, Busy, NoWrite, Typed, Calls, segment
<1>2. dropped' = dropped \cup {caller.frame} /\ dropped' \subseteq 0 .. MaxFrames
  BY <1>1 DEF GateInv, CaptureRefused, Typed
<1> QED
  BY <1>1, <1>2, ReturnsInv DEF CaptureRefused, control

\* A frame is admitted.
LEMMA CaptureEntersInv == ASSUME GateInv, CaptureEnters PROVE GateInv'
<1>1. ~Live /\ Busy /\ sinkOpen' \in BOOLEAN /\ seg' \in BOOLEAN
  BY DEF GateInv, CaptureEnters, Locks, Live, Busy, NoWrite, Typed
<1> QED
  BY <1>1, GoesOnInv DEF CaptureEnters, history

\* The producer comes for the lock.
LEMMA CallerWakesInv == ASSUME GateInv, CallerWakes PROVE GateInv'
<1>1. ~Live /\ Busy /\ lock = "producer" /\ drain # "holding" /\ caller.frame \in 0 .. MaxFrames
  BY DEF GateInv, CallerWakes, Locks, Live, Busy, NoWrite, Typed, Calls
<1>2. CASE Stale /\ CallEnds /\ dropped' = dropped \cup {caller.frame}
  <2>1. {seg', sinkOpen', flushing'} \subseteq BOOLEAN /\ dropped' \subseteq 0 .. MaxFrames
    BY <1>1, <1>2, SegmentTyped DEF CallEnds, GateInv, Typed
  <2> QED
    BY <1>1, <1>2, <2>1, ReturnsInv DEF CallerWakes, CallEnds, control
<1>3. CASE ~Stale /\ CallerGoesOn /\ UNCHANGED <<seg, sinkOpen, dropped>>
  <2>1. {seg', sinkOpen'} \subseteq BOOLEAN
    BY <1>3 DEF GateInv, Typed
  <2> QED
    BY <1>1, <1>3, <2>1, GoesOnInv DEF CallerWakes, history
<1> QED
  BY <1>2, <1>3 DEF CallerWakes

\* The producer wrote its own frame.
LEMMA CallerWroteOwnInv == ASSUME GateInv, CallerWroteOwn PROVE GateInv'
<1>1. /\ ~Live /\ Busy /\ drain # "holding" /\ caller.pc \in {"writing", "blocked"}
      /\ caller.frame \in Captured /\ write.frame = caller.frame
  BY DEF GateInv, CallerWroteOwn, Locks, Live, Busy, Typed, Calls, Counted
<1>2. CASE write.rest /\ ~Stale
  <2>1. CallerGoesOn /\ {seg', sinkOpen'} \subseteq BOOLEAN
    BY <1>2 DEF CallerWroteOwn, GateInv, Typed
  <2> QED
    BY <1>1, <1>2, <2>1, GoesOnInv DEF CallerWroteOwn, history
<1>3. CASE ~(write.rest /\ ~Stale)
  <2>1. CallEnds
    BY <1>3 DEF CallerWroteOwn
  <2>2. {seg', sinkOpen', flushing'} \subseteq BOOLEAN
    BY <2>1, SegmentTyped DEF CallEnds, GateInv, Typed
  <2>3. caller.frame \in Range(heard) \/ admitted[caller.frame] < gen
    BY <1>1 DEF CallerWroteOwn, GateInv, Generations
  <2>4. dropped' = dropped /\ dropped \subseteq 0 .. MaxFrames
    BY DEF CallerWroteOwn, history, GateInv, Typed
  <2> QED
    BY <1>1, <2>1, <2>2, <2>3, <2>4, ReturnsInv DEF CallerWroteOwn, CallEnds, control, history
<1> QED
  BY <1>2, <1>3

\* The producer finds its frame written for it.
LEMMA CallerDrainedInv == ASSUME GateInv, CallerDrained PROVE GateInv'
<1>1. /\ ~Live /\ Busy /\ drain # "holding" /\ caller.pc \in {"writing", "blocked"}
      /\ caller.frame \in 0 .. MaxFrames
  BY DEF GateInv, CallerDrained, Locks, Live, Busy, Typed, Calls
<1>2. CASE Stale
  <2>1. /\ CallReturns /\ dropped' = dropped \cup {caller.frame} /\ dropped' \subseteq 0 .. MaxFrames
        /\ {seg', sinkOpen', flushing'} \subseteq BOOLEAN /\ UNCHANGED <<buffer, fade>>
    BY <1>1, <1>2 DEF CallerDrained, GateInv, Typed
  <2> QED
    BY <1>1, <2>1, ReturnsInv DEF CallerDrained, control
<1>3. CASE ~Stale
  <2>1. CallerGoesOn /\ {seg', sinkOpen'} \subseteq BOOLEAN /\ dropped' = dropped
    BY <1>3 DEF CallerDrained, GateInv, Typed
  <2> QED
    BY <1>1, <1>3, <2>1, GoesOnInv DEF CallerDrained, history
<1> QED
  BY <1>2, <1>3

\* A caller that is gone, because its write failed or its speech was interrupted.
LEMMA CallerFailsInv == ASSUME GateInv, CallerFails PROVE GateInv'
<1> USE DEF GateInv, CallerFails
<1>1. /\ {seg', sinkOpen', flushing'} \subseteq BOOLEAN
      /\ caller' = NoCall /\ write' = NoWrite /\ lock' = "free" /\ drain # "holding"
      /\ caller.frame \in 0 .. MaxFrames /\ write.frame \in 0 .. MaxFrames
  BY SegmentTyped DEF Flush, Typed, Locks, Calls, Writes
<1>2. Typed'
  BY <1>1, Records DEF Typed, control
<1>3. Bounds' /\ Pauses'
  BY <1>1 DEF Bounds, Owed, Pauses, NoWrite, control
<1>4. Locks' /\ ~Busy'
  BY <1>1 DEF Locks, Live, NoWrite, NoCall, Busy
<1> QED
  BY <1>1, <1>2, <1>3, <1>4, RestsInv DEF Rests

\* The speech is interrupted.
LEMMA SpeechInterruptedInv == ASSUME GateInv, SpeechInterrupted PROVE GateInv'
<1> USE DEF GateInv, SpeechInterrupted
<1>1. /\ {seg', sinkOpen', flushing'} \subseteq BOOLEAN
      /\ caller' = NoCall /\ clearing' = TRUE
      /\ caller.frame \in 0 .. MaxFrames /\ write.frame \in 0 .. MaxFrames
  BY SegmentTyped DEF Flush, Typed, Calls, Writes
<1>2. /\ lock = "producer" => lock' = "free" /\ write' = NoWrite /\ dropped' = dropped \cup {caller.frame, write.frame}
      /\ lock # "producer" => lock' = lock /\ write' = write /\ dropped' = dropped \cup {caller.frame}
  OBVIOUS
<1>3. Typed'
  BY <1>1, <1>2, Records DEF Typed, control
<1>4. Bounds' /\ Pauses'
  BY <1>1, <1>2, GateAssumption DEF Bounds, WithinGens, Owed, Pauses, NoWrite, control, Typed
<1>5. Locks' /\ ~Busy'
  BY <1>1, <1>2 DEF Locks, Live, NoWrite, NoCall, Busy
<1> QED
  BY <1>1, <1>2, <1>3, <1>4, <1>5, RestsInv DEF Rests

-----------------------------------------------------------------------------
\* The drain and the sink.
LEMMA DrainInv ==
    ASSUME GateInv, DrainEnters \/ DrainWrote \/ DrainDies \/ DrainFails PROVE GateInv'
<1>1. CASE DrainEnters
  <2>1. ~Live
    BY <1>1 DEF GateInv, DrainEnters, Locks, Live, NoWrite
  <2> QED
    BY <1>1, <2>1, DrainGoesOnInv DEF DrainEnters
<1>2. CASE DrainWrote
  <2>1. ~Live
    BY <1>2 DEF DrainWrote, Live
  <2> QED
    BY <1>2, <2>1, DrainGoesOnInv DEF DrainWrote
<1>3. CASE DrainDies
  <2> USE DEF GateInv, DrainDies
  <2>1. Typed' /\ Bounds' /\ Pauses'
    BY <1>3, Records DEF Typed, Bounds, Owed, Pauses, NoWrite, control, segment, history
  <2>2. Locks' /\ ~Live
    BY <1>3 DEF Locks, Live, NoWrite
  <2> QED
    BY <1>3, <2>1, <2>2, RestsInv DEF Rests, history, Busy
<1>4. CASE DrainFails
  <2> USE DEF GateInv, DrainFails
  <2>1. write.frame \in 0 .. MaxFrames
    BY DEF Typed, Writes
  <2>2. Typed' /\ Pauses'
    BY <1>4, <2>1, Records DEF Typed, Pauses, NoWrite, control, segment
  <2>3. Bounds'
    BY <1>4, GateAssumption DEF Bounds, WithinGens, Owed, Typed
  <2>4. Locks'
    BY <1>4 DEF Locks, Live, NoWrite
  <2> QED
    BY <1>4, <2>2, <2>3, <2>4, RestsInv DEF Rests, Busy
<1> QED
  BY <1>1, <1>2, <1>3, <1>4

\* A write starts.
LEMMA WriteStartsInv == ASSUME GateInv, WriteStarts PROVE GateInv'
<1> USE DEF GateInv, WriteStarts
<1>1. write' \in Writes /\ write' = [write EXCEPT !.stage = "started"] /\ Live
  BY Records DEF Typed, Stages, Live
<1>2. /\ write'.stage = "started" /\ write'.own = write.own /\ write'.rest = write.rest
      /\ write.stage = "created" /\ write # NoWrite /\ write' # NoWrite
  BY DEF Typed, Writes, NoWrite
<1>3. Typed' /\ Bounds'
  BY <1>1 DEF Typed, Bounds, Owed, control, history
<1>4. Locks' /\ Pauses'
  BY <1>2 DEF Locks, Live, Pauses, control
<1> QED
  BY <1>1, <1>3, <1>4, RestsInv DEF Rests, history, Busy

-----------------------------------------------------------------------------
\* Suspensions, and the SDK's speeches.
LEMMA SuspensionInv ==
    ASSUME GateInv, \/ Duck \/ PassThrough
                    \/ \E drop \in BOOLEAN : Unduck(drop)
    PROVE  GateInv'
<1>1. Range(buffer) \subseteq 0 .. MaxFrames
  BY Records DEF GateInv, Typed, Range
<1>2. CASE Duck
  <2>1. Typed' /\ Bounds'
    BY <1>2 DEF GateInv, Duck, Typed, Bounds, Owed, segment, history
  <2>2. Locks' /\ Pauses'
    BY <1>2 DEF GateInv, Duck, Locks, Live, Pauses
  <2> QED
    BY <1>2, <2>1, <2>2, RestsInv DEF Duck, Rests, Busy, history
<1>3. CASE PassThrough
  <2>0. /\ buffer' = <<>> /\ buffer' \in Seq(Frames) /\ Len(buffer') = 0
        /\ dropped' \subseteq 0 .. MaxFrames
    <3>1. buffer' = <<>> /\ dropped' = dropped \cup Range(buffer)
      BY <1>3 DEF PassThrough
    <3>2. <<>> \in Seq(Frames) /\ Len(<<>>) = 0 /\ dropped \subseteq 0 .. MaxFrames
      BY DEF GateInv, Typed
    <3> QED
      BY <1>1, <3>1, <3>2
  <2>1. Typed'
    BY <1>3, <2>0 DEF GateInv, PassThrough, Typed, segment
  <2>1a. Bounds'
    BY <1>3, <2>0, GateAssumption DEF GateInv, PassThrough, Bounds, Owed
  <2>2. Locks' /\ Pauses'
    BY <1>3 DEF GateInv, PassThrough, Locks, Live, Pauses
  <2> QED
    BY <1>3, <2>0, <2>1, <2>1a, <2>2, RestsInv DEF PassThrough, Rests, Busy
<1>4. ASSUME NEW drop \in BOOLEAN, Unduck(drop) PROVE GateInv'
  <2>1. /\ drain' \in {"none", "waiting", "holding", "failed"} /\ (drain' = "holding") = (drain = "holding")
        /\ (drain' = "failed") = (drain = "failed")
    BY <1>4 DEF Unduck, GateInv, Typed
  <2>2. /\ buffer' = <<>> \/ buffer' = buffer
        /\ buffer' \in Seq(Frames) /\ dropped \subseteq dropped' /\ dropped' \subseteq 0 .. MaxFrames
        /\ buffer' = buffer \/ Range(buffer) \subseteq dropped'
    <3>1. CASE drop
      <4>1. buffer' = <<>> /\ dropped' = dropped \cup Range(buffer)
        BY <1>4, <3>1 DEF Unduck
      <4>2. <<>> \in Seq(Frames) /\ dropped \subseteq 0 .. MaxFrames
        BY DEF GateInv, Typed
      <4> QED
        BY <1>1, <4>1, <4>2
    <3>2. CASE ~drop
      BY <1>4, <3>2 DEF Unduck, GateInv, Typed
    <3> QED
      BY <3>1, <3>2
  <2>3. Typed'
    BY <1>4, <2>1, <2>2 DEF GateInv, Unduck, Typed, segment
  <2>3a. Bounds'
    <3>1. Owed' = Owed
      BY <1>4, <2>1 DEF Unduck, Owed
    <3>2. Len(buffer') = 0 \/ buffer' = buffer
      BY <2>2
    <3> QED
      BY <1>4, <3>1, <3>2, GateAssumption DEF GateInv, Unduck, Bounds
  <2>4. Locks' /\ Pauses'
    BY <1>4, <2>1 DEF GateInv, Unduck, Locks, Live, Pauses
  <2> QED
    BY <1>4, <2>2, <2>3, <2>3a, <2>4, RestsInv DEF Unduck, Rests, Busy
<1> QED
  BY <1>2, <1>3, <1>4

\* Speech starts and ends.
LEMMA SpeechInv ==
    ASSUME GateInv, SpeechStarts \/ SpeechEnds PROVE GateInv'
<1>1. CASE SpeechStarts
  <2>1. Typed' /\ Bounds' /\ Pauses'
    BY <1>1, Records DEF GateInv, SpeechStarts, Typed, Bounds, Owed, Pauses, control, segment, history
  <2>2. caller'.pc = "idle"
    BY <1>1 DEF SpeechStarts, NoCall
  <2>3. Locks' /\ ~Busy' /\ ~Busy
    BY <1>1, <2>2 DEF GateInv, SpeechStarts, Locks, Live, Busy, NoWrite
  <2> QED
    BY <1>1, <2>1, <2>3, RestsInv DEF SpeechStarts, Rests, history
<1>2. CASE SpeechEnds
  <2>1. {seg', sinkOpen', flushing'} \subseteq BOOLEAN
    BY <1>2, SegmentTyped DEF GateInv, SpeechEnds, Flush, Typed
  <2>2. Typed' /\ Bounds' /\ Pauses'
    BY <1>2, <2>1, Records DEF GateInv, SpeechEnds, Typed, Bounds, Owed, Pauses, control, history
  <2>3. caller'.pc = "off"
    BY <1>2 DEF SpeechEnds, NoCall
  <2>4. Locks' /\ ~Busy' /\ ~Busy
    BY <1>2, <2>3 DEF GateInv, SpeechEnds, Locks, Live, Busy, NoWrite
  <2> QED
    BY <1>2, <2>2, <2>4, RestsInv DEF SpeechEnds, Rests, history
<1> QED
  BY <1>1, <1>2

-----------------------------------------------------------------------------
\* Nothing is held back, written or heard at first.
LEMMA GateInitInv == GateInit => GateInv
<1> SUFFICES ASSUME GateInit PROVE GateInv
  OBVIOUS
<1> USE DEF GateInit
<1>1. MaxGen \in Nat \ {0} /\ MaxFrames \in Nat \ {0} /\ Room \in Nat
  BY GateAssumption
<1>2. Typed
  <2>1. <<>> \in Seq(Frames) /\ <<>> \in Seq(Frames)
    OBVIOUS
  <2>2. admitted \in [Frames -> 0 .. MaxGen] /\ gen \in 1 .. MaxGen /\ dropped \subseteq 0 .. MaxFrames
    BY <1>1
  <2>3. write \in Writes /\ caller \in Calls
    BY Records
  <2> QED
    BY <2>1, <2>2, <2>3 DEF Typed
<1>3. Bounds
  BY <1>1 DEF Bounds, Owed
<1>4. Locks /\ Pauses
  BY DEF Locks, Live, NoWrite, NoCall, Pauses
<1>5. Counted
  <2>1. Captured = {}
    BY DEF Captured
  <2>2. Cardinality(Captured) = 0 /\ 1 .. 0 = {}
    BY <2>1, FS_EmptySet
  <2> QED
    BY <2>1, <2>2 DEF Counted, NoWrite, NoCall, Busy
<1>6. Generations
  BY <1>1 DEF Generations, Live, NoWrite
<1>7. InLine
  BY DEF InLine, Increasing, Live, NoWrite
<1>8. NothingLost
  BY DEF NothingLost
<1> QED
  BY <1>2, <1>3, <1>4, <1>5, <1>6, <1>7, <1>8 DEF GateInv

\* Every step preserves the invariant.
LEMMA GateNextInv == GateInv /\ [GateNext]_gateVars => GateInv'
<1> SUFFICES ASSUME GateInv, [GateNext]_gateVars PROVE GateInv'
  OBVIOUS
<1>1. CASE UNCHANGED gateVars
  <2>1. Typed' /\ Bounds' /\ Locks' /\ Counted'
    BY <1>1 DEF GateInv, gateVars, control, segment, history, Typed, Bounds, Owed, Locks, Live, Counted, Captured, Busy
  <2>2. Generations' /\ Pauses' /\ (pausing => InLine)' /\ NothingLost'
    BY <1>1 DEF GateInv, gateVars, control, segment, history, Generations, Live, Pauses, InLine, Increasing, NothingLost
  <2> QED
    BY <2>1, <2>2 DEF GateInv
<1>2. CASE GateNext
  BY <1>2, CaptureInv, CaptureRefusedInv, CaptureEntersInv, CallerWakesInv, CallerWroteOwnInv, CallerDrainedInv,
     CallerFailsInv, DrainInv, CancelledInv, WriteStartsInv, AcceptedInv, SuspensionInv, SpeechInv,
     SpeechInterruptedInv DEF GateNext
<1> QED
  BY <1>1, <1>2

\* The inductive invariant of the output gate.
THEOREM GateCorrect == GateSpec => []GateInv
BY GateInitInv, GateNextInv, PTL DEF GateSpec

\* The types of the state, and what the two tasks may be waiting for.
THEOREM GateTypeCorrect == GateSpec => []GateTypeOK
<1>1. GateInv => GateTypeOK
  BY DEF GateInv, Typed, Bounds, Locks, GateTypeOK, NoWrite
<1> QED
  BY <1>1, GateCorrect, PTL

\* What is held back is heard later, in its order.
THEOREM GateHeldBackIsHeard == GateSpec => []HeldBackIsHeard
<1>1. GateInv => HeldBackIsHeard
  BY DEF GateInv, InLine, HeldBackIsHeard, FramesInOrder
<1> QED
  BY <1>1, GateCorrect, PTL

\* Nothing that was captured before a cancellation is heard after it.
THEOREM GateCancelledIsSilent == GateSpec => CancelledIsSilent
<1>1. GateInv /\ [GateNext]_gateVars => [heard' # heard => admitted[Last(heard')] = gen]_gateVars
  <2> SUFFICES ASSUME GateInv, GateNext, heard' # heard PROVE admitted[Last(heard')] = gen
    BY DEF gateVars, history
  <2>1. WriteAccepted
    BY DEF GateNext, Capture, CaptureRefused, CaptureEnters, CallerWakes, CallerWroteOwn, CallerDrained, CallerFails,
       DrainEnters, DrainWrote, DrainDies, DrainFails, DrainFailureCancels, Cancelled, WriteStarts, Duck, PassThrough,
       Cancel, Reset, Unduck, SpeechStarts, SpeechEnds, SpeechInterrupted, Clear, history
  <2>2. Live /\ write.frame \in Frames
    BY <2>1 DEF WriteAccepted, Live, GateInv, Counted, Captured
  <2>3. Last(heard') = write.frame
    BY <2>1, <2>2, AppendProperties DEF WriteAccepted, GateInv, Typed, Last
  <2> QED
    BY <2>2, <2>3 DEF GateInv, Generations
<1> QED
  BY <1>1, GateCorrect, PTL DEF GateSpec, CancelledIsSilent

-----------------------------------------------------------------------------
\* Sealing, which takes one more invariant: whatever is still to reach the sink belongs
\* to a segment that is open.
LEMMA FlushSeals ==
    ASSUME GateInv, Sealed, NEW p \in BOOLEAN, FlushIfReady(p, buffer), buffer' = buffer, ~Live',
           caller'.pc \notin {"writing", "blocked"}
    PROVE  Sealed'
<1>1. CASE p /\ buffer = <<>>
  BY <1>1 DEF FlushIfReady, SegmentClosed, Sealed
<1>2. CASE ~(p /\ buffer = <<>>)
  BY <1>2 DEF FlushIfReady, Sealed
<1> QED
  BY <1>1, <1>2

\* When everything on its way is void, the segment may be sealed.
LEMMA VoidIsSealed ==
    ASSUME GateInv, Sealed, InvalidateWrites, caller' = caller,
           sinkOpen' => seg'
    PROVE  Sealed'
<1>1. ~Live'
  BY DEF InvalidateWrites, WritesVoid, Live, GateInv, Typed, Writes
<1>2. Stale' \/ caller'.pc \notin {"writing", "blocked"}
  <2>1. CASE Busy
    BY <2>1 DEF InvalidateWrites, Stale, GateInv, Typed, Counted, Generations, Captured
  <2>2. CASE ~Busy
    BY <2>2 DEF Busy
  <2> QED
    BY <2>1, <2>2
<1> QED
  BY <1>1, <1>2 DEF Sealed, InvalidateWrites

\* A call that goes on, in a segment that is open.
LEMMA GoesOnIsSealed ==
    ASSUME CallerGoesOn, seg' = TRUE PROVE Sealed'
BY DEF Sealed

\* Every step keeps the sink sealed with its segment.
LEMMA SealedInv == GateInv /\ Sealed /\ [GateNext]_gateVars => Sealed'
<1> SUFFICES ASSUME GateInv, Sealed, [GateNext]_gateVars PROVE Sealed'
  OBVIOUS
<1>1. CASE UNCHANGED gateVars
  BY <1>1 DEF gateVars, segment, Sealed, Live, Stale
<1>2. CASE Capture \/ CaptureRefused
  BY <1>2 DEF Capture, CaptureRefused, CallReturns, segment, control, history, Sealed, Live, Stale, NoWrite, GateInv, Typed, Calls
<1>3. CASE CaptureEnters
  BY <1>3 DEF CaptureEnters, Sealed
<1>4. CASE CallerWakes
  <2>1. CASE Stale /\ CallEnds
    <3>1. FlushIfReady(flushing, buffer) /\ buffer' = buffer /\ flushing \in BOOLEAN
      BY <1>4, <2>1 DEF CallerWakes, CallEnds, CallReturns, NoWrite, Live, GateInv, Typed, Calls
    <3>2. ~Live' /\ caller'.pc \notin {"writing", "blocked"}
      BY <1>4, <2>1 DEF CallerWakes, CallEnds, CallReturns, NoWrite, Live, GateInv, Typed, Calls
    <3> QED
      BY <3>1, <3>2, FlushSeals
  <2>2. CASE ~Stale /\ UNCHANGED seg
    <3>1. seg = TRUE
      BY <1>4, <2>2 DEF CallerWakes, Sealed, GateInv, Typed
    <3> QED
      BY <2>2, <3>1 DEF Sealed
  <2> QED
    BY <1>4, <2>1, <2>2 DEF CallerWakes
<1>5. CASE CallerWroteOwn
  <2>1. CASE write.rest /\ ~Stale
    <3>1. seg' = TRUE
      BY <1>5, <2>1 DEF CallerWroteOwn, Sealed, GateInv, Locks, Typed
    <3> QED
      BY <3>1 DEF Sealed
  <2>2. CASE ~(write.rest /\ ~Stale)
    <3>1. FlushIfReady(flushing, buffer) /\ buffer' = buffer /\ flushing \in BOOLEAN
      BY <1>5, <2>2 DEF CallerWroteOwn, CallEnds, CallReturns, NoWrite, Live, GateInv, Typed, Calls
    <3>2. ~Live' /\ caller'.pc \notin {"writing", "blocked"}
      BY <1>5, <2>2 DEF CallerWroteOwn, CallEnds, CallReturns, NoWrite, Live, GateInv, Typed, Calls
    <3> QED
      BY <3>1, <3>2, FlushSeals
  <2> QED
    BY <2>1, <2>2
<1>6. CASE CallerDrained
  <2>1. CASE Stale
    BY <1>6, <2>1 DEF CallerDrained, CallReturns, NoWrite, Live, Sealed, GateInv, Typed, Calls
  <2>2. CASE ~Stale
    <3>1. seg' = TRUE
      BY <1>6, <2>2 DEF CallerDrained, Sealed, GateInv, Locks, Typed
    <3> QED
      BY <3>1 DEF Sealed
  <2> QED
    BY <2>1, <2>2
<1>7. CASE CallerFails
  <2>1. FlushIfReady(TRUE, buffer) /\ buffer' = buffer /\ TRUE \in BOOLEAN
    BY <1>7 DEF CallerFails, Flush, NoWrite, NoCall, Live
  <2>2. ~Live' /\ caller'.pc \notin {"writing", "blocked"}
    BY <1>7 DEF CallerFails, Flush, NoWrite, NoCall, Live
  <2> QED
    BY <2>1, <2>2, FlushSeals
<1>8. CASE DrainEnters \/ DrainWrote
  <2>1. caller' = caller /\ caller.pc \notin {"writing", "blocked"} /\ DrainGoesOn
    BY <1>8 DEF DrainEnters, DrainWrote, GateInv, Locks
  <2>2. CASE buffer # <<>> /\ mode = "NORMAL"
    BY <2>1, <2>2 DEF DrainGoesOn, Sealed, segment
  <2>3. CASE ~(buffer # <<>> /\ mode = "NORMAL")
    <3>1. FlushIfReady(flushing, buffer) /\ buffer' = buffer /\ flushing \in BOOLEAN
      BY <2>1, <2>3 DEF DrainGoesOn, NoWrite, Live, GateInv, Typed
    <3>2. write' = NoWrite /\ caller'.pc \notin {"writing", "blocked"}
      BY <2>1, <2>3 DEF DrainGoesOn
    <3>3. ~Live'
      BY <3>2 DEF NoWrite, Live
    <3> QED
      BY <3>1, <3>2, <3>3, FlushSeals
  <2> QED
    BY <2>2, <2>3
<1>9. CASE DrainDies \/ DrainFails
  BY <1>9 DEF DrainDies, DrainFails, Sealed, Live, NoWrite, Stale, segment
<1>10. CASE DrainFailureCancels \/ Cancel \/ Clear
  <2>1. InvalidateWrites /\ SegmentClosed /\ caller' = caller
    BY <1>10 DEF DrainFailureCancels, Cancel, Cancelled, Clear
  <2> QED
    BY <2>1, VoidIsSealed DEF SegmentClosed
<1>11. CASE Reset
  BY <1>11, VoidIsSealed DEF Reset, Sealed
<1>12. CASE WriteStarts \/ WriteAccepted
  BY <1>12 DEF WriteStarts, WriteAccepted, Sealed, Live, Stale, segment, GateInv, Typed, Writes
<1>13. ASSUME Duck \/ PassThrough \/ \E drop \in BOOLEAN : Unduck(drop) PROVE Sealed'
  BY <1>13 DEF Duck, PassThrough, Unduck, Sealed, Live, Stale, segment
<1>14. CASE SpeechStarts
  BY <1>14 DEF SpeechStarts, Sealed, Live, Stale, segment, NoCall
<1>15. CASE SpeechEnds
  <2>1. CASE lock = "free"
    <3>1. FlushIfReady(TRUE, buffer) /\ buffer' = buffer /\ TRUE \in BOOLEAN
      BY <1>15, <2>1 DEF SpeechEnds, Flush, NoCall, NoWrite, Live, GateInv, Locks
    <3>2. ~Live' /\ caller'.pc \notin {"writing", "blocked"}
      BY <1>15, <2>1 DEF SpeechEnds, Flush, NoCall, NoWrite, Live, GateInv, Locks
    <3> QED
      BY <3>1, <3>2, FlushSeals
  <2>2. CASE lock # "free"
    BY <1>15, <2>2 DEF SpeechEnds, NoCall, Sealed, Live
  <2> QED
    BY <2>1, <2>2
<1>16. CASE SpeechInterrupted
  <2>1. CASE lock \in {"free", "producer"}
    <3>1. FlushIfReady(TRUE, buffer) /\ buffer' = buffer /\ TRUE \in BOOLEAN
      BY <1>16, <2>1 DEF SpeechInterrupted, Flush, NoCall, NoWrite, Live, GateInv, Locks
    <3>2. ~Live' /\ caller'.pc \notin {"writing", "blocked"}
      BY <1>16, <2>1 DEF SpeechInterrupted, Flush, NoCall, NoWrite, Live, GateInv, Locks
    <3> QED
      BY <3>1, <3>2, FlushSeals
  <2>2. CASE lock \notin {"free", "producer"}
    BY <1>16, <2>2 DEF SpeechInterrupted, NoCall, Sealed, Live
  <2> QED
    BY <2>1, <2>2
<1> QED
  BY <1>1, <1>2, <1>3, <1>4, <1>5, <1>6, <1>7, <1>8, <1>9, <1>10, <1>11, <1>12, <1>13, <1>14, <1>15, <1>16 DEF GateNext

\* The sink never has a segment open that the controller has sealed.
THEOREM GateSinkIsSealedToo == GateSpec => []SinkIsSealedToo
<1>1. GateInit => Sealed
  BY DEF GateInit, Sealed, Live, NoWrite, NoCall
<1>2. Sealed => SinkIsSealedToo
  BY DEF Sealed, SinkIsSealedToo
<1> QED
  BY <1>1, <1>2, SealedInv, GateCorrect, PTL DEF GateSpec

-----------------------------------------------------------------------------
(* SpeechPool *)

Places == {"free", "refilling", "failed", "surplus", "warming", "warm", "ready", "used", "dirty"}

PoolInv == TypeOK /\ TurnsAreSeparate

-----------------------------------------------------------------------------
\* A finite set has subsets of every size up to its own.
LEMMA SubsetOfSize ==
    ASSUME NEW S, IsFiniteSet(S), NEW n \in 0 .. Cardinality(S)
    PROVE  \E F \in SUBSET S : Cardinality(F) = n
<1> DEFINE k == Cardinality(S)
<1>1. k \in Nat /\ ExistsBijection(1 .. k, S)
  BY FS_CardinalityType
<1>2. PICK f \in Bijection(1 .. k, S) : TRUE
  BY <1>1, Fun_ExistsBij
<1>3. f \in [1 .. k -> S] /\ \A a, b \in 1 .. k : f[a] = f[b] => a = b
  BY Fun_BijectionProperties
<1> DEFINE F == {f[i] : i \in 1 .. n}
           g == [i \in 1 .. n |-> f[i]]
<1>4. 1 .. n \subseteq 1 .. k
  BY <1>1
<1>5. g \in [1 .. n -> F] /\ (\A a, b \in 1 .. n : g[a] = g[b] => a = b)
  BY <1>3, <1>4
<1>6. \A t \in F : \E i \in 1 .. n : g[i] = t
  OBVIOUS
<1>7. g \in Bijection(1 .. n, F)
  BY <1>5, <1>6, Fun_IsBij
<1>8. ExistsBijection(1 .. n, F)
  BY <1>7, Fun_ExistsBij
<1>9. IsFiniteSet(1 .. n) /\ Cardinality(1 .. n) = n
  BY FS_Interval
<1>10. Cardinality(F) = n
  BY <1>8, <1>9, FS_Bijection
<1>11. F \in SUBSET S
  BY <1>3, <1>4
<1> QED
  BY <1>10, <1>11

\* What Fresh picks is free, and as many as were asked for.
LEMMA FreshIsFree ==
    ASSUME NEW cs, NEW n \in Nat, n <= Cardinality(Free(cs))
    PROVE  Fresh(cs, n) \in SUBSET Free(cs) /\ Cardinality(Fresh(cs, n)) = n
<1>1. IsFiniteSet(Free(cs))
  BY PoolAssumption, FS_Subset DEF Free, At
<1>2. Cardinality(Free(cs)) \in Nat
  BY <1>1, FS_CardinalityType
<1>3. \E F \in SUBSET Free(cs) : Cardinality(F) = n
  BY <1>1, <1>2, SubsetOfSize
<1> QED
  BY <1>3 DEF Fresh

\* A refill touches free identities only.
LEMMA RefillsTakeFree ==
    ASSUME NEW cs \in [Conns -> Places], Refills(cs)
    PROVE  /\ conn' \in [Conns -> Places]
           /\ \A c \in Conns : cs[c] # "free" => conn'[c] = cs[c]
<1>1. CASE Closed \/ Deficit(cs) <= 0
  BY <1>1 DEF Refills
<1>2. CASE ~(Closed \/ Deficit(cs) <= 0)
  <2>1. Cardinality(Ready(cs)) \in Nat /\ Cardinality(InFlight(cs)) \in Nat
    BY PoolAssumption, FS_Subset, FS_CardinalityType DEF Ready, InFlight, At
  <2>2. Deficit(cs) \in Nat /\ Deficit(cs) <= Cardinality(Free(cs))
    BY <1>2, <2>1, PoolAssumption DEF Deficit, Refills
  <2>3. Fresh(cs, Deficit(cs)) \in SUBSET Free(cs)
    BY <2>2, FreshIsFree
  <2>4. conn' = Moved(cs, Fresh(cs, Deficit(cs)), "refilling")
    BY <1>2 DEF Refills
  <2> QED
    BY <2>3, <2>4 DEF Moved, Free, At, Places
<1> QED
  BY <1>1, <1>2

-----------------------------------------------------------------------------
\* A step that leaves the callers alone, and the connections in use as they are.
LEMMA PoolStep ==
    ASSUME PoolInv, UNCHANGED <<stream, out>>, TypeOK',
           \A c \in Conns : conn[c] = "used" => conn'[c] = "used"
    PROVE  PoolInv'
BY DEF PoolInv, TurnsAreSeparate, TypeOK

\* A step in which one caller lets go of what it held, or holds on to nothing.
LEMMA CallerLetsGo ==
    ASSUME PoolInv, NEW s \in Streams, out' = [out EXCEPT ![s] = NoConn], TypeOK',
           \A c \in Conns : conn[c] = "used" /\ c # out[s] => conn'[c] = "used"
    PROVE  PoolInv'
<1>1. out'[s] = NoConn /\ \A t \in Streams \ {s} : out'[t] = out[t]
  BY DEF PoolInv, TypeOK
<1>2. \A t \in Streams \ {s} : out'[t] # NoConn =>
         out'[t] \in Conns /\ conn[out[t]] = "used" /\ out[t] # out[s]
  <2> SUFFICES ASSUME NEW t \in Streams \ {s}, out'[t] # NoConn
               PROVE  out'[t] \in Conns /\ conn[out[t]] = "used" /\ out[t] # out[s]
    OBVIOUS
  <2>1. out[t] = out'[t] /\ out[t] \in Conns
    BY <1>1 DEF PoolInv, TypeOK
  <2>2. conn[out[t]] = "used" /\ out[s] # out[t]
    BY <2>1 DEF PoolInv, TurnsAreSeparate
  <2> QED
    BY <2>1, <2>2
<1>3. \A t, u \in Streams \ {s} : out'[t] # NoConn /\ t # u => out'[u] # out'[t]
  BY <1>1 DEF PoolInv, TurnsAreSeparate
<1> QED
  BY <1>1, <1>2, <1>3 DEF PoolInv, TurnsAreSeparate

\* A step that hands caller s a connection nobody had in use.
LEMMA CallerIsGiven ==
    ASSUME PoolInv, NEW s \in Streams, NEW c \in Conns, out' = [out EXCEPT ![s] = c], TypeOK',
           out[s] = NoConn, conn[c] # "used", conn'[c] = "used",
           \A d \in Conns : conn[d] = "used" => conn'[d] = "used"
    PROVE  PoolInv'
<1>1. out'[s] = c /\ \A t \in Streams \ {s} : out'[t] = out[t]
  BY DEF PoolInv, TypeOK
<1>2. \A t \in Streams \ {s} : out'[t] # NoConn =>
         out'[t] \in Conns /\ conn'[out'[t]] = "used" /\ out'[t] # c
  BY <1>1 DEF PoolInv, TypeOK, TurnsAreSeparate
<1>3. \A t, u \in Streams \ {s} : out'[t] # NoConn /\ t # u => out'[u] # out'[t]
  BY <1>1 DEF PoolInv, TurnsAreSeparate
<1>4. c # NoConn
  BY PoolAssumption
<1> QED
  BY <1>1, <1>2, <1>3, <1>4 DEF PoolInv, TurnsAreSeparate

-----------------------------------------------------------------------------
\* Whatever is moved is still somewhere, and what is not moved is where it was.
LEMMA MovedTyped ==
    ASSUME NEW cs \in [Conns -> Places], NEW K, NEW p \in Places
    PROVE  /\ Moved(cs, K, p) \in [Conns -> Places]
           /\ \A c \in Conns : Moved(cs, K, p)[c] = IF c \in K THEN p ELSE cs[c]
BY DEF Moved

\* The pool is empty and nobody has called.
LEMMA InitInv == Init => PoolInv
BY PoolAssumption DEF Init, PoolInv, TypeOK, TurnsAreSeparate

\* Refill and disposal tasks work on connections that are not in use.
LEMMA TasksInv ==
    ASSUME PoolInv, NEW c \in Conns, RefillOpens(c) \/ RefillFails(c) \/ Disposed(c)
    PROVE  PoolInv'
<1>1. CASE RefillOpens(c)
  <2>1. TypeOK'
    BY <1>1 DEF PoolInv, TypeOK, RefillOpens
  <2> QED
    BY <1>1, <2>1, PoolStep DEF RefillOpens, PoolInv, TypeOK
<1>2. CASE RefillFails(c)
  <2>1. TypeOK'
    BY <1>2, PoolAssumption DEF PoolInv, TypeOK, RefillFails, Outage
  <2> QED
    BY <1>2, <2>1, PoolStep DEF RefillFails, PoolInv, TypeOK
<1>3. CASE Disposed(c)
  <2>1. TypeOK'
    BY <1>3 DEF PoolInv, TypeOK, Disposed
  <2> QED
    BY <1>3, <2>1, PoolStep DEF Disposed, PoolInv, TypeOK
<1> QED
  BY <1>1, <1>2, <1>3

\* The warm-up opens free identities, and puts what it opened.
LEMMA WarmupStartsInv ==
    ASSUME PoolInv, NEW n \in 1 .. Size, WarmupStarts(n) PROVE PoolInv'
<1>1. conn \in [Conns -> Places] /\ n \in Nat
  BY PoolAssumption DEF PoolInv, TypeOK, Places
<1>2. Fresh(conn, n) \in SUBSET Free(conn)
  BY <1>1, FreshIsFree DEF WarmupStarts
<1>3. /\ conn' \in [Conns -> Places]
      /\ \A c \in Conns : conn[c] = "used" => conn'[c] = "used"
  BY <1>1, <1>2, MovedTyped DEF WarmupStarts, Free, At, Places
<1>4. TypeOK'
  BY <1>3 DEF PoolInv, TypeOK, WarmupStarts, Places
<1> QED
  BY <1>3, <1>4, PoolStep DEF WarmupStarts

\* A warm-up's connection opens or fails on its own.
LEMMA WarmupOpensInv ==
    ASSUME PoolInv, NEW c \in Conns, WarmupOpens(c) PROVE PoolInv'
<1>1. TypeOK'
  BY PoolAssumption DEF PoolInv, TypeOK, WarmupOpens, Outage
<1> QED
  BY <1>1, PoolStep DEF WarmupOpens, PoolInv, TypeOK

\* The top-up after a warm-up is a refill.
LEMMA WarmupEndsInv == ASSUME PoolInv, WarmupEnds PROVE PoolInv'
<1> DEFINE warmed == Moved(conn, At(conn, {"warm"}), "ready")
<1>1. conn \in [Conns -> Places]
  BY DEF PoolInv, TypeOK, Places
<1>2. warmed \in [Conns -> Places] /\ \A c \in Conns : conn[c] = "used" => warmed[c] = "used"
  BY <1>1, MovedTyped DEF At, Places
<1>3. conn' = warmed \/ Refills(warmed)
  BY DEF WarmupEnds
<1>4. conn' \in [Conns -> Places] /\ \A c \in Conns : conn[c] = "used" => conn'[c] = "used"
  BY <1>2, <1>3, RefillsTakeFree
<1>5. TypeOK'
  BY <1>4 DEF PoolInv, TypeOK, WarmupEnds, Places
<1> QED
  BY <1>4, <1>5, PoolStep DEF WarmupEnds

-----------------------------------------------------------------------------
\* A caller that holds nothing is given a connection that is ready.
LEMMA GivenInv ==
    ASSUME PoolInv, NEW s \in Streams, NEW cs \in [Conns -> Places], NEW c \in Conns,
           cs[c] = "ready", conn[c] = "ready", stream[s] \in {"idle", "waiting"},
           \A d \in Conns : conn[d] = "used" => cs[d] = "used",
           Given(s, c, cs), UNCHANGED <<inline, warmup, closing, outages, lost>>
    PROVE  PoolInv'
<1> DEFINE given == [cs EXCEPT ![c] = "used"]
<1>1. given \in [Conns -> Places] /\ given[c] = "used"
      /\ \A d \in Conns : conn[d] = "used" => given[d] = "used"
  BY DEF Places
<1>2. conn' \in [Conns -> Places] /\ conn'[c] = "used"
      /\ \A d \in Conns : conn[d] = "used" => conn'[d] = "used"
  BY <1>1, RefillsTakeFree DEF Given
<1>3. out[s] = NoConn /\ out' = [out EXCEPT ![s] = c]
  BY DEF PoolInv, TypeOK, Given
<1>4. TypeOK'
  <2>1. c # NoConn
    BY PoolAssumption
  <2>2. stream' \in [Streams -> {"idle", "waiting", "opening", "starting", "using"}]
        /\ stream'[s] \in {"starting", "using"}
        /\ \A t \in Streams \ {s} : stream'[t] = stream[t]
    BY DEF PoolInv, TypeOK, Given
  <2>3. out' \in [Streams -> Conns \cup {NoConn}] /\ out'[s] = c
        /\ \A t \in Streams \ {s} : out'[t] = out[t]
    BY <1>3 DEF PoolInv, TypeOK
  <2>4. \A t \in Streams : out'[t] # NoConn <=> stream'[t] \in {"opening", "starting", "using"}
    BY <2>1, <2>2, <2>3 DEF PoolInv, TypeOK
  <2> QED
    BY <1>2, <2>2, <2>3, <2>4 DEF PoolInv, TypeOK, Places
<1> QED
  BY <1>2, <1>3, <1>4, CallerIsGiven

\* acquire: a pooled connection, one of its own, or a wait.
LEMMA AcquireInv ==
    ASSUME PoolInv, NEW s \in Streams, NEW stale \in SUBSET Conns, Acquire(s, stale)
    PROVE  PoolInv'
<1> DEFINE cs == Moved(conn, stale, "dirty")
<1>1. conn \in [Conns -> Places] /\ stale \subseteq Ready(conn) /\ stream[s] = "idle"
  BY DEF PoolInv, TypeOK, Places, Acquire
<1>2. /\ cs \in [Conns -> Places]
      /\ \A c \in Conns : cs[c] = IF c \in stale THEN "dirty" ELSE conn[c]
  BY <1>1, MovedTyped DEF Places
<1>3. /\ \A d \in Conns : conn[d] = "used" => cs[d] = "used"
      /\ \A c \in Conns : cs[c] \in {"ready", "free"} => conn[c] = cs[c]
  BY <1>1, <1>2 DEF Ready, At
<1>4. out[s] = NoConn
  BY <1>1 DEF PoolInv, TypeOK
<1> HIDE DEF cs
<1>5. ASSUME NEW c \in Ready(cs), Given(s, c, cs) PROVE PoolInv'
  <2>1. c \in Conns /\ cs[c] = "ready"
    BY DEF Ready, At
  <2>2. UNCHANGED <<inline, warmup, closing, outages, lost>>
    BY DEF Acquire
  <2> QED
    BY <1>1, <1>2, <1>3, <1>5, <2>1, <2>2, GivenInv
<1>6. ASSUME Free(cs) # {}, NEW c \in Fresh(cs, 1), conn' = [cs EXCEPT ![c] = "used"],
             out' = [out EXCEPT ![s] = c], stream' = [stream EXCEPT ![s] = "opening"]
      PROVE  PoolInv'
  <2>1. 1 <= Cardinality(Free(cs))
    <3>1. IsFiniteSet(Free(cs))
      BY PoolAssumption, FS_Subset DEF Free, At
    <3> QED
      BY <1>6, <3>1, FS_EmptySet, FS_CardinalityType
  <2>2. c \in Conns /\ cs[c] = "free"
    BY <2>1, FreshIsFree DEF Free, At
  <2>3. /\ conn' \in [Conns -> Places] /\ conn'[c] = "used" /\ conn[c] # "used"
        /\ \A d \in Conns : conn[d] = "used" => conn'[d] = "used"
    BY <1>2, <1>3, <1>6, <2>2 DEF Places
  <2>4. TypeOK'
    <3>1. \A t \in Streams : out'[t] # NoConn <=> stream'[t] \in {"opening", "starting", "using"}
      BY <1>6, <2>2, PoolAssumption DEF PoolInv, TypeOK
    <3> QED
      BY <1>6, <2>2, <2>3, <3>1 DEF PoolInv, TypeOK, Acquire, Places
  <2> QED
    BY <1>4, <1>6, <2>2, <2>3, <2>4, CallerIsGiven
<1>7. ASSUME Refills(cs), stream' = [stream EXCEPT ![s] = "waiting"], UNCHANGED out
      PROVE  PoolInv'
  <2>1. /\ conn' \in [Conns -> Places]
        /\ \A d \in Conns : conn[d] = "used" => conn'[d] = "used"
    BY <1>2, <1>3, <1>7, RefillsTakeFree
  <2>2. TypeOK'
    BY <1>1, <1>7, <2>1 DEF PoolInv, TypeOK, Acquire, Places
  <2> QED
    BY <1>7, <2>1, <2>2 DEF PoolInv, TypeOK, TurnsAreSeparate
<1> QED
  BY <1>5, <1>6, <1>7 DEF Acquire, cs

\* A waiter is given what comes, or holds nothing still.
LEMMA WaiterInv ==
    ASSUME PoolInv, NEW s \in Streams, WaiterGets(s) \/ WaiterGivesUp(s) PROVE PoolInv'
<1>1. CASE WaiterGets(s)
  <2>1. PICK c \in Ready(conn) : Given(s, c, conn)
    BY <1>1 DEF WaiterGets
  <2>2. c \in Conns /\ conn[c] = "ready" /\ conn \in [Conns -> Places]
    BY DEF Ready, At, PoolInv, TypeOK, Places
  <2> QED
    BY <1>1, <2>1, <2>2, GivenInv DEF WaiterGets
<1>2. CASE WaiterGivesUp(s)
  BY <1>2 DEF WaiterGivesUp, PoolInv, TypeOK, TurnsAreSeparate
<1> QED
  BY <1>1, <1>2

-----------------------------------------------------------------------------
\* A caller that holds a connection, and lets go of it for the pool to refill.
LEMMA LetGoAndRefill ==
    ASSUME PoolInv, NEW s \in Streams, NEW p \in {"free", "dirty"},
           stream[s] \in {"opening", "starting", "using"},
           stream' = [stream EXCEPT ![s] = "idle"], out' = [out EXCEPT ![s] = NoConn],
           Refills([conn EXCEPT ![out[s]] = p]),
           outages' \in 0 .. MaxOutages, UNCHANGED <<inline, warmup, closing, lost>>
    PROVE  PoolInv'
<1> DEFINE cs == [conn EXCEPT ![out[s]] = p]
<1>1. out[s] \in Conns
  BY DEF PoolInv, TypeOK
<1>2. cs \in [Conns -> Places] /\ \A c \in Conns : c # out[s] => cs[c] = conn[c]
  BY <1>1 DEF PoolInv, TypeOK, Places
<1>3. /\ conn' \in [Conns -> Places]
      /\ \A c \in Conns : conn[c] = "used" /\ c # out[s] => conn'[c] = "used"
  BY <1>2, RefillsTakeFree
<1>4. TypeOK'
  BY <1>3 DEF PoolInv, TypeOK, Places
<1> QED
  BY <1>3, <1>4, CallerLetsGo

\* A caller's own connection opens, or it is left with none.
LEMMA InlineOpensInv ==
    ASSUME PoolInv, NEW s \in Streams, InlineOpens(s) PROVE PoolInv'
<1>1. stream[s] = "opening" /\ UNCHANGED <<inline, warmup, closing, lost>>
  BY DEF InlineOpens
<1>2. ASSUME stream' = [stream EXCEPT ![s] = "using"], Refills(conn), UNCHANGED <<out, outages>>
      PROVE  PoolInv'
  <2>1. conn \in [Conns -> Places]
    BY DEF PoolInv, TypeOK, Places
  <2>2. conn' \in [Conns -> Places] /\ \A c \in Conns : conn[c] = "used" => conn'[c] = "used"
    BY <1>2, <2>1, RefillsTakeFree
  <2>3. TypeOK'
    BY <1>1, <1>2, <2>2 DEF PoolInv, TypeOK, Places
  <2> QED
    BY <1>2, <2>2, <2>3 DEF PoolInv, TypeOK, TurnsAreSeparate
<1>3. ASSUME stream' = [stream EXCEPT ![s] = "idle"], Outage,
             out' = [out EXCEPT ![s] = NoConn], Refills([conn EXCEPT ![out[s]] = "free"])
      PROVE  PoolInv'
  <2>1. outages' \in 0 .. MaxOutages
    BY <1>3, PoolAssumption DEF Outage, PoolInv, TypeOK
  <2> QED
    BY <1>1, <1>3, <2>1, LetGoAndRefill
<1> QED
  BY <1>2, <1>3 DEF InlineOpens

\* A turn begins to use what it holds, discards it, or loses it.
LEMMA TurnInv ==
    ASSUME PoolInv, NEW s \in Streams, TaskStarts(s) \/ MarkDirty(s) \/ HandshakeAborted(s)
    PROVE  PoolInv'
<1>1. CASE TaskStarts(s)
  BY <1>1 DEF TaskStarts, PoolInv, TypeOK, TurnsAreSeparate
<1>2. CASE MarkDirty(s)
  <2>1. outages' \in 0 .. MaxOutages
    BY <1>2 DEF MarkDirty, PoolInv, TypeOK
  <2> QED
    BY <1>2, <2>1, LetGoAndRefill DEF MarkDirty
<1>3. CASE HandshakeAborted(s)
  <2>1. TypeOK'
    BY <1>3, PoolAssumption DEF HandshakeAborted, PoolInv, TypeOK
  <2> QED
    BY <1>3, <2>1, CallerLetsGo DEF HandshakeAborted
<1> QED
  BY <1>1, <1>2, <1>3

\* Shutdown takes back what no turn holds.
LEMMA ShutdownInv == ASSUME PoolInv, ShutdownStarts \/ ShutdownDrains PROVE PoolInv'
<1>1. CASE ShutdownStarts
  <2>1. conn \in [Conns -> Places]
    BY DEF PoolInv, TypeOK, Places
  <2>2. conn' \in [Conns -> Places] /\ \A c \in Conns : conn[c] = "used" => conn'[c] = "used"
    BY <1>1, <2>1, MovedTyped DEF ShutdownStarts, InFlight, At, Places
  <2>3. TypeOK'
    BY <1>1, <2>2 DEF PoolInv, TypeOK, ShutdownStarts, Places
  <2> QED
    BY <1>1, <2>2, <2>3, PoolStep DEF ShutdownStarts
<1>2. CASE ShutdownDrains
  <2>1. TypeOK'
    BY <1>2 DEF PoolInv, TypeOK, ShutdownDrains, Ready, At
  <2>2. \A c \in Conns : conn[c] = "used" => conn'[c] = "used"
    BY <1>2 DEF PoolInv, TypeOK, ShutdownDrains, Ready, At
  <2> QED
    BY <1>2, <2>1, <2>2, PoolStep DEF ShutdownDrains
<1> QED
  BY <1>1, <1>2

-----------------------------------------------------------------------------
\* Every step, and a stutter, preserves the invariant.
LEMMA NextInv == ASSUME PoolInv, [Next]_vars PROVE PoolInv'
<1>1. CASE UNCHANGED vars
  BY <1>1 DEF vars, PoolInv, TypeOK, TurnsAreSeparate
<1>2. CASE Next
  BY <1>2, TasksInv, WarmupStartsInv, WarmupOpensInv, WarmupEndsInv, AcquireInv, WaiterInv,
     InlineOpensInv, TurnInv, ShutdownInv DEF Next
<1> QED
  BY <1>1, <1>2

\* Two turns never share a connection, and none that a turn holds is pooled or
\* being closed, however many there are of either: what plugins/tts/_pool.py discards
\* every connection for, "to physically separate the WebSockets".
THEOREM PoolSeparatesTurns == Spec => []TurnsAreSeparate
<1>1. PoolInv => TurnsAreSeparate
  BY DEF PoolInv
<1> QED
  BY <1>1, InitInv, NextInv, PTL DEF Spec

-----------------------------------------------------------------------------
(* What the pool has, and what it promises to those who wait.                *)

Pooled(cs) == Ready(cs) \cup InFlight(cs)
Count(cs) == Cardinality(Ready(cs)) + Cardinality(InFlight(cs))

\* Until a warm-up comes in between, the pool and what is opened for it fit its target, so that no
\* refill is a surplus.
Fits == warmup = "no" => Count(conn) <= Size /\ At(conn, {"surplus"}) = {}

\* Only callers that cannot open a connection of their own wait; refills that back off failed.
Waits ==
    /\ (\E s \in Streams : stream[s] = "waiting") => ~inline
    /\ outages = 0 => At(conn, {"failed"}) = {}

\* Shutdown comes after the warm-up and takes back what was on its way.
Drains ==
    /\ Closed => warmup # "on" /\ InFlight(conn) = {}
    /\ closing = "done" => Ready(conn) = {}

TargetInv == Fits /\ Waits /\ Drains /\ WaitersAreProvidedFor

\* The count is of the connections that are ready or on their way.
LEMMA CountPooled ==
    ASSUME NEW cs
    PROVE  /\ IsFiniteSet(Pooled(cs)) /\ Count(cs) = Cardinality(Pooled(cs)) /\ Count(cs) \in Nat
           /\ Cardinality(Ready(cs)) \in Nat /\ Cardinality(InFlight(cs)) \in Nat
<1>1. IsFiniteSet(Ready(cs)) /\ IsFiniteSet(InFlight(cs))
  BY PoolAssumption, FS_Subset DEF Ready, InFlight, At
<1>2. Ready(cs) \cap InFlight(cs) = {}
  BY DEF Ready, InFlight, At
<1>3. Cardinality(Ready(cs)) \in Nat /\ Cardinality(InFlight(cs)) \in Nat
  BY <1>1, FS_CardinalityType
<1>4. /\ IsFiniteSet(Pooled(cs))
      /\ Cardinality(Pooled(cs)) = Cardinality(Ready(cs)) + Cardinality(InFlight(cs)) - Cardinality({})
  BY <1>1, <1>2, FS_Union DEF Pooled
<1> QED
  BY <1>3, <1>4, FS_EmptySet DEF Count

\* A pool that loses some is no larger.
LEMMA SmallerPool ==
    ASSUME NEW cs, NEW ds, Pooled(cs) \subseteq Pooled(ds)
    PROVE  Count(cs) <= Count(ds)
BY CountPooled, FS_Subset

\* A refill opens as many as are missing, and leaves the rest where they are: an open pool is not
\* empty after it, and no larger than its target if it opened any.
LEMMA RefillsFill ==
    ASSUME NEW cs \in [Conns -> Places], Refills(cs)
    PROVE  /\ \A c \in Conns : conn'[c] = cs[c] \/ (cs[c] = "free" /\ conn'[c] = "refilling")
           /\ conn' = cs \/ (~Closed /\ Count(conn') = Size)
           /\ ~Closed => Pooled(conn') # {}
<1>1. CASE Closed
  BY <1>1 DEF Refills
<1>2. CASE ~Closed /\ Deficit(cs) <= 0
  <2>1. conn' = cs
    BY <1>2 DEF Refills
  <2>2. Count(cs) >= Size
    BY <1>2, CountPooled, PoolAssumption DEF Deficit, Count
  <2>3. Pooled(cs) # {}
    BY <2>2, CountPooled, PoolAssumption, FS_EmptySet
  <2> QED
    BY <2>1, <2>3
<1>3. CASE ~Closed /\ ~(Deficit(cs) <= 0)
  <2> DEFINE n == Deficit(cs)
             F == Fresh(cs, n)
  <2>1. n \in Nat /\ n > 0 /\ n <= Cardinality(Free(cs)) /\ Count(cs) + n = Size
    BY <1>3, CountPooled, PoolAssumption DEF Deficit, Refills, Count
  <2>2. F \subseteq Free(cs) /\ Cardinality(F) = n
    BY <2>1, FreshIsFree
  <2>3. conn' = Moved(cs, F, "refilling")
    BY <1>3 DEF Refills
  <2> HIDE DEF F, n
  <2>4. \A c \in Conns : conn'[c] = IF c \in F THEN "refilling" ELSE cs[c]
    BY <2>3 DEF Moved
  <2>5. F \subseteq Conns /\ \A c \in F : cs[c] = "free"
    BY <2>2 DEF Free, At
  <2>6. Ready(conn') = Ready(cs) /\ InFlight(conn') = InFlight(cs) \cup F /\ InFlight(cs) \cap F = {}
    <3>1. Ready(conn') = Ready(cs)
      BY <2>4, <2>5 DEF Ready, At
    <3>2. InFlight(cs) \cap F = {}
      BY <2>5 DEF InFlight, At
    <3>3. InFlight(conn') \subseteq InFlight(cs) \cup F
      BY <2>4 DEF InFlight, At
    <3>4. InFlight(cs) \cup F \subseteq InFlight(conn')
      BY <2>4, <2>5 DEF InFlight, At
    <3> QED
      BY <3>1, <3>2, <3>3, <3>4
  <2>7. IsFiniteSet(F) /\ IsFiniteSet(InFlight(cs))
    BY <2>5, PoolAssumption, FS_Subset DEF InFlight, At
  <2>8. Cardinality(InFlight(cs) \cup F) = Cardinality(InFlight(cs)) + Cardinality(F) - Cardinality({})
    BY <2>6, <2>7, FS_Union
  <2>9. Cardinality(InFlight(conn')) = Cardinality(InFlight(cs)) + n
    BY <2>1, <2>2, <2>6, <2>8, FS_EmptySet, CountPooled
  <2>10. Count(conn') = Size
    BY <2>1, <2>6, <2>9, CountPooled DEF Count
  <2>11. Pooled(conn') # {}
    BY <2>10, CountPooled, PoolAssumption, FS_EmptySet
  <2> QED
    BY <1>3, <2>4, <2>5, <2>10, <2>11
<1> QED
  BY <1>1, <1>2, <1>3

-----------------------------------------------------------------------------
\* A refill under way is new only as part of a pool that fits its target.
NewFit == InFlight(conn') \ InFlight(conn) # {} => Count(conn') <= Size

\* A step that ends with a refill of what it left of the pool.
LEMMA ToppedUp ==
    ASSUME PoolInv, TargetInv, NEW cs \in [Conns -> Places], Refills(cs),
           \A c \in Conns : cs[c] \in {conn[c], "used", "dirty", "free"},
           UNCHANGED <<inline, warmup, closing>>, outages' = 0 => outages = 0,
           (\E s \in Streams : stream'[s] = "waiting") => ~inline
    PROVE  TargetInv' /\ NewFit
<1>1. \A c \in Conns : conn'[c] \in {conn[c], "used", "dirty", "free", "refilling"}
  BY RefillsFill
<1>2. Closed' = Closed
  BY DEF Closed
<1>3. /\ Ready(cs) \subseteq Ready(conn) /\ InFlight(cs) \subseteq InFlight(conn)
      /\ Pooled(cs) \subseteq Pooled(conn)
  BY DEF Ready, InFlight, At, Pooled
<1>4. Count(cs) <= Count(conn) /\ Count(cs) \in Nat /\ Count(conn) \in Nat
  BY <1>3, SmallerPool, CountPooled
<1>5. conn' = cs \/ (~Closed /\ Count(conn') = Size)
  BY RefillsFill
<1>6. Fits'
  <2>1. At(conn', {"surplus"}) \subseteq At(conn, {"surplus"})
    BY <1>1 DEF At
  <2> QED
    BY <1>4, <1>5, <2>1, PoolAssumption DEF TargetInv, Fits
<1>7. Waits'
  <2>1. At(conn', {"failed"}) \subseteq At(conn, {"failed"})
    BY <1>1 DEF At
  <2> QED
    BY <2>1 DEF TargetInv, Waits
<1>8. Drains'
  BY <1>2, <1>3, <1>5 DEF TargetInv, Drains, Closed
<1>9. WaitersAreProvidedFor'
  BY <1>2, RefillsFill DEF WaitersAreProvidedFor, Pooled
<1>10. NewFit
  BY <1>3, <1>4, <1>5, PoolAssumption DEF NewFit
<1> QED
  BY <1>6, <1>7, <1>8, <1>9, <1>10 DEF TargetInv

\* A step without one, that puts nothing in the pool.
LEMMA NotRefilled ==
    ASSUME PoolInv, TargetInv, Pooled(conn') \subseteq Pooled(conn), InFlight(conn') \subseteq InFlight(conn),
           UNCHANGED inline, warmup' \in {warmup, "on"}, closing' = closing,
           Closed => warmup' # "on" /\ Ready(conn') \subseteq Ready(conn),
           warmup' = "no" => At(conn', {"surplus"}) = {},
           outages' = 0 => outages = 0 /\ At(conn', {"failed"}) = {},
           (\E s \in Streams : stream'[s] = "waiting") => ~inline,
           WaitersAreProvidedFor'
    PROVE  TargetInv' /\ NewFit
<1>1. Count(conn') <= Count(conn) /\ Count(conn') \in Nat /\ Count(conn) \in Nat
  BY SmallerPool, CountPooled
<1>2. Fits'
  BY <1>1, PoolAssumption DEF TargetInv, Fits
<1>3. Waits'
  BY DEF TargetInv, Waits
<1>4. Drains'
  BY DEF TargetInv, Drains, Closed
<1>5. NewFit
  BY DEF NewFit
<1> QED
  BY <1>2, <1>3, <1>4, <1>5 DEF TargetInv

-----------------------------------------------------------------------------
\* A pool that nobody has called yet.
LEMMA InitTarget == Init => TargetInv
<1> SUFFICES ASSUME Init PROVE TargetInv
  OBVIOUS
<1>1. Pooled(conn) = {} /\ At(conn, {"surplus"}) = {} /\ At(conn, {"failed"}) = {}
  BY DEF Init, Pooled, Ready, InFlight, At
<1>2. Count(conn) = 0
  BY <1>1, CountPooled, FS_EmptySet
<1> QED
  BY <1>1, <1>2, PoolAssumption DEF Init, TargetInv, Fits, Waits, Drains, WaitersAreProvidedFor, Closed, Pooled

\* A refill that opens fits an open pool that no warm-up fills; one that fails is an outage; what
\* is disposed of is not in the pool, unless it failed or came too late.
LEMMA TasksTarget ==
    ASSUME PoolInv, TargetInv, NEW c \in Conns, RefillOpens(c) \/ RefillFails(c) \/ Disposed(c)
    PROVE  TargetInv' /\ NewFit
<1> USE DEF PoolInv, TypeOK
<1>1. UNCHANGED <<stream, out, inline, warmup, closing, lost>>
  BY DEF RefillOpens, RefillFails, Disposed
<1>2. \A d \in Conns \ {c} : conn'[d] = conn[d]
  BY DEF RefillOpens, RefillFails, Disposed
<1>3. (\E s \in Streams : stream'[s] = "waiting") => ~inline
  BY <1>1 DEF TargetInv, Waits
<1>4. CASE RefillOpens(c)
  <2>1. conn[c] = "refilling" /\ conn'[c] \in {"surplus", "ready"} /\ UNCHANGED outages
    BY <1>4 DEF RefillOpens
  <2>2. c \in InFlight(conn) /\ c \in Pooled(conn')
    BY <2>1 DEF InFlight, At, Pooled, Ready
  <2>3. ~Closed
    BY <2>2 DEF TargetInv, Drains
  <2>4. warmup = "no" => conn'[c] = "ready"
    <3>1. Cardinality(InFlight(conn)) # 0
      <4>1. IsFiniteSet(InFlight(conn))
        BY PoolAssumption, FS_Subset DEF InFlight, At
      <4> QED
        BY <2>2, <4>1, FS_EmptySet
    <3>2. warmup = "no" => Cardinality(Ready(conn)) < Size
      BY <3>1, CountPooled, PoolAssumption DEF TargetInv, Fits, Count
    <3> QED
      BY <1>4, <3>2, CountPooled, PoolAssumption DEF RefillOpens
  <2>5. Pooled(conn') \subseteq Pooled(conn) /\ InFlight(conn') \subseteq InFlight(conn)
    BY <1>2, <2>1 DEF Pooled, Ready, InFlight, At
  <2>6. /\ At(conn', {"failed"}) \subseteq At(conn, {"failed"})
        /\ warmup = "no" => At(conn', {"surplus"}) \subseteq At(conn, {"surplus"})
    BY <1>2, <2>1, <2>4 DEF At
  <2>7. WaitersAreProvidedFor'
    BY <2>2 DEF WaitersAreProvidedFor, Pooled
  <2>8. warmup' \in {warmup, "on"} /\ (warmup' = "no" => At(conn', {"surplus"}) = {})
    BY <1>1, <2>6 DEF TargetInv, Fits
  <2>9. outages' = 0 => outages = 0 /\ At(conn', {"failed"}) = {}
    BY <2>1, <2>6 DEF TargetInv, Waits
  <2> QED
    BY <1>1, <1>3, <2>3, <2>5, <2>7, <2>8, <2>9, NotRefilled
<1>5. CASE RefillFails(c)
  <2>1. conn[c] = "refilling" /\ conn'[c] = "failed" /\ outages' # 0
    BY <1>5, PoolAssumption DEF RefillFails, Outage
  <2>2. Pooled(conn') \subseteq Pooled(conn) /\ InFlight(conn') \subseteq InFlight(conn)
    BY <1>2, <2>1 DEF Pooled, Ready, InFlight, At
  <2>3. c \in InFlight(conn)
    BY <2>1 DEF InFlight, At
  <2>4. ~Closed
    BY <2>3 DEF TargetInv, Drains
  <2>5. At(conn', {"surplus"}) \subseteq At(conn, {"surplus"})
    BY <1>2, <2>1 DEF At
  <2>6. WaitersAreProvidedFor'
    BY <2>1 DEF WaitersAreProvidedFor
  <2>7. warmup' \in {warmup, "on"} /\ (warmup' = "no" => At(conn', {"surplus"}) = {})
    BY <1>1, <2>5 DEF TargetInv, Fits
  <2> QED
    BY <1>1, <1>3, <2>1, <2>2, <2>4, <2>6, <2>7, NotRefilled
<1>6. CASE Disposed(c)
  <2>1. conn[c] \in {"failed", "surplus", "dirty"} /\ conn'[c] = "free" /\ UNCHANGED outages
    BY <1>6 DEF Disposed
  <2>2. /\ Pooled(conn') \subseteq Pooled(conn) /\ InFlight(conn') \subseteq InFlight(conn)
        /\ Ready(conn') \subseteq Ready(conn)
        /\ At(conn', {"surplus"}) \subseteq At(conn, {"surplus"})
        /\ At(conn', {"failed"}) \subseteq At(conn, {"failed"})
    BY <1>2, <2>1 DEF Pooled, Ready, InFlight, At
  <2>3. outages = 0 /\ warmup = "no" => conn[c] = "dirty"
    BY <2>1 DEF TargetInv, Fits, Waits, At
  <2>4. outages = 0 /\ warmup = "no" => Pooled(conn) \subseteq Pooled(conn')
    BY <1>2, <2>3 DEF Pooled, Ready, InFlight, At
  <2>5. WaitersAreProvidedFor'
    BY <1>1, <2>1, <2>4 DEF WaitersAreProvidedFor, TargetInv, Pooled, Closed
  <2>6. /\ warmup' \in {warmup, "on"} /\ (warmup' = "no" => At(conn', {"surplus"}) = {})
        /\ outages' = 0 => outages = 0 /\ At(conn', {"failed"}) = {}
        /\ Closed => warmup' # "on" /\ Ready(conn') \subseteq Ready(conn)
    BY <1>1, <2>1, <2>2 DEF TargetInv, Fits, Waits, Drains
  <2> QED
    BY <1>1, <1>3, <2>2, <2>5, <2>6, NotRefilled
<1> QED
  BY <1>4, <1>5, <1>6

\* A warm-up opens what is not of the pool until it ends.
LEMMA WarmupTarget ==
    ASSUME PoolInv, TargetInv,
           (\E n \in 1 .. Size : WarmupStarts(n)) \/ (\E c \in Conns : WarmupOpens(c))
    PROVE  TargetInv' /\ NewFit
<1> USE DEF PoolInv, TypeOK
<1>1. /\ UNCHANGED <<stream, out, inline, closing, lost>> /\ warmup' \in {warmup, "on"}
      /\ Closed => warmup' # "on"
      /\ outages' = 0 => outages = 0
  BY PoolAssumption DEF WarmupStarts, WarmupOpens, TargetInv, Drains, Outage
<1>2. \A c \in Conns : \/ conn'[c] = conn[c]
                       \/ conn[c] = "free" /\ conn'[c] = "warming"
                       \/ conn[c] = "warming" /\ conn'[c] \in {"warm", "free"}
  <2>1. ASSUME NEW n \in 1 .. Size, WarmupStarts(n)
        PROVE  \A c \in Conns : conn'[c] = conn[c] \/ (conn[c] = "free" /\ conn'[c] = "warming")
    <3>1. Fresh(conn, n) \in SUBSET Free(conn)
      BY <2>1, FreshIsFree, PoolAssumption DEF WarmupStarts
    <3> QED
      BY <2>1, <3>1 DEF WarmupStarts, Moved, Free, At
  <2>2. ASSUME NEW d \in Conns, WarmupOpens(d)
        PROVE  \A c \in Conns : \/ conn'[c] = conn[c]
                                \/ conn[c] = "warming" /\ conn'[c] \in {"warm", "free"}
    BY <2>2 DEF WarmupOpens
  <2> QED
    BY <2>1, <2>2
<1>3. /\ Ready(conn') = Ready(conn) /\ InFlight(conn') = InFlight(conn)
      /\ At(conn', {"surplus"}) = At(conn, {"surplus"}) /\ At(conn', {"failed"}) = At(conn, {"failed"})
  BY <1>2 DEF Ready, InFlight, At
<1>4. /\ Pooled(conn') \subseteq Pooled(conn) /\ WaitersAreProvidedFor'
      /\ (\E s \in Streams : stream'[s] = "waiting") => ~inline
      /\ warmup' = "no" => At(conn', {"surplus"}) = {}
      /\ outages' = 0 => outages = 0 /\ At(conn', {"failed"}) = {}
  BY <1>1, <1>3 DEF TargetInv, Fits, Waits, WaitersAreProvidedFor, Pooled, Closed
<1> QED
  BY <1>1, <1>3, <1>4, NotRefilled

\* Then all of it is put, and the Bailian plugin tops the pool up.
LEMMA WarmupEndsTarget ==
    ASSUME PoolInv, TargetInv, WarmupEnds
    PROVE  TargetInv' /\ NewFit
<1> USE DEF PoolInv, TypeOK
<1> DEFINE warmed == Moved(conn, At(conn, {"warm"}), "ready")
<1>1. /\ UNCHANGED <<stream, out, inline, closing, outages, lost>> /\ warmup = "on" /\ warmup' = "done"
      /\ ~Closed
  BY DEF WarmupEnds, TargetInv, Drains
<1>2. /\ warmed \in [Conns -> Places]
      /\ \A c \in Conns : warmed[c] = IF conn[c] = "warm" THEN "ready" ELSE conn[c]
  BY MovedTyped DEF At, Places
<1>3. conn' = warmed \/ Refills(warmed)
  BY DEF WarmupEnds
<1> HIDE DEF warmed
<1>4. InFlight(warmed) = InFlight(conn) /\ At(warmed, {"failed"}) = At(conn, {"failed"})
  BY <1>2 DEF InFlight, At
<1>5. \/ conn' = warmed
      \/ Count(conn') = Size /\ \A c \in Conns : conn'[c] = warmed[c] \/ conn'[c] = "refilling"
  BY <1>2, <1>3, RefillsFill
<1>6. At(conn', {"failed"}) \subseteq At(conn, {"failed"})
  BY <1>4, <1>5 DEF At
<1>7. NewFit
  BY <1>4, <1>5, PoolAssumption DEF NewFit
<1> QED
  BY <1>1, <1>6, <1>7 DEF TargetInv, Fits, Waits, Drains, WaitersAreProvidedFor, Closed

-----------------------------------------------------------------------------
\* acquire refills what it takes; only a caller with a slow path of its own takes nothing.
LEMMA AcquireTarget ==
    ASSUME PoolInv, TargetInv, NEW s \in Streams, NEW stale \in SUBSET Conns, Acquire(s, stale)
    PROVE  TargetInv' /\ NewFit
<1> USE DEF PoolInv, TypeOK
<1> DEFINE cs == Moved(conn, stale, "dirty")
<1>1. UNCHANGED <<inline, warmup, closing, outages, lost>> /\ ~Closed /\ stale \subseteq Ready(conn)
  BY DEF Acquire
<1>2. cs \in [Conns -> Places] /\ \A c \in Conns : cs[c] \in {conn[c], "dirty"}
  BY MovedTyped DEF Places
<1> HIDE DEF cs
<1>3. ASSUME NEW c \in Ready(cs), Given(s, c, cs) PROVE TargetInv' /\ NewFit
  <2> DEFINE given == [cs EXCEPT ![c] = "used"]
  <2>1. given \in [Conns -> Places] /\ \A d \in Conns : given[d] \in {conn[d], "used", "dirty", "free"}
    BY <1>2 DEF Places
  <2>2. Refills(given) /\ \A t \in Streams : stream'[t] = "waiting" => stream[t] = "waiting"
    BY <1>3 DEF Given
  <2> HIDE DEF given
  <2>3. (\E t \in Streams : stream'[t] = "waiting") => ~inline
    BY <2>2 DEF TargetInv, Waits
  <2> QED
    BY <1>1, <2>1, <2>2, <2>3, ToppedUp
<1>4. ASSUME inline, NEW c \in Conns, conn' = [cs EXCEPT ![c] = "used"],
             stream' = [stream EXCEPT ![s] = "opening"]
      PROVE  TargetInv' /\ NewFit
  <2>1. \A d \in Conns : conn'[d] \in {conn[d], "used", "dirty"}
    BY <1>2, <1>4
  <2>2. /\ Pooled(conn') \subseteq Pooled(conn) /\ InFlight(conn') \subseteq InFlight(conn)
        /\ At(conn', {"surplus"}) \subseteq At(conn, {"surplus"})
        /\ At(conn', {"failed"}) \subseteq At(conn, {"failed"})
    BY <2>1 DEF Pooled, Ready, InFlight, At
  <2>3. \A t \in Streams : stream'[t] # "waiting"
    BY <1>4 DEF TargetInv, Waits
  <2>4. WaitersAreProvidedFor'
    BY <2>3 DEF WaitersAreProvidedFor
  <2>5. /\ warmup' \in {warmup, "on"} /\ (warmup' = "no" => At(conn', {"surplus"}) = {})
        /\ outages' = 0 => outages = 0 /\ At(conn', {"failed"}) = {}
    BY <1>1, <2>2 DEF TargetInv, Fits, Waits
  <2> QED
    BY <1>1, <2>2, <2>3, <2>4, <2>5, NotRefilled
<1>5. ASSUME ~inline, Refills(cs) PROVE TargetInv' /\ NewFit
  BY <1>1, <1>2, <1>5, ToppedUp
<1>6. Fresh(cs, 1) \subseteq Conns \/ Free(cs) = {}
  <2>1. IsFiniteSet(Free(cs))
    BY PoolAssumption, FS_Subset DEF Free, At
  <2>2. Free(cs) # {} => 1 <= Cardinality(Free(cs))
    BY <2>1, FS_EmptySet, FS_CardinalityType
  <2>3. Free(cs) # {} => Fresh(cs, 1) \in SUBSET Free(cs)
    BY <2>2, FreshIsFree
  <2> QED
    BY <2>3 DEF Free, At
<1> QED
  BY <1>3, <1>4, <1>5, <1>6 DEF Acquire, cs

\* So do a waiter that gets one and a turn that discards one.
LEMMA CallersTarget ==
    ASSUME PoolInv, TargetInv, NEW s \in Streams, WaiterGets(s) \/ InlineOpens(s) \/ MarkDirty(s)
    PROVE  TargetInv' /\ NewFit
<1> USE DEF PoolInv, TypeOK
<1>1. UNCHANGED <<inline, warmup, closing>> /\ (outages' = 0 => outages = 0)
  BY PoolAssumption DEF WaiterGets, InlineOpens, MarkDirty, Outage
<1>2. \A t \in Streams : stream'[t] = "waiting" => stream[t] = "waiting"
  BY DEF WaiterGets, InlineOpens, MarkDirty, Given
<1>3. (\E t \in Streams : stream'[t] = "waiting") => ~inline
  BY <1>2 DEF TargetInv, Waits
<1>4. ASSUME NEW c \in Conns, NEW p \in {"used", "dirty", "free"}, Refills([conn EXCEPT ![c] = p])
      PROVE  TargetInv' /\ NewFit
  <2> DEFINE cs == [conn EXCEPT ![c] = p]
  <2>1. cs \in [Conns -> Places] /\ \A d \in Conns : cs[d] \in {conn[d], "used", "dirty", "free"}
    BY DEF Places
  <2>2. Refills(cs)
    BY <1>4
  <2> HIDE DEF cs
  <2> QED
    BY <1>1, <1>3, <2>1, <2>2, ToppedUp
<1>5. CASE Refills(conn)
  BY <1>1, <1>3, <1>5, ToppedUp DEF Places
<1>6. CASE WaiterGets(s)
  BY <1>4, <1>6 DEF WaiterGets, Given, Ready, At
<1>7. CASE InlineOpens(s) \/ MarkDirty(s)
  <2>1. out[s] \in Conns
    BY <1>7 DEF InlineOpens, MarkDirty
  <2> QED
    BY <1>4, <1>5, <1>7, <2>1 DEF InlineOpens, MarkDirty
<1> QED
  BY <1>6, <1>7

\* Others leave the pool as it is.
LEMMA OthersTarget ==
    ASSUME PoolInv, TargetInv, NEW s \in Streams,
           WaiterGivesUp(s) \/ TaskStarts(s) \/ HandshakeAborted(s)
    PROVE  TargetInv' /\ NewFit
<1> USE DEF PoolInv, TypeOK
<1>1. UNCHANGED <<conn, inline, warmup, closing, outages>>
  BY DEF WaiterGivesUp, TaskStarts, HandshakeAborted
<1>2. \A t \in Streams : stream'[t] = "waiting" => stream[t] = "waiting"
  BY DEF WaiterGivesUp, TaskStarts, HandshakeAborted
<1> QED
  BY <1>1, <1>2 DEF TargetInv, Fits, Waits, Drains, WaitersAreProvidedFor, Closed, NewFit

\* Shutdown takes back what is on its way, and drains.
LEMMA ShutdownTarget ==
    ASSUME PoolInv, TargetInv, ShutdownStarts \/ ShutdownDrains
    PROVE  TargetInv' /\ NewFit
<1> USE DEF PoolInv, TypeOK
<1>1. UNCHANGED <<stream, inline, warmup, outages>> /\ Closed'
  BY DEF ShutdownStarts, ShutdownDrains, Closed
<1>2. \A c \in Conns : conn'[c] = conn[c] \/ conn'[c] \in {"free", "dirty"}
  BY DEF ShutdownStarts, ShutdownDrains, Moved
<1>3. /\ Pooled(conn') \subseteq Pooled(conn) /\ InFlight(conn') \subseteq InFlight(conn)
      /\ At(conn', {"surplus"}) \subseteq At(conn, {"surplus"})
      /\ At(conn', {"failed"}) \subseteq At(conn, {"failed"})
  BY <1>2 DEF Pooled, Ready, InFlight, At
<1>4. Count(conn') <= Count(conn) /\ Count(conn') \in Nat /\ Count(conn) \in Nat
  BY <1>3, SmallerPool, CountPooled
<1>5. InFlight(conn') = {} /\ warmup # "on"
  <2>1. CASE ShutdownStarts
    BY <2>1 DEF ShutdownStarts, Moved, InFlight, At
  <2>2. CASE ShutdownDrains
    BY <1>3, <2>2 DEF ShutdownDrains, TargetInv, Drains, Closed
  <2> QED
    BY <2>1, <2>2
<1>6. closing' = "done" => Ready(conn') = {}
  BY DEF ShutdownStarts, ShutdownDrains
<1> QED
  BY <1>1, <1>3, <1>4, <1>5, <1>6, PoolAssumption
     DEF TargetInv, Fits, Waits, Drains, WaitersAreProvidedFor, NewFit

\* Every step keeps to the target, and what it opens fits it.
LEMMA NextTarget ==
    ASSUME PoolInv, TargetInv, [Next]_vars
    PROVE  TargetInv' /\ NewFit
<1>1. CASE UNCHANGED vars
  BY <1>1 DEF TargetInv, Fits, Waits, Drains, WaitersAreProvidedFor, Closed, NewFit, vars
<1>2. CASE Next
  BY <1>2, TasksTarget, WarmupTarget, WarmupEndsTarget, AcquireTarget, CallersTarget, OthersTarget,
     ShutdownTarget DEF Next
<1> QED
  BY <1>1, <1>2

\* The invariants of the pool, in every state it can be in.
THEOREM PoolTarget == Spec => [](PoolInv /\ TargetInv)
<1>1. Init => PoolInv /\ TargetInv
  BY InitInv, InitTarget
<1>2. PoolInv /\ TargetInv /\ [Next]_vars => (PoolInv /\ TargetInv)'
  BY NextInv, NextTarget
<1> QED
  BY <1>1, <1>2, PTL DEF Spec

\* While a caller waits, a connection is pooled or on its way (acquire, _maybe_refill), until the
\* provider fails and but for the warm-up: the refills of a pool that is topped up whenever one
\* is taken, given up or discarded never leave it empty.
THEOREM PoolProvides == Spec => []WaitersAreProvidedFor
<1>1. TargetInv => WaitersAreProvidedFor
  BY DEF TargetInv
<1> QED
  BY <1>1, PoolTarget, PTL

\* No refill oversubscribes, and a pool that was shut down stays empty (_maybe_refill, shutdown).
THEOREM PoolKeeps == Spec => PoolKeepsToTarget
<1>1. PoolInv /\ TargetInv /\ [Next]_vars =>
        [InFlight(conn') \ InFlight(conn) # {} =>
           Cardinality(Ready(conn')) + Cardinality(InFlight(conn')) <= Size]_vars
  BY NextTarget DEF NewFit, Count
<1>2. TargetInv => DrainedForGood
  BY DEF TargetInv, Drains, DrainedForGood, Closed
<1> QED
  BY <1>1, <1>2, PoolTarget, PTL DEF Spec, PoolKeepsToTarget, RefillsFitTarget
=============================================================================
