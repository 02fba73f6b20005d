--------------------------- MODULE RoleGroupProofs ---------------------------
(***************************************************************************)
(* The safety of a team of devices, for any number of devices, presses,    *)
(* replies and stops, and any delay of the frames.                         *)
(*                                                                         *)
(* MediaInv: what is heard.  That no two captures are heard at once is not *)
(* inductive: it must be known that a reply that is about to sound is of   *)
(* the newest capture, and that every device that has answered its stop    *)
(* with "ok" has since sounded for that capture only.                      *)
(* CleanupInv: the last stop of a device is the last thing that it does,   *)
(* so that its result still says what the report of the cleanup says.      *)
(* StreamInv: what is in flight when a press, a stop or a failure comes in *)
(* between.  Epochs rise along the stream, there is one round at most that *)
(* this side is in or is about to enter, the Agent leaves it with a stop   *)
(* before it speaks in the next, and in it one turn is under way: what is  *)
(* read of the round is therefore in its place, and anything else is late. *)
(***************************************************************************)
EXTENDS RoleGroup, TLAPS

Results == {"none", "queued", "ok", "failed", "superseded"}
Replies == [st : {"none", "waiting", "presenting", "sounding", "dying", "done"},
            dev : Devices \cup {"none"}, cap : Nat, ended : BOOLEAN,
            receipt : {"none", "completed", "failed"}]
Agents == [owes : BOOLEAN, cap : Nat, epoch : Nat, heard : BOOLEAN, turn : Turns \cup {0},
           sent : BOOLEAN, next : Nat \ {0}, stops : Nat]
Frames == [type : {"prepared"}]
          \cup [type : {"capturing"}, cap : Nat, epoch : Nat]
          \cup [type : {"stop"}, cap : Nat, epoch : Nat, dev : Devices]
          \cup [type : {"start"}, turn : Turns, epoch : Nat, dev : Devices]
          \cup [type : {"end"}, turn : Turns, epoch : Nat]

\* The stops that wait for a device: those of captures and rounds, and then the last one.
Ending == phase \in {"stopping", "closed"}
Ops == (IF Ending THEN {"end"} ELSE {"capture", "epoch"}) \X Nat

Typed ==
    /\ phase \in {"idle", "preparing", "open", "draining", "stopping", "closed"}
    /\ asked \in BOOLEAN /\ broken \in BOOLEAN /\ released \in BOOLEAN /\ spoken \in BOOLEAN
    /\ cap \in Nat /\ epoch \in Nat /\ last \in Nat
    /\ play \in Turns \cup {0} /\ reply \in [Turns -> Replies]
    /\ barrier \in [Devices -> Results]
    /\ line \in [Devices -> Seq(Ops)] /\ running \subseteq Devices
    /\ sound \in [Devices -> Turns \cup {0}]
    /\ cleanup \in [end : [Devices -> Results], stray : BOOLEAN, ok : BOOLEAN]
    /\ inq \in Seq(Frames) /\ agent \in Agents

\* A reply is played until it is over or revoked, for the newest capture of a scene that goes on.
Playing ==
    /\ \A t \in Turns : reply[t].st \in {"waiting", "presenting", "sounding"} <=> play = t
    /\ play # 0 => phase \in {"preparing", "open"} /\ ~asked /\ reply[play].cap = cap
    /\ \A t \in Turns : reply[t].st # "done" => reply[t].receipt = "none"

\* What a device sounds is of the newest capture.
OfNewest(d) == sound[d] # 0 => reply[sound[d]].cap = cap

\* Once a device has confirmed its stop, or a reply is about to sound, nothing older is heard.
Heard ==
    /\ \A d \in Devices : sound[d] # 0 => reply[sound[d]].st \in {"sounding", "dying", "done"}
    /\ \A d \in Devices : barrier[d] = "ok" => OfNewest(d)
    /\ \A t \in Turns : reply[t].st = "presenting" => \A d \in Devices : OfNewest(d)

MediaInv == Playing /\ Heard /\ OneCaptureIsHeard

\* Results are of last stops, of devices that nothing plays on any more.
CleanupInv ==
    /\ \A d \in running : line[d] # <<>>
    /\ \A d \in Devices : cleanup.end[d] = "ok" => Ending /\ sound[d] = 0
    /\ Ending /\ ~cleanup.stray => \A t \in Turns : reply[t].st \in {"none", "done"}
    /\ cleanup.ok => phase = "closed" /\ Silenced(cleanup.end) /\ ~cleanup.stray
    /\ phase = "closed" => \A d \in Devices : line[d] = <<>>

GroupInv == Typed /\ MediaInv /\ CleanupInv

-----------------------------------------------------------------------------
\* A frame that is read is one that was sent, and so is what remains.
LEMMA HeadTyped ==
    ASSUME Typed, inq # <<>>
    PROVE  Head(inq) \in Frames /\ Tail(inq) \in Seq(Frames)
BY DEF Typed

\* A frame by what it carries.
LEMMA FrameFields ==
    ASSUME NEW f \in Frames
    PROVE  /\ f.type = "capturing" => f.cap \in Nat /\ f.epoch \in Nat
           /\ f.type = "stop" => f.cap \in Nat /\ f.epoch \in Nat /\ f.dev \in Devices
           /\ f.type = "start" => f.turn \in Turns /\ f.epoch \in Nat /\ f.dev \in Devices
           /\ f.type = "end" => f.turn \in Turns /\ f.epoch \in Nat
BY DEF Frames

\* The frames that the Agent sends.
LEMMA FramesSent ==
    ASSUME NEW e \in Nat
    PROVE  /\ \A c \in Nat : Capturing(c, e) \in Frames
           /\ \A c \in Nat, d \in Devices : StopFrame(c, e, d) \in Frames
           /\ \A t \in Turns, d \in Devices : ReplyStart(t, e, d) \in Frames
           /\ \A t \in Turns : ReplyEnd(t, e) \in Frames
<1>1. \A c \in Nat : Capturing(c, e) \in [type : {"capturing"}, cap : Nat, epoch : Nat]
  BY DEF Capturing
<1>2. \A c \in Nat, d \in Devices :
         StopFrame(c, e, d) \in [type : {"stop"}, cap : Nat, epoch : Nat, dev : Devices]
  BY DEF StopFrame
<1>3. \A t \in Turns, d \in Devices :
         ReplyStart(t, e, d) \in [type : {"start"}, turn : Turns, epoch : Nat, dev : Devices]
  BY DEF ReplyStart
<1>4. \A t \in Turns : ReplyEnd(t, e) \in [type : {"end"}, turn : Turns, epoch : Nat]
  BY DEF ReplyEnd
<1> QED
  BY <1>1, <1>2, <1>3, <1>4, Zenon DEF Frames

\* What the Agent keeps.
LEMMA AgentFields ==
    ASSUME NEW a \in Agents
    PROVE  /\ a.cap \in Nat /\ a.epoch \in Nat /\ a.epoch + 1 \in Nat /\ a.turn \in Turns \cup {0}
           /\ [a EXCEPT !.owes = FALSE, !.epoch = @ + 1] \in Agents
           /\ [a EXCEPT !.sent = TRUE] \in Agents
           /\ [a EXCEPT !.stops = @ + 1] \in Agents
           /\ [a EXCEPT !.stops = @ + 1, !.epoch = @ + 1, !.heard = FALSE, !.turn = 0] \in Agents
           /\ a.next \in Turns => [a EXCEPT !.turn = a.next, !.sent = FALSE, !.next = @ + 1] \in Agents
<1> DEFINE e == a.epoch + 1
           s == a.stops + 1
           n == a.next + 1
<1>1. a.cap \in Nat /\ a.epoch \in Nat /\ e \in Nat /\ s \in Nat /\ n \in Nat \ {0}
      /\ a.turn \in Turns \cup {0}
  BY DEF Agents
<1>2. [a EXCEPT !.sent = TRUE] \in Agents
  BY DEF Agents
<1> HIDE DEF e, s, n
<1>3. [a EXCEPT !.owes = FALSE, !.epoch = e] \in Agents
  BY <1>1 DEF Agents
<1>4. [a EXCEPT !.stops = s] \in Agents
  BY <1>1 DEF Agents
<1>5. [a EXCEPT !.stops = s, !.epoch = e, !.heard = FALSE, !.turn = 0] \in Agents
  BY <1>1 DEF Agents
<1>6. a.next \in Turns => [a EXCEPT !.turn = a.next, !.sent = FALSE, !.next = n] \in Agents
  BY <1>1 DEF Agents
<1> QED
  BY <1>1, <1>2, <1>3, <1>4, <1>5, <1>6 DEF e, s, n

\* The Agent sends a frame, and nothing else changes on this side.
LEMMA SendTyped ==
    ASSUME Typed, NEW f \in Frames, AgentSends(f), agent' \in Agents, Here
    PROVE  Typed'
<1>1. inq' \in Seq(Frames)
  BY DEF Typed, AgentSends
<1> QED
  BY <1>1 DEF Typed, Here, Ending, Ops, media, stops

\* A record of the turn is kept as it is but for the fields that a step writes.
LEMMA ReplyFields ==
    ASSUME NEW r \in Replies
    PROVE  /\ \A x \in {"none", "completed", "failed"} : 
                 /\ Done(r, x) \in Replies /\ Done(r, x).st = "done"
                 /\ Done(r, x).cap = r.cap /\ Done(r, x).receipt = x
           /\ \A x \in {"presenting", "sounding", "dying"} : 
                 /\ [r EXCEPT !.st = x] \in Replies /\ [r EXCEPT !.st = x].st = x
                 /\ [r EXCEPT !.st = x].cap = r.cap /\ [r EXCEPT !.st = x].receipt = r.receipt
           /\ /\ [r EXCEPT !.ended = TRUE] \in Replies
              /\ [r EXCEPT !.ended = TRUE].st = r.st
              /\ [r EXCEPT !.ended = TRUE].cap = r.cap
              /\ [r EXCEPT !.ended = TRUE].receipt = r.receipt
<1>1. \A x \in {"none", "completed", "failed"} : 
         /\ Done(r, x) \in Replies /\ Done(r, x).st = "done"
         /\ Done(r, x).cap = r.cap /\ Done(r, x).receipt = x
  BY DEF Replies, Done, NoReply
<1>2. \A x \in {"presenting", "sounding", "dying"} : 
         /\ [r EXCEPT !.st = x] \in Replies /\ [r EXCEPT !.st = x].st = x
         /\ [r EXCEPT !.st = x].cap = r.cap /\ [r EXCEPT !.st = x].receipt = r.receipt
  BY DEF Replies
<1>3. /\ [r EXCEPT !.ended = TRUE] \in Replies
      /\ [r EXCEPT !.ended = TRUE].st = r.st
      /\ [r EXCEPT !.ended = TRUE].cap = r.cap
      /\ [r EXCEPT !.ended = TRUE].receipt = r.receipt
  BY DEF Replies
<1> QED
  BY <1>1, <1>2, <1>3

-----------------------------------------------------------------------------
(* How steps may move what is heard.                                         *)

\* Replies stay as they are, and devices only fall silent.
Still ==
    /\ UNCHANGED <<media, cap>>
    /\ play # 0 => phase' \in {"preparing", "open"} /\ ~asked'
    /\ \A d \in Devices : /\ sound'[d] \in {0, sound[d]}
                          /\ barrier'[d] = "ok" => barrier[d] = "ok" \/ sound'[d] = 0

\* A step that starts no sound, and settles no barrier before its sound has stopped.
LEMMA StillMedia == Typed /\ MediaInv /\ Still => MediaInv'
<1> SUFFICES ASSUME Typed, MediaInv, Still PROVE MediaInv'
  OBVIOUS
<1>1. Playing'
  BY DEF MediaInv, Playing, Still, media
<1>2. \A d \in Devices : OfNewest(d) => OfNewest(d)'
  BY DEF OfNewest, Still, media
<1>3. \A d \in Devices : sound'[d] = 0 => OfNewest(d)'
  BY DEF OfNewest
<1>4. Heard'
  BY <1>2, <1>3 DEF MediaInv, Heard, Still, media
<1>5. OneCaptureIsHeard'
  BY DEF MediaInv, OneCaptureIsHeard, Still, media
<1> QED
  BY <1>1, <1>4, <1>5 DEF MediaInv

\* Replies keep their captures, and what is heard stays the same.
LEMMA CapsKept ==
    ASSUME Typed, OneCaptureIsHeard, UNCHANGED sound, \A t \in Turns : reply'[t].cap = reply[t].cap
    PROVE  OneCaptureIsHeard'
<1>1. \A d \in Devices : sound[d] # 0 => sound[d] \in Turns
  BY DEF Typed
<1>2. \A d \in Devices : sound'[d] # 0 => reply'[sound'[d]].cap = reply[sound[d]].cap
  BY <1>1
<1> QED
  BY <1>2 DEF OneCaptureIsHeard

\* What plays is revoked: nobody is about to sound any more, and no device has answered a new
\* stop.  What was heard may still be.
Revoking ==
    /\ Revoked
    /\ UNCHANGED sound
    /\ \/ UNCHANGED <<cap, barrier>>
       \/ \A d \in Devices : barrier'[d] # "ok"

\* A revocation ends the reply that plays, and no other.
LEMMA RevokedReplies ==
    ASSUME Typed, Playing, Revoked
    PROVE  /\ play' = 0 /\ reply' \in [Turns -> Replies]
           /\ \A t \in Turns : /\ reply'[t].st \in {"none", "dying", "done"}
                               /\ reply'[t].cap = reply[t].cap
                               /\ reply'[t].receipt = reply[t].receipt
                               /\ reply'[t].st = "dying" => reply[t].st \in {"presenting", "sounding", "dying"}
                               /\ reply[t].st \in {"sounding", "dying", "done"}
                                    => reply'[t].st \in {"dying", "done"}
<1>1. CASE play = 0
  <2>1. \A t \in Turns : reply[t] \in Replies /\ reply[t].st \in {"none", "dying", "done"}
    BY <1>1 DEF Typed, Playing, Replies, Turns
  <2> QED
    BY <1>1, <2>1 DEF Revoked, Typed
<1>2. CASE play # 0
  <2> DEFINE r == reply[play]
             x == IF r.st \in {"presenting", "sounding"} THEN [r EXCEPT !.st = "dying"] ELSE Done(r, "none")
  <2>1. play \in Turns /\ r \in Replies /\ r.st \in {"waiting", "presenting", "sounding"} /\ r.receipt = "none"
    BY <1>2 DEF Typed, Playing
  <2>2. /\ x \in Replies /\ x.st \in {"dying", "done"} /\ x.cap = r.cap /\ x.receipt = r.receipt
        /\ x.st = "dying" => r.st \in {"presenting", "sounding"}
    <3>1. CASE r.st \in {"presenting", "sounding"}
      BY <2>1, <3>1, ReplyFields
    <3>2. CASE r.st = "waiting"
      <4>1. x = Done(r, "none")
        BY <3>2
      <4> HIDE DEF x
      <4> QED
        BY <2>1, <3>2, <4>1, ReplyFields
    <3> QED
      BY <2>1, <3>1, <3>2
  <2>3. play' = 0 /\ reply' = [reply EXCEPT ![play] = x]
    BY <1>2 DEF Revoked, Cancelled
  <2>4. \A t \in Turns \ {play} : reply[t] \in Replies /\ reply[t].st \in {"none", "dying", "done"}
    BY DEF Typed, Playing, Replies
  <2> HIDE DEF x
  <2>5. \A t \in Turns : reply'[t] = IF t = play THEN x ELSE reply[t]
    BY <2>3 DEF Typed
  <2>6. reply' \in [Turns -> Replies]
    BY <2>2, <2>3 DEF Typed
  <2> QED
    BY <2>1, <2>2, <2>3, <2>4, <2>5, <2>6
<1> QED
  BY <1>1, <1>2

\* A revocation settles no barrier while it waits for the sound to stop.
LEMMA RevokingMedia == Typed /\ MediaInv /\ Revoking => MediaInv'
<1> SUFFICES ASSUME Typed, MediaInv, Revoking PROVE MediaInv'
  OBVIOUS
<1>1. /\ play' = 0
      /\ \A t \in Turns : /\ reply'[t].st \in {"none", "dying", "done"}
                          /\ reply'[t].cap = reply[t].cap
                          /\ reply'[t].receipt = reply[t].receipt
                          /\ reply'[t].st = "dying" => reply[t].st \in {"presenting", "sounding", "dying"}
                          /\ reply[t].st \in {"sounding", "dying", "done"}
                               => reply'[t].st \in {"dying", "done"}
  BY RevokedReplies DEF MediaInv, Revoking
<1>2. \A d \in Devices : sound'[d] = sound[d] /\ sound[d] \in Turns \cup {0}
  BY DEF Typed, Revoking
<1>3. Playing'
  <2>1. \A t \in Turns : (reply'[t].st \in {"waiting", "presenting", "sounding"}) <=> play' = t
    BY <1>1 DEF Turns
  <2>2. \A t \in Turns : reply'[t].st # "done" => reply'[t].receipt = "none"
    BY <1>1 DEF MediaInv, Playing
  <2> QED
    BY <1>1, <2>1, <2>2 DEF Playing
<1>4. \A d \in Devices : sound'[d] # 0 => reply'[sound'[d]].st \in {"sounding", "dying", "done"}
  BY <1>1, <1>2 DEF MediaInv, Heard
<1>5. \A d \in Devices : barrier'[d] = "ok" => OfNewest(d)'
  BY <1>1, <1>2 DEF MediaInv, Heard, OfNewest, Revoking
<1>6. OneCaptureIsHeard'
  BY <1>1, <1>2 DEF MediaInv, OneCaptureIsHeard
<1> QED
  BY <1>1, <1>3, <1>4, <1>5, <1>6 DEF MediaInv, Heard

-----------------------------------------------------------------------------
(* How steps may move the cleanup.                                           *)

\* Before the last stops nothing is said of them.
LEMMA CleanupStays ==
    ASSUME Typed, CleanupInv, ~Ending, ~Ending', UNCHANGED cleanup,
           \A d \in running' : line'[d] # <<>>
    PROVE  CleanupInv'
BY DEF Typed, CleanupInv, Ending

\* A stop that has ended leaves the line of its device, and its result with its capture, or with
\* the cleanup.
LEMMA Concluded ==
    ASSUME Typed, CleanupInv, NEW d \in Devices, line[d] # <<>>,
           NEW result \in {"ok", "failed", "superseded"}, Concludes(d, result)
    PROVE  /\ line' \in [Devices -> Seq(Ops)] /\ \A e \in Devices \ {d} : line'[e] = line[e]
           /\ running' = running \ {d}
           /\ barrier' \in [Devices -> Results]
           /\ \A e \in Devices : barrier'[e] = barrier[e] \/ (e = d /\ barrier'[e] = result)
           /\ cleanup' \in [end : [Devices -> Results], stray : BOOLEAN, ok : BOOLEAN]
           /\ cleanup'.stray = cleanup.stray /\ cleanup'.ok = cleanup.ok
           /\ \A e \in Devices : \/ cleanup'.end[e] = cleanup.end[e]
                                 \/ e = d /\ cleanup'.end[e] = result /\ Ending
<1> DEFINE op == Head(line[d])
<1>1. op \in Ops /\ Tail(line[d]) \in Seq(Ops)
  BY DEF Typed
<1>2. op[1] = "end" => Ending
  BY <1>1 DEF Ops
<1>3. line' \in [Devices -> Seq(Ops)] /\ \A e \in Devices \ {d} : line'[e] = line[e]
  BY <1>1 DEF Typed, Concludes
<1>4. /\ barrier' \in [Devices -> Results]
      /\ \A e \in Devices : barrier'[e] = barrier[e] \/ (e = d /\ barrier'[e] = result)
  BY DEF Typed, Concludes, Results
<1>5. CASE op[1] # "end"
  BY <1>3, <1>4, <1>5 DEF Typed, Concludes
<1>6. CASE op[1] = "end"
  <2> DEFINE c == [cleanup EXCEPT !.end[d] = result]
  <2>1. cleanup' = c
    BY <1>6 DEF Concludes
  <2>2. /\ c \in [end : [Devices -> Results], stray : BOOLEAN, ok : BOOLEAN]
        /\ c.stray = cleanup.stray /\ c.ok = cleanup.ok
        /\ \A e \in Devices : c.end[e] = IF e = d THEN result ELSE cleanup.end[e]
    BY DEF Typed, Results
  <2> HIDE DEF c
  <2> QED
    BY <1>2, <1>3, <1>4, <1>6, <2>1, <2>2 DEF Concludes
<1> QED
  BY <1>5, <1>6

-----------------------------------------------------------------------------
(* Steps of the pipeline and of run().                                       *)

\* Nobody plays, nothing waits.
LEMMA InitGroup == Init => GroupInv
<1> SUFFICES ASSUME Init PROVE GroupInv
  OBVIOUS
<1>1. NoReply \in Replies /\ NoReply.st = "none" /\ NoReply.receipt = "none"
  BY DEF NoReply, Replies
<1>2. NoAgent \in Agents
  BY DEF NoAgent, Agents
<1>3. cleanup \in [end : [Devices -> Results], stray : BOOLEAN, ok : BOOLEAN]
      /\ ~cleanup.ok /\ \A d \in Devices : cleanup.end[d] = "none"
  BY DEF Init, Results
<1>4. Typed
  <2>1. line \in [Devices -> Seq(Ops)] /\ inq \in Seq(Frames)
    BY DEF Init
  <2>2. barrier \in [Devices -> Results] /\ sound \in [Devices -> Turns \cup {0}] /\ running \subseteq Devices
    BY DEF Init, Results
  <2>3. reply \in [Turns -> Replies] /\ agent \in Agents
    BY <1>1, <1>2 DEF Init
  <2> QED
    BY <1>3, <2>1, <2>2, <2>3 DEF Init, Typed
<1>5. MediaInv
  BY <1>1 DEF Init, MediaInv, Playing, Heard, OfNewest, OneCaptureIsHeard, Turns
<1>6. CleanupInv
  BY <1>3 DEF Init, CleanupInv, Ending
<1> QED
  BY <1>4, <1>5, <1>6 DEF GroupInv

\* run() begins, a capture is over, its transcript is delivered.
LEMMA PipelineGroup ==
    ASSUME GroupInv, Begins \/ Release \/ Delivers
    PROVE  GroupInv'
<1>1. Typed'
  <2>1. [agent EXCEPT !.heard = TRUE] \in Agents
    BY DEF GroupInv, Typed, Agents
  <2>2. ~Ending /\ ~Ending'
    BY DEF Begins, Release, Delivers, Ending
  <2> QED
    BY <2>1, <2>2 DEF GroupInv, Typed, Begins, Release, Delivers, media, stops, wires, Ops
<1>2. Still
  BY DEF GroupInv, MediaInv, Playing, Begins, Release, Delivers, media, stops, Still, Typed, Turns
<1>3. CleanupInv'
  <2>1. ~Ending /\ ~Ending' /\ UNCHANGED <<cleanup, line, running>>
    BY DEF Begins, Release, Delivers, Ending, stops
  <2> QED
    BY <2>1, CleanupStays DEF GroupInv, CleanupInv
<1> QED
  BY <1>1, <1>2, <1>3, StillMedia DEF GroupInv

\* A press revokes what plays, and no device has answered its stop yet.
LEMMA PressGroup ==
    ASSUME GroupInv, NEW c \in Captures, Press(c)
    PROVE  GroupInv'
<1>1. ~Ending /\ ~Ending' /\ c \in Nat
  BY DEF Press, Ending, Captures
<1>2. Revoking
  BY DEF Press, Revoking, GroupInv, Typed
<1>3. [agent EXCEPT !.owes = TRUE, !.cap = c, !.heard = FALSE, !.turn = 0] \in Agents
  BY <1>1 DEF GroupInv, Typed, Agents
<1>4. play' = 0 /\ reply' \in [Turns -> Replies]
  BY <1>2, RevokedReplies DEF GroupInv, MediaInv, Revoking
<1>5. \A d \in Devices : line'[d] \in Seq(Ops)' /\ line'[d] # <<>>
  <2> TAKE d \in Devices
  <2>1. line[d] \in Seq(Ops) /\ <<"capture", c>> \in Ops /\ Ops' = Ops
    BY <1>1 DEF Ops, GroupInv, Typed
  <2>2. line'[d] = Append(line[d], <<"capture", c>>)
    BY DEF Press
  <2> QED
    BY <2>1, <2>2
<1>6. Typed'
  BY <1>1, <1>3, <1>4, <1>5 DEF GroupInv, Typed, Press, Results
<1>7. CleanupInv'
  BY <1>1, <1>5, CleanupStays DEF GroupInv, Press, Typed
<1> QED
  BY <1>2, <1>6, <1>7, RevokingMedia DEF GroupInv

\* A close that is asked for revokes what plays.
LEMMA CloseAskedGroup ==
    ASSUME GroupInv, CloseAsked
    PROVE  GroupInv'
<1>1. ~Ending /\ ~Ending'
  BY DEF CloseAsked, Ending
<1>2. Revoking
  BY DEF CloseAsked, Revoking, stops
<1>3. [agent EXCEPT !.heard = FALSE] \in Agents
  BY DEF GroupInv, Typed, Agents
<1>4. play' = 0 /\ reply' \in [Turns -> Replies]
  BY <1>2, RevokedReplies DEF GroupInv, MediaInv, Revoking
<1>5. Typed'
  BY <1>1, <1>3, <1>4 DEF GroupInv, Typed, CloseAsked, stops, Ops
<1>6. CleanupInv'
  BY <1>1, CleanupStays DEF GroupInv, CleanupInv, CloseAsked, stops
<1> QED
  BY <1>2, <1>5, <1>6, RevokingMedia DEF GroupInv

\* So does the end of the stream; no stop is under way then.
LEMMA LeavesGroup ==
    ASSUME GroupInv, StreamFails \/ PrepareFails \/ CloseEnds
    PROVE  GroupInv'
<1>1. ~Ending /\ ~Ending' /\ LeavesRun
  BY DEF StreamFails, PrepareFails, CloseEnds, LeavesRun, Ending
<1>2. Revoking
  BY <1>1 DEF LeavesRun, Revoking
<1>3. NoAgent \in Agents
  BY DEF NoAgent, Agents
<1>4. play' = 0 /\ reply' \in [Turns -> Replies]
  BY <1>2, RevokedReplies DEF GroupInv, MediaInv, Revoking
<1>5. Typed'
  BY <1>1, <1>3, <1>4 DEF GroupInv, Typed, LeavesRun, Results
<1>6. CleanupInv'
  BY <1>1, CleanupStays DEF GroupInv, LeavesRun
<1> QED
  BY <1>2, <1>5, <1>6, RevokingMedia DEF GroupInv

\* When the drain ends nothing plays but what a presentation left behind may.
LEMMA DrainGroup ==
    ASSUME GroupInv, DrainEnds
    PROVE  GroupInv'
<1> DEFINE left == \E t \in Turns : reply[t].st \in {"presenting", "sounding", "dying"}
<1>1. ~Ending /\ Ending' /\ play = 0
  BY DEF GroupInv, MediaInv, Playing, DrainEnds, Ending
<1>2. /\ cleanup' \in [end : [Devices -> Results], stray : BOOLEAN, ok : BOOLEAN]
      /\ cleanup'.end = cleanup.end /\ cleanup'.ok = cleanup.ok /\ cleanup'.stray = left
  BY DEF GroupInv, Typed, DrainEnds
<1>3. line' \in [Devices -> Seq(Ops')] /\ \A d \in Devices : line'[d] # <<>>
  BY <1>1 DEF DrainEnds, Ops
<1>4. Typed'
  BY <1>2, <1>3 DEF GroupInv, Typed, DrainEnds, media, wires
<1>5. Still
  BY <1>1 DEF DrainEnds, media, Still
<1>6. CleanupInv'
  <2>1. ~left => \A t \in Turns : reply[t].st \in {"none", "done"}
    BY <1>1 DEF GroupInv, Typed, Replies, MediaInv, Playing, Turns
  <2>2. UNCHANGED <<reply, running>> /\ phase' # "closed"
    BY DEF DrainEnds, media
  <2>3. ~cleanup.ok /\ \A d \in Devices : cleanup.end[d] # "ok"
    BY <1>1 DEF GroupInv, CleanupInv, Ending
  <2> HIDE DEF left
  <2>4. Ending' /\ ~cleanup'.stray => \A t \in Turns : reply'[t].st \in {"none", "done"}
    BY <1>2, <2>1, <2>2
  <2> QED
    BY <1>2, <1>3, <2>2, <2>3, <2>4 DEF CleanupInv, GroupInv, Typed
<1> QED
  BY <1>4, <1>5, <1>6, StillMedia DEF GroupInv

\* The report is of the last stop of every device.
LEMMA ClosesGroup ==
    ASSUME GroupInv, Closes
    PROVE  GroupInv'
<1>1. Ending /\ Ending' /\ play = 0
  BY DEF GroupInv, MediaInv, Playing, Closes, Ending
<1>2. /\ cleanup' \in [end : [Devices -> Results], stray : BOOLEAN, ok : BOOLEAN]
      /\ cleanup'.end = cleanup.end /\ cleanup'.stray = cleanup.stray
      /\ cleanup'.ok = (Silenced(cleanup.end) /\ ~cleanup.stray)
  BY DEF GroupInv, Typed, Closes
<1>3. Typed'
  BY <1>1, <1>2 DEF GroupInv, Typed, Closes, media, stops, wires, Ops
<1>4. Still
  BY <1>1 DEF Closes, media, stops, Still
<1>5. CleanupInv'
  BY <1>1, <1>2 DEF GroupInv, CleanupInv, Closes, media, stops, Silenced
<1> QED
  BY <1>3, <1>4, <1>5, StillMedia DEF GroupInv

-----------------------------------------------------------------------------
(* Frames of the Agent.                                                      *)

\* What the readers of frames have in common.
LEMMA ReadsFrame ==
    ASSUME GroupInv, NEW type, Reads(type)
    PROVE  /\ Head(inq) \in Frames /\ Head(inq).type = type /\ inq' \in Seq(Frames)
           /\ phase \in {"preparing", "open"} /\ ~Ending
BY HeadTyped DEF GroupInv, Reads, Ending

\* The stream is prepared, a capture is confirmed.
LEMMA AcceptGroup ==
    ASSUME GroupInv, AcceptPrepared \/ AcceptCapturing
    PROVE  GroupInv'
<1>1. /\ inq' \in Seq(Frames) /\ ~Ending /\ phase \in {"preparing", "open"} /\ phase' \in {"open", phase}
      /\ UNCHANGED <<asked, cap, released, media, stops, sound, cleanup, spoken, agent>>
  BY ReadsFrame DEF AcceptPrepared, AcceptCapturing
<1>2. broken' \in BOOLEAN /\ epoch' \in Nat /\ last' \in Nat
  <2>1. CASE AcceptPrepared
    BY <2>1 DEF GroupInv, Typed, AcceptPrepared
  <2>2. CASE AcceptCapturing
    <3>1. Head(inq).epoch \in Nat
      BY <2>2, ReadsFrame, FrameFields DEF AcceptCapturing
    <3> QED
      BY <2>2, <3>1 DEF GroupInv, Typed, AcceptCapturing
  <2> QED
    BY <2>1, <2>2
<1>3. ~Ending'
  BY <1>1 DEF Ending
<1>4. Typed'
  BY <1>1, <1>2, <1>3 DEF GroupInv, Typed, media, stops, Ops
<1>5. Still
  BY <1>1 DEF GroupInv, MediaInv, Playing, media, stops, Still
<1>6. CleanupInv'
  BY <1>1, <1>3, CleanupStays DEF GroupInv, CleanupInv, stops
<1> QED
  BY <1>4, <1>5, <1>6, StillMedia DEF GroupInv

\* A stop of a round revokes what plays, and waits in the line of its device.
LEMMA AcceptStopGroup ==
    ASSUME GroupInv, AcceptStop
    PROVE  GroupInv'
<1> DEFINE f == Head(inq)
<1>1. /\ f \in Frames /\ f.type = "stop" /\ inq' \in Seq(Frames)
      /\ ~Ending /\ ~Ending' /\ f.epoch \in Nat
  BY ReadsFrame, FrameFields DEF AcceptStop, Ending
<1>2. epoch' \in Nat
  BY <1>1 DEF GroupInv, Typed, AcceptStop
<1>3. line' \in [Devices -> Seq(Ops)] /\ \A d \in Devices : line[d] # <<>> => line'[d] # <<>>
  <2> DEFINE op == <<"epoch", f.epoch>>
  <2>1. op \in Ops
    BY <1>1 DEF Ops
  <2> HIDE DEF op
  <2>2. \A d \in Devices : Append(line[d], op) \in Seq(Ops) /\ Append(line[d], op) # <<>>
    <3> TAKE d \in Devices
    <3>1. line[d] \in Seq(Ops)
      BY DEF GroupInv, Typed
    <3> HIDE DEF Ops
    <3> QED
      BY ONLY <2>1, <3>1
  <2>3. line' = line \/ line' = [line EXCEPT ![f.dev] = Append(line[f.dev], op)]
    BY DEF AcceptStop, op
  <2>4. f.dev \in Devices \/ line' = line
    BY <1>1, FrameFields DEF AcceptStop
  <2> HIDE DEF f
  <2> QED
    BY <2>2, <2>3, <2>4 DEF GroupInv, Typed
<1>4. CASE Revoked
  <2>1. Revoking
    BY <1>4 DEF Revoking, AcceptStop
  <2>2. play' = 0 /\ reply' \in [Turns -> Replies]
    BY <1>4, RevokedReplies DEF GroupInv, MediaInv
  <2>3. Typed'
    BY <1>1, <1>2, <1>3, <2>2 DEF GroupInv, Typed, AcceptStop, Ops
  <2>4. CleanupInv'
    BY <1>1, <1>3, CleanupStays DEF GroupInv, CleanupInv, AcceptStop, Typed
  <2> QED
    BY <2>1, <2>3, <2>4, RevokingMedia DEF GroupInv
<1>5. CASE UNCHANGED media
  <2>1. Still
    BY <1>5 DEF GroupInv, MediaInv, Playing, Still, AcceptStop, media
  <2>2. Typed'
    BY <1>1, <1>2, <1>3, <1>5 DEF GroupInv, Typed, AcceptStop, Ops, media
  <2>3. CleanupInv'
    BY <1>1, <1>3, CleanupStays DEF GroupInv, CleanupInv, AcceptStop, Typed
  <2> QED
    BY <2>1, <2>2, <2>3, StillMedia DEF GroupInv
<1> QED
  BY <1>4, <1>5 DEF AcceptStop

\* A reply begins for the newest capture, and waits.
LEMMA AcceptStartGroup ==
    ASSUME GroupInv, AcceptReplyStart
    PROVE  GroupInv'
<1> DEFINE f == Head(inq)
           r == [NoReply EXCEPT !.st = "waiting", !.dev = f.dev, !.cap = cap]
<1>1. /\ f \in Frames /\ f.turn \in Turns /\ f.dev \in Devices /\ inq' \in Seq(Frames)
      /\ ~Ending /\ ~Ending' /\ phase \in {"preparing", "open"}
      /\ UNCHANGED <<phase, asked, cap, released, epoch, last, stops, sound, cleanup, spoken, agent>>
  BY ReadsFrame, FrameFields DEF AcceptReplyStart, Ending
<1>2. r \in Replies /\ r.st = "waiting" /\ r.cap = cap /\ r.receipt = "none"
  BY <1>1 DEF GroupInv, Typed, Replies, NoReply
<1>3. CleanupInv'
  BY <1>1, CleanupStays DEF GroupInv, CleanupInv, stops
<1>4. CASE UNCHANGED media
  <2>1. Still
    BY <1>1, <1>4 DEF GroupInv, MediaInv, Playing, Still, media, stops
  <2>2. Typed'
    BY <1>1, <1>4 DEF GroupInv, Typed, AcceptReplyStart, Ops, media, stops
  <2> QED
    BY <1>3, <2>1, <2>2, StillMedia DEF GroupInv
<1>5. CASE ~UNCHANGED media
  <2>1. /\ ~asked /\ play = 0 /\ reply[f.turn].st = "none"
        /\ play' = f.turn /\ reply' = [reply EXCEPT ![f.turn] = r] /\ broken' = broken
    BY <1>5 DEF AcceptReplyStart, TooLate
  <2> HIDE DEF r, f
  <2>2. \A t \in Turns : reply'[t] = IF t = f.turn THEN r ELSE reply[t]
    BY <2>1 DEF GroupInv, Typed
  <2>3. Typed'
    BY <1>1, <1>2, <2>1 DEF GroupInv, Typed, Ops, stops
  <2>4. Playing'
    <3>1. \A t \in Turns : reply[t].st \notin {"waiting", "presenting", "sounding"}
      BY <2>1 DEF GroupInv, MediaInv, Playing, Turns
    <3>2. \A t \in Turns : (reply'[t].st \in {"waiting", "presenting", "sounding"}) <=> play' = t
      BY <1>1, <1>2, <2>1, <2>2, <3>1
    <3>3. \A t \in Turns : reply'[t].st # "done" => reply'[t].receipt = "none"
      BY <1>2, <2>2 DEF GroupInv, MediaInv, Playing
    <3> QED
      BY <1>1, <1>2, <2>1, <2>2, <3>2, <3>3 DEF Playing
  <2>5. \A d \in Devices : sound[d] # 0 => sound[d] \in Turns /\ sound[d] # f.turn
    BY <2>1 DEF GroupInv, Typed, MediaInv, Heard
  <2>6. \A d \in Devices : OfNewest(d) => OfNewest(d)'
    BY <1>1, <2>2, <2>5 DEF OfNewest
  <2>7. Heard'
    BY <1>1, <1>2, <2>2, <2>5, <2>6 DEF GroupInv, MediaInv, Heard, stops
  <2>8. OneCaptureIsHeard'
    BY <1>1, <2>2, <2>5 DEF GroupInv, MediaInv, OneCaptureIsHeard
  <2> QED
    BY <1>3, <2>3, <2>4, <2>7, <2>8 DEF GroupInv, MediaInv
<1> QED
  BY <1>4, <1>5

\* The text of a reply ends.
LEMMA AcceptEndGroup ==
    ASSUME GroupInv, AcceptReplyEnd
    PROVE  GroupInv'
<1> DEFINE f == Head(inq)
           r == [reply[f.turn] EXCEPT !.ended = TRUE]
<1>1. /\ f \in Frames /\ f.turn \in Turns /\ inq' \in Seq(Frames)
      /\ ~Ending /\ ~Ending' /\ phase \in {"preparing", "open"}
      /\ UNCHANGED <<phase, asked, cap, released, epoch, last, stops, sound, cleanup, spoken, agent>>
      /\ broken' \in BOOLEAN
  BY ReadsFrame, FrameFields DEF AcceptReplyEnd, Ending, GroupInv, Typed
<1>2. CleanupInv'
  BY <1>1, CleanupStays DEF GroupInv, CleanupInv, stops
<1>3. CASE UNCHANGED media
  <2>1. Still
    BY <1>1, <1>3 DEF GroupInv, MediaInv, Playing, Still, media, stops
  <2>2. Typed'
    BY <1>1, <1>3 DEF GroupInv, Typed, Ops, media, stops
  <2> QED
    BY <1>2, <2>1, <2>2, StillMedia DEF GroupInv
<1>4. CASE ~UNCHANGED media
  <2>1. UNCHANGED play /\ reply' = [reply EXCEPT ![f.turn] = r]
    BY <1>4 DEF AcceptReplyEnd, media
  <2>2. /\ r \in Replies /\ r.st = reply[f.turn].st /\ r.cap = reply[f.turn].cap
        /\ r.receipt = reply[f.turn].receipt
    BY <1>1, ReplyFields DEF GroupInv, Typed
  <2> HIDE DEF r, f
  <2>3. \A t \in Turns : /\ reply'[t].st = reply[t].st /\ reply'[t].cap = reply[t].cap
                         /\ reply'[t].receipt = reply[t].receipt
    BY <1>1, <2>1, <2>2 DEF GroupInv, Typed
  <2>4. Typed'
    BY <1>1, <2>1, <2>2 DEF GroupInv, Typed, Ops, stops
  <2>5. Playing'
    BY <1>1, <2>1, <2>3 DEF GroupInv, Typed, MediaInv, Playing
  <2>6. \A d \in Devices : OfNewest(d) => OfNewest(d)'
    BY <1>1, <2>3 DEF GroupInv, Typed, OfNewest
  <2>7. Heard'
    BY <1>1, <2>3, <2>6 DEF GroupInv, Typed, MediaInv, Heard, stops
  <2>8. OneCaptureIsHeard'
    BY <1>1, <2>3, CapsKept DEF GroupInv, MediaInv
  <2> QED
    BY <1>2, <2>4, <2>5, <2>7, <2>8 DEF GroupInv, MediaInv
<1> QED
  BY <1>3, <1>4

-----------------------------------------------------------------------------
(* Presentations.                                                            *)

\* A presentation that played is over, with a receipt for the Agent.
LEMMA ReceivesGroup ==
    ASSUME GroupInv, NEW t \in Turns, play = t, NEW result \in {"completed", "failed"}, Receives(t, result),
           UNCHANGED <<phase, asked, broken, cap, released, epoch, last, stops, sound, cleanup, spoken, inq>>
    PROVE  GroupInv'
<1> DEFINE r == Done(reply[t], result)
<1>1. r \in Replies /\ r.st = "done" /\ r.cap = reply[t].cap
  <2>1. reply[t] \in Replies
    BY DEF GroupInv, Typed
  <2>2. result = "completed" \/ result = "failed"
    OBVIOUS
  <2>3. CASE result = "completed"
    BY <2>1, <2>3, ReplyFields
  <2>4. CASE result = "failed"
    BY <2>1, <2>4, ReplyFields
  <2> QED
    BY <2>2, <2>3, <2>4
<1>2. play' = 0 /\ reply' = [reply EXCEPT ![t] = r]
  BY DEF Receives
<1>3. agent' \in Agents
  <2>1. [agent EXCEPT !.turn = 0] \in Agents
    BY DEF GroupInv, Typed, Agents
  <2> QED
    BY <2>1 DEF Receives, GroupInv, Typed
<1>4. phase \in {"preparing", "open"} /\ ~Ending /\ ~Ending'
  BY DEF GroupInv, MediaInv, Playing, Turns, Ending
<1> HIDE DEF r
<1>5. \A u \in Turns : reply'[u] = IF u = t THEN r ELSE reply[u]
  BY <1>2 DEF GroupInv, Typed
<1>6. Typed'
  BY <1>1, <1>2, <1>3, <1>4 DEF GroupInv, Typed, stops, Ops
<1>7. Playing'
  <2>1. \A u \in Turns : (reply'[u].st \in {"waiting", "presenting", "sounding"}) <=> play' = u
    BY <1>1, <1>2, <1>5 DEF GroupInv, MediaInv, Playing, Turns
  <2>2. \A u \in Turns : reply'[u].st # "done" => reply'[u].receipt = "none"
    BY <1>1, <1>5 DEF GroupInv, MediaInv, Playing
  <2> QED
    BY <1>2, <2>1, <2>2 DEF Playing
<1>8. \A u \in Turns : reply'[u].cap = reply[u].cap /\ reply'[u].st \in {"done", reply[u].st}
  BY <1>1, <1>5
<1>9. \A d \in Devices : OfNewest(d) => OfNewest(d)'
  BY <1>8 DEF GroupInv, Typed, OfNewest
<1>10. Heard'
  BY <1>8, <1>9 DEF GroupInv, Typed, MediaInv, Heard, stops
<1>11. OneCaptureIsHeard'
  BY <1>8, CapsKept DEF GroupInv, MediaInv
<1>12. CleanupInv'
  BY <1>4, CleanupStays DEF GroupInv, CleanupInv, stops
<1> QED
  BY <1>6, <1>7, <1>10, <1>11, <1>12 DEF GroupInv, MediaInv

\* It is about to sound only when every device confirmed the stop of the capture.
LEMMA PresentsGroup ==
    ASSUME GroupInv, NEW t \in Turns, Presents(t)
    PROVE  GroupInv'
<1>1. play = t
  BY DEF Presents, GroupInv, MediaInv, Playing
<1>2. CASE ~Silenced(barrier)
  BY <1>1, <1>2, ReceivesGroup DEF Presents
<1>3. CASE Silenced(barrier)
  <2> DEFINE r == [reply[t] EXCEPT !.st = "presenting"]
  <2>1. /\ r \in Replies /\ r.st = "presenting" /\ r.cap = reply[t].cap /\ r.receipt = reply[t].receipt
    BY ReplyFields DEF GroupInv, Typed
  <2>2. reply' = [reply EXCEPT ![t] = r] /\ UNCHANGED <<play, agent>>
    BY <1>3 DEF Presents
  <2>3. phase = "open" /\ ~Ending /\ ~Ending' /\ reply[t].st = "waiting"
        /\ UNCHANGED <<phase, asked, broken, cap, released, epoch, last, stops, sound, cleanup, spoken, inq>>
    BY DEF Presents, Ending
  <2> HIDE DEF r
  <2>4. \A u \in Turns : reply'[u] = IF u = t THEN r ELSE reply[u]
    BY <2>2 DEF GroupInv, Typed
  <2>5. Typed'
    BY <2>1, <2>2, <2>3 DEF GroupInv, Typed, stops, Ops
  <2>6. \A u \in Turns : reply'[u].cap = reply[u].cap /\ reply'[u].receipt = reply[u].receipt
    BY <2>1, <2>4
  <2>7. Playing'
    <3>1. \A u \in Turns : (reply'[u].st \in {"waiting", "presenting", "sounding"}) <=> play' = u
      BY <1>1, <2>1, <2>2, <2>4 DEF GroupInv, MediaInv, Playing
    <3>2. \A u \in Turns : reply'[u].st # "done" => reply'[u].receipt = "none"
      BY <2>1, <2>3, <2>4 DEF GroupInv, MediaInv, Playing
    <3> QED
      BY <1>1, <2>2, <2>3, <2>6, <3>1, <3>2 DEF Playing, GroupInv, MediaInv
  <2>8. \A d \in Devices : OfNewest(d)'
    BY <1>3, <2>3, <2>6 DEF GroupInv, Typed, MediaInv, Heard, OfNewest, Silenced
  <2>9. \A d \in Devices : sound[d] # 0 => sound[d] # t
    BY <2>3 DEF GroupInv, Typed, MediaInv, Heard
  <2>10. Heard'
    BY <2>3, <2>4, <2>8, <2>9 DEF GroupInv, Typed, MediaInv, Heard, stops
  <2>11. OneCaptureIsHeard'
    BY <2>3, <2>6, CapsKept DEF GroupInv, MediaInv
  <2>12. CleanupInv'
    BY <2>3, CleanupStays DEF GroupInv, CleanupInv, stops
  <2> QED
    BY <2>5, <2>7, <2>10, <2>11, <2>12 DEF GroupInv, MediaInv
<1> QED
  BY <1>2, <1>3

\* It sounds while nothing older is heard anywhere.
LEMMA SoundsGroup ==
    ASSUME GroupInv, NEW t \in Turns, Sounds(t)
    PROVE  GroupInv'
<1> DEFINE r == [reply[t] EXCEPT !.st = "sounding"]
<1>1. /\ r \in Replies /\ r.st = "sounding" /\ r.cap = reply[t].cap /\ r.receipt = reply[t].receipt
  BY ReplyFields DEF GroupInv, Typed
<1>2. reply' = [reply EXCEPT ![t] = r] /\ reply[t].st = "presenting"
  BY DEF Sounds
<1>3. /\ play = t /\ reply[t].cap = cap /\ ~Ending /\ ~Ending'
      /\ UNCHANGED <<phase, asked, broken, cap, released, epoch, last, play, stops, cleanup, spoken, wires>>
  BY DEF Sounds, GroupInv, MediaInv, Playing, Ending, Turns
<1> HIDE DEF r
<1>4. \A u \in Turns : reply'[u] = IF u = t THEN r ELSE reply[u]
  BY <1>2 DEF GroupInv, Typed
<1>5. sound' \in [Devices -> Turns \cup {0}] /\ \A d \in Devices : sound'[d] \in {t, sound[d]}
  BY DEF GroupInv, Typed, Sounds
<1>6. Typed'
  BY <1>1, <1>2, <1>3, <1>5 DEF GroupInv, Typed, stops, Ops, wires
<1>7. \A u \in Turns : /\ reply'[u].cap = reply[u].cap /\ reply'[u].receipt = reply[u].receipt
                       /\ reply'[u].st = IF u = t THEN "sounding" ELSE reply[u].st
  BY <1>1, <1>4
<1>8. Playing'
  <2>1. \A u \in Turns : (reply'[u].st \in {"waiting", "presenting", "sounding"}) <=> play' = u
    BY <1>3, <1>7 DEF GroupInv, MediaInv, Playing
  <2>2. \A u \in Turns : reply'[u].st # "done" => reply'[u].receipt = "none"
    BY <1>2, <1>7 DEF GroupInv, MediaInv, Playing
  <2> QED
    BY <1>3, <1>7, <2>1, <2>2 DEF Playing, GroupInv, MediaInv
<1>9. \A d \in Devices : sound'[d] # 0 => sound'[d] \in Turns /\ reply'[sound'[d]].cap = cap
  BY <1>2, <1>3, <1>5, <1>7 DEF GroupInv, Typed, MediaInv, Heard, OfNewest
<1>10. \A d \in Devices : OfNewest(d)'
  BY <1>3, <1>9 DEF OfNewest
<1>11. \A d \in Devices : sound'[d] # 0 => reply'[sound'[d]].st \in {"sounding", "dying", "done"}
  BY <1>5, <1>7 DEF GroupInv, Typed, MediaInv, Heard
<1>12. Heard'
  BY <1>10, <1>11 DEF Heard
<1>13. OneCaptureIsHeard'
  BY <1>9 DEF OneCaptureIsHeard
<1>14. CleanupInv'
  BY <1>3, CleanupStays DEF GroupInv, CleanupInv, stops
<1> QED
  BY <1>6, <1>8, <1>12, <1>13, <1>14 DEF GroupInv, MediaInv

\* One that was revoked ends without a word.
LEMMA ReturnsGroup ==
    ASSUME GroupInv, NEW t \in Turns, NEW result \in {"completed", "failed"}, Returns(t, result)
    PROVE  GroupInv'
<1>1. CASE play = t
  BY <1>1, ReceivesGroup DEF Returns
<1>2. CASE play # t
  <2> DEFINE r == Done(reply[t], "none")
  <2>1. /\ r \in Replies /\ r.st = "done" /\ r.cap = reply[t].cap /\ r.receipt = "none"
    <3>1. reply[t] \in Replies
      BY DEF GroupInv, Typed
    <3> QED
      BY <3>1, ReplyFields
  <2>2. reply' = [reply EXCEPT ![t] = r] /\ UNCHANGED <<play, agent>>
    BY <1>2 DEF Returns
  <2>3. /\ ~Ending /\ ~Ending'
        /\ UNCHANGED <<phase, asked, broken, cap, released, epoch, last, stops, sound, cleanup, spoken, inq>>
    BY DEF Returns, MayReturn, Ending
  <2> HIDE DEF r
  <2>4. \A u \in Turns : reply'[u] = IF u = t THEN r ELSE reply[u]
    BY <2>2 DEF GroupInv, Typed
  <2>5. Typed'
    BY <2>1, <2>2, <2>3 DEF GroupInv, Typed, stops, Ops
  <2>6. \A u \in Turns : reply'[u].cap = reply[u].cap /\ reply'[u].st \in {"done", reply[u].st}
    BY <2>1, <2>4
  <2>7. Playing'
    <3>1. \A u \in Turns : (reply'[u].st \in {"waiting", "presenting", "sounding"}) <=> play' = u
      BY <1>2, <2>1, <2>2, <2>4 DEF GroupInv, MediaInv, Playing
    <3>2. \A u \in Turns : reply'[u].st # "done" => reply'[u].receipt = "none"
      BY <2>1, <2>4 DEF GroupInv, MediaInv, Playing
    <3>3. play' # 0 => phase' \in {"preparing", "open"} /\ ~asked' /\ reply'[play'].cap = cap'
      BY <2>2, <2>3, <2>6 DEF GroupInv, Typed, MediaInv, Playing
    <3> QED
      BY <3>1, <3>2, <3>3 DEF Playing
  <2>8. \A d \in Devices : OfNewest(d) => OfNewest(d)'
    BY <2>3, <2>6 DEF GroupInv, Typed, OfNewest
  <2>9. Heard'
    BY <2>3, <2>6, <2>8 DEF GroupInv, Typed, MediaInv, Heard, stops
  <2>10. OneCaptureIsHeard'
    BY <2>3, <2>6, CapsKept DEF GroupInv, MediaInv
  <2>11. CleanupInv'
    BY <2>3, CleanupStays DEF GroupInv, CleanupInv, stops
  <2> QED
    BY <2>5, <2>7, <2>9, <2>10, <2>11 DEF GroupInv, MediaInv
<1> QED
  BY <1>1, <1>2

-----------------------------------------------------------------------------
(* Stops of a device.                                                        *)

\* A stop that has its turn at a device is in its line.
LEMMA StopBeginsGroup ==
    ASSUME GroupInv, NEW d \in Devices, StopBegins(d)
    PROVE  GroupInv'
<1>1. UNCHANGED <<phase, asked, broken, cap, released, epoch, last, media, sound, spoken, wires>>
  BY DEF StopBegins
<1>2. CASE Concludes(d, "superseded")
  <2>1. /\ line' \in [Devices -> Seq(Ops)] /\ \A e \in Devices \ {d} : line'[e] = line[e]
        /\ running' = running \ {d}
        /\ barrier' \in [Devices -> Results]
        /\ \A e \in Devices : barrier'[e] = barrier[e] \/ barrier'[e] # "ok"
        /\ cleanup' \in [end : [Devices -> Results], stray : BOOLEAN, ok : BOOLEAN]
        /\ cleanup'.stray = cleanup.stray /\ cleanup'.ok = cleanup.ok
        /\ \A e \in Devices : cleanup'.end[e] = cleanup.end[e] \/ (cleanup'.end[e] # "ok" /\ e = d)
    <3>1. line[d] # <<>>
      BY DEF StopBegins
    <3> QED
      BY <1>2, <3>1, Concluded DEF GroupInv
  <2>2. ~Ending
    <3>1. Head(line[d]) \in Ops
      BY DEF GroupInv, Typed, StopBegins
    <3>2. Head(line[d])[1] \in {"capture", "epoch"}
      BY <1>2 DEF StopBegins, Superseded, Concludes
    <3> QED
      BY <3>1, <3>2 DEF Ops
  <2>3. Typed'
    BY <1>1, <2>1 DEF GroupInv, Typed, media, wires, Ops, Ending
  <2>4. Still
    BY <1>1, <2>1 DEF GroupInv, MediaInv, Playing, Still, media
  <2>5. CleanupInv'
    BY <1>1, <2>1, <2>2 DEF GroupInv, CleanupInv, Ending, media, Typed
  <2> QED
    BY <2>3, <2>4, <2>5, StillMedia DEF GroupInv
<1>3. CASE running' = running \cup {d} /\ UNCHANGED <<barrier, line, cleanup>>
  <2>1. Typed'
    BY <1>1, <1>3 DEF GroupInv, Typed, media, wires, Ops, Ending
  <2>2. Still
    BY <1>1, <1>3 DEF GroupInv, MediaInv, Playing, Still, media
  <2>3. CleanupInv'
    BY <1>1, <1>3 DEF GroupInv, CleanupInv, Ending, media, StopBegins, Silenced
  <2> QED
    BY <2>1, <2>2, <2>3, StillMedia DEF GroupInv
<1> QED
  BY <1>2, <1>3 DEF StopBegins

\* A confirmed stop ends what its device sounds; one that is not leaves it unknown.
LEMMA StopEndsGroup ==
    ASSUME GroupInv, NEW d \in Devices, StopConfirmed(d) \/ StopUnconfirmed(d)
    PROVE  GroupInv'
<1>1. UNCHANGED <<phase, asked, broken, cap, released, epoch, last, media, spoken, wires>>
  BY DEF StopConfirmed, StopUnconfirmed
<1>2. line[d] # <<>>
  BY DEF GroupInv, CleanupInv, StopConfirmed, StopUnconfirmed
<1>3. /\ line' \in [Devices -> Seq(Ops)] /\ \A e \in Devices \ {d} : line'[e] = line[e]
      /\ running' = running \ {d}
      /\ barrier' \in [Devices -> Results]
      /\ \A e \in Devices : barrier'[e] = "ok" => barrier[e] = "ok" \/ sound'[e] = 0
      /\ cleanup' \in [end : [Devices -> Results], stray : BOOLEAN, ok : BOOLEAN]
      /\ cleanup'.stray = cleanup.stray /\ cleanup'.ok = cleanup.ok
      /\ \A e \in Devices : cleanup'.end[e] = "ok"
                              => cleanup.end[e] = "ok" \/ (sound'[e] = 0 /\ Ending)
      /\ \A e \in Devices : cleanup.end[e] = "ok" => cleanup'.end[e] = "ok" \/ e = d
  <2>1. CASE StopConfirmed(d)
    <3>1. Concludes(d, "ok") /\ sound'[d] = 0
      BY <2>1 DEF StopConfirmed, GroupInv, Typed
    <3> QED
      BY <1>2, <3>1, Concluded DEF GroupInv
  <2>2. CASE StopUnconfirmed(d)
    <3>1. Concludes(d, "failed")
      BY <2>2 DEF StopUnconfirmed
    <3> QED
      BY <1>2, <3>1, Concluded DEF GroupInv
  <2> QED
    BY <2>1, <2>2
<1>4. sound' \in [Devices -> Turns \cup {0}] /\ \A e \in Devices : sound'[e] \in {0, sound[e]}
  BY DEF GroupInv, Typed, StopConfirmed, StopUnconfirmed
<1>5. Typed'
  BY <1>1, <1>3, <1>4 DEF GroupInv, Typed, media, wires, Ops, Ending
<1>6. Still
  BY <1>1, <1>3, <1>4 DEF GroupInv, MediaInv, Playing, Still, media
<1>7. CleanupInv'
  <2>1. phase # "closed"
    <3>1. d \in running
      BY DEF StopConfirmed, StopUnconfirmed
    <3> QED
      BY <1>2, <3>1 DEF GroupInv, CleanupInv
  <2> QED
    BY <1>1, <1>3, <1>4, <2>1 DEF GroupInv, CleanupInv, Ending, media, Typed
<1> QED
  BY <1>5, <1>6, <1>7, StillMedia DEF GroupInv

-----------------------------------------------------------------------------
\* The Agent only sends.
LEMMA AgentGroup ==
    ASSUME GroupInv, AgentSteps
    PROVE  GroupInv'
<1>1. Here
  BY DEF AgentSteps, AgentPrepares, AgentCaptures, AgentEndsText, AgentReplies, AgentConfirms, AgentCancels
<1>2. Typed'
  <2>1. CASE AgentPrepares
    <3>1. Prepared \in Frames
      BY DEF Prepared, Frames
    <3> QED
      BY <1>1, <2>1, <3>1, SendTyped DEF AgentPrepares, GroupInv, Typed
  <2>2. CASE AgentCaptures
    <3> DEFINE f == Capturing(agent.cap, agent.epoch + 1)
               a == [agent EXCEPT !.owes = FALSE, !.epoch = @ + 1]
    <3>1. f \in Frames /\ a \in Agents
      BY AgentFields, FramesSent DEF GroupInv, Typed
    <3>2. AgentSends(f) /\ agent' = a
      BY <2>2 DEF AgentCaptures
    <3> HIDE DEF f, a
    <3> QED
      BY <1>1, <3>1, <3>2, SendTyped DEF GroupInv
  <2>3. CASE AgentEndsText
    <3> DEFINE f == ReplyEnd(agent.turn, agent.epoch)
               a == [agent EXCEPT !.sent = TRUE]
    <3>1. f \in Frames /\ a \in Agents
      BY <2>3, AgentFields, FramesSent DEF GroupInv, Typed, AgentEndsText
    <3>2. AgentSends(f) /\ agent' = a
      BY <2>3 DEF AgentEndsText
    <3> HIDE DEF f, a
    <3> QED
      BY <1>1, <3>1, <3>2, SendTyped DEF GroupInv
  <2>4. ASSUME NEW d \in Devices, AgentReplies(d) PROVE Typed'
    <3> DEFINE t == agent.next
               f == ReplyStart(t, agent.epoch, d)
               a == [agent EXCEPT !.turn = t, !.sent = FALSE, !.next = @ + 1]
    <3>1. f \in Frames /\ a \in Agents
      BY <2>4, AgentFields, FramesSent DEF GroupInv, Typed, AgentReplies
    <3>2. AgentSends(f) /\ agent' = a
      BY <2>4 DEF AgentReplies
    <3> HIDE DEF f, a
    <3> QED
      BY <1>1, <3>1, <3>2, SendTyped DEF GroupInv
  <2>5. ASSUME NEW d \in Devices, AgentConfirms(d) PROVE Typed'
    <3> DEFINE f == StopFrame(agent.cap, agent.epoch, d)
               a == [agent EXCEPT !.stops = @ + 1]
    <3>1. f \in Frames /\ a \in Agents
      BY AgentFields, FramesSent DEF GroupInv, Typed
    <3>2. AgentSends(f) /\ agent' = a
      BY <2>5 DEF AgentConfirms
    <3> HIDE DEF f, a
    <3> QED
      BY <1>1, <3>1, <3>2, SendTyped DEF GroupInv
  <2>6. ASSUME NEW d \in Devices, AgentCancels(d) PROVE Typed'
    <3> DEFINE f == StopFrame(0, agent.epoch + 1, d)
               a == [agent EXCEPT !.stops = @ + 1, !.epoch = @ + 1, !.heard = FALSE, !.turn = 0]
    <3>1. f \in Frames /\ a \in Agents
      BY AgentFields, FramesSent DEF GroupInv, Typed
    <3>2. AgentSends(f) /\ agent' = a
      BY <2>6 DEF AgentCancels
    <3> HIDE DEF f, a
    <3> QED
      BY <1>1, <3>1, <3>2, SendTyped DEF GroupInv
  <2> QED
    BY <2>1, <2>2, <2>3, <2>4, <2>5, <2>6 DEF AgentSteps
<1>3. Still
  BY <1>1 DEF GroupInv, MediaInv, Playing, Here, media, stops, Still
<1>4. CleanupInv'
  BY <1>1 DEF GroupInv, CleanupInv, Here, media, stops, Ending, Silenced
<1> QED
  BY <1>2, <1>3, <1>4, StillMedia DEF GroupInv

\* A step that changes nothing.
LEMMA StutterGroup ==
    ASSUME GroupInv, UNCHANGED vars
    PROVE  GroupInv'
<1>1. Typed'
  BY DEF GroupInv, Typed, vars, media, stops, wires, Ops, Ending
<1>2. Still
  BY DEF GroupInv, MediaInv, Playing, vars, media, stops, Still
<1>3. CleanupInv'
  BY DEF GroupInv, CleanupInv, vars, media, stops, Ending, Silenced
<1> QED
  BY <1>1, <1>2, <1>3, StillMedia DEF GroupInv

\* Every step keeps it.
LEMMA NextGroup ==
    ASSUME GroupInv, [Next]_vars
    PROVE  GroupInv'
<1>1. CASE UNCHANGED vars
  BY <1>1, StutterGroup
<1>2. CASE Begins \/ Release \/ Delivers
  BY <1>2, PipelineGroup
<1>3. CASE CloseAsked
  BY <1>3, CloseAskedGroup
<1>4. CASE Accepts
  BY <1>4, AcceptGroup, AcceptStopGroup, AcceptStartGroup, AcceptEndGroup DEF Accepts
<1>5. CASE StreamFails \/ PrepareFails \/ CloseEnds
  BY <1>5, LeavesGroup
<1>6. CASE DrainEnds
  BY <1>6, DrainGroup
<1>7. CASE Closes
  BY <1>7, ClosesGroup
<1>8. CASE AgentSteps
  BY <1>8, AgentGroup
<1>9. CASE \E c \in Captures : Press(c)
  BY <1>9, PressGroup
<1>10. ASSUME NEW t \in Turns, Presentation(t) PROVE GroupInv'
  BY <1>10, PresentsGroup, SoundsGroup, ReturnsGroup DEF Presentation
<1>11. ASSUME NEW d \in Devices, StopSteps(d) PROVE GroupInv'
  BY <1>11, StopBeginsGroup, StopEndsGroup DEF StopSteps
<1> QED
  BY <1>1, <1>2, <1>3, <1>4, <1>5, <1>6, <1>7, <1>8, <1>9, <1>10, <1>11 DEF Next, Teardown

-----------------------------------------------------------------------------
\* The invariants hold in every state that the team can be in.
THEOREM GroupCorrect == Spec => []GroupInv
<1>1. Init => GroupInv
  BY InitGroup
<1>2. GroupInv /\ [Next]_vars => GroupInv'
  BY NextGroup
<1> QED
  BY <1>1, <1>2, PTL DEF Spec

\* Whatever the order of presses, stops and frames, the devices of a team never speak for two
\* captures at once, and none is left with an old one once a reply to the newest begins (press,
\* _present).
THEOREM GroupHeardOnce == Spec => []OneCaptureIsHeard
<1>1. GroupInv => OneCaptureIsHeard
  BY DEF GroupInv, MediaInv
<1> QED
  BY <1>1, GroupCorrect, PTL

\* A scene that reports its cleanup done (cleanup_ok) leaves no device talking and no presentation
\* behind.
THEOREM GroupCleanup == Spec => []CleanupMeansSilence
<1>1. GroupInv => CleanupMeansSilence
  <2> SUFFICES ASSUME GroupInv, cleanup.ok
               PROVE  /\ \A d \in Devices : sound[d] = 0
                      /\ \A t \in Turns : reply[t].st \in {"none", "done"}
    BY DEF CleanupMeansSilence
  <2> QED
    BY DEF GroupInv, CleanupInv, Silenced, Ending
<1> QED
  BY <1>1, GroupCorrect, PTL

\* A receipt is given once, for the reply that plays.
Receipted(t) ==
    reply'[t].receipt # reply[t].receipt =>
        reply[t].receipt = "none" /\ play = t /\ reply[t].cap = cap /\ ~asked

\* Steps that leave replies to play or revoke them give none.
LEMMA NoReceipt ==
    ASSUME GroupInv, UNCHANGED reply \/ Revoked, NEW t \in Turns
    PROVE  Receipted(t)
<1>1. CASE UNCHANGED reply
  BY <1>1 DEF Receipted
<1>2. CASE Revoked
  BY <1>2, RevokedReplies DEF Receipted, GroupInv, MediaInv
<1> QED
  BY <1>1, <1>2

\* Only the presentation that plays gives one.
LEMMA PresentationReceipts ==
    ASSUME GroupInv, NEW u \in Turns, Presentation(u), NEW t \in Turns
    PROVE  Receipted(t)
<1>1. reply[u] \in Replies
  BY DEF GroupInv, Typed
<1>2. PICK r : reply' = [reply EXCEPT ![u] = r] /\ (r.receipt = reply[u].receipt \/ play = u \/ r.receipt = "none")
  <2>1. CASE Presents(u)
    <3>1. play = u
      BY <2>1 DEF Presents, GroupInv, MediaInv, Playing
    <3> QED
      BY <2>1, <3>1 DEF Presents, Receives
  <2>2. CASE Sounds(u)
    <3>1. [reply[u] EXCEPT !.st = "sounding"].receipt = reply[u].receipt
      BY <1>1, ReplyFields
    <3> QED
      BY <2>2, <3>1 DEF Sounds
  <2>3. ASSUME NEW result \in {"completed", "failed"}, Returns(u, result)
        PROVE  \E r : reply' = [reply EXCEPT ![u] = r]
                      /\ (r.receipt = reply[u].receipt \/ play = u \/ r.receipt = "none")
    <3>1. Done(reply[u], "none").receipt = "none"
      BY <1>1, ReplyFields
    <3> QED
      BY <2>3, <3>1 DEF Returns, Receives
  <2> QED
    BY <2>1, <2>2, <2>3 DEF Presentation
<1>3. \A v \in Turns : reply'[v] = IF v = u THEN r ELSE reply[v]
  BY <1>2 DEF GroupInv, Typed
<1>4. reply[u].st # "done"
  BY DEF Presentation, Presents, Sounds, Returns, MayReturn
<1>5. reply[u].receipt = "none"
  BY <1>4 DEF GroupInv, MediaInv, Playing
<1>6. play = u => reply[u].cap = cap /\ ~asked
  BY DEF GroupInv, MediaInv, Playing, Turns
<1> QED
  BY <1>2, <1>3, <1>5, <1>6 DEF Receipted

\* A receipt that the Agent gets is for a reply to the last capture, in a round it has not been
\* told to abandon, and is the only one of its turn: a presentation that was revoked has nothing
\* to say, whenever it returns.
THEOREM GroupReceipts == Spec => RevokedIsNotConfirmed
<1>1. GroupInv /\ [Next]_vars =>
        [\A t \in Turns : reply'[t].receipt # reply[t].receipt =>
            reply[t].receipt = "none" /\ play = t /\ reply[t].cap = cap /\ ~asked]_vars
  <2> SUFFICES ASSUME GroupInv, Next, NEW t \in Turns
               PROVE  Receipted(t)
    BY DEF Receipted
  <2>1. CASE Begins \/ Release \/ Delivers \/ DrainEnds \/ Closes \/ AcceptPrepared \/ AcceptCapturing
    <3>1. UNCHANGED reply
      BY <2>1 DEF Begins, Release, Delivers, DrainEnds, Closes, AcceptPrepared, AcceptCapturing, media
    <3> QED
      BY <3>1, NoReceipt
  <2>2. CASE CloseAsked \/ StreamFails \/ PrepareFails \/ CloseEnds \/ \E c \in Captures : Press(c)
    <3>1. Revoked
      BY <2>2 DEF CloseAsked, StreamFails, PrepareFails, CloseEnds, LeavesRun, Press
    <3> QED
      BY <3>1, NoReceipt
  <2>3. CASE AcceptStop
    <3>1. Revoked \/ UNCHANGED reply
      BY <2>3 DEF AcceptStop, media
    <3> QED
      BY <3>1, NoReceipt
  <2>4. CASE AcceptReplyStart
    <3> DEFINE f == Head(inq)
               r == [NoReply EXCEPT !.st = "waiting", !.dev = f.dev, !.cap = cap]
    <3>1. r.receipt = "none"
      BY DEF NoReply
    <3>2. UNCHANGED reply \/ (reply' = [reply EXCEPT ![f.turn] = r] /\ reply[f.turn].st = "none")
      BY <2>4 DEF AcceptReplyStart, media
    <3> HIDE DEF r, f
    <3>3. reply'[t] = reply[t] \/ (reply'[t] = r /\ reply[t].st = "none")
      BY <3>2 DEF GroupInv, Typed
    <3> QED
      BY <3>1, <3>3 DEF Receipted, GroupInv, MediaInv, Playing
  <2>5. CASE AcceptReplyEnd
    <3> DEFINE f == Head(inq)
               r == [reply[f.turn] EXCEPT !.ended = TRUE]
    <3>1. f.turn \in Turns
      BY <2>5, ReadsFrame, FrameFields DEF AcceptReplyEnd
    <3>2. r.receipt = reply[f.turn].receipt
      BY <3>1, ReplyFields DEF GroupInv, Typed
    <3>3. UNCHANGED reply \/ reply' = [reply EXCEPT ![f.turn] = r]
      BY <2>5 DEF AcceptReplyEnd, media
    <3> HIDE DEF r, f
    <3> QED
      BY <3>2, <3>3 DEF Receipted, GroupInv, Typed
  <2>6. CASE AgentSteps
    <3>1. UNCHANGED reply
      BY <2>6 DEF AgentSteps, AgentPrepares, AgentCaptures, AgentEndsText, AgentReplies,
                  AgentConfirms, AgentCancels, Here, media
    <3> QED
      BY <3>1, NoReceipt
  <2>7. CASE \E u \in Turns : Presentation(u)
    BY <2>7, PresentationReceipts
  <2>8. CASE \E d \in Devices : StopSteps(d)
    <3>1. UNCHANGED reply
      BY <2>8 DEF StopSteps, StopBegins, StopConfirmed, StopUnconfirmed, media
    <3> QED
      BY <3>1, NoReceipt
  <2> QED
    BY <2>1, <2>2, <2>3, <2>4, <2>5, <2>6, <2>7, <2>8 DEF Next, Accepts, Teardown
<1> QED
  BY <1>1, GroupCorrect, PTL DEF Spec, RevokedIsNotConfirmed
-----------------------------------------------------------------------------
(* The stream.                                                               *)

Positions == 1 .. Len(inq)
Working == phase = "open" /\ ~asked

\* Before the Agent has prepared it knows nothing, and nothing was played.
Unbegun ==
    /\ ~asked /\ ~released /\ cap = 0 /\ epoch = 0 /\ last = 0 /\ play = 0
    /\ inq \in {<<>>, <<Prepared>>} /\ agent = NoAgent
    /\ \A t \in Turns : reply[t].st = "none"

\* The epoch that this side is in, or enters when the capture is confirmed, if it is in any.
Opening(f) == f.type = "capturing" /\ f.cap = cap
Round == (IF epoch = 0 THEN {} ELSE {epoch})
         \cup {inq[i].epoch : i \in {j \in Positions : Opening(inq[j])}}

\* Epochs rise along the stream, and with every capture.
Ordered ==
    /\ epoch <= last /\ last <= agent.epoch
    /\ \A i \in Positions :
          /\ inq[i].type # "prepared" /\ inq[i].epoch <= agent.epoch
          /\ inq[i].type = "capturing" => inq[i].epoch > last /\ inq[i].cap <= cap
    /\ \A i, j \in Positions : i < j =>
          /\ inq[i].epoch <= inq[j].epoch
          /\ inq[j].type = "capturing" => inq[i].epoch < inq[j].epoch

\* There is one round at most, none while the Agent owes one, and only a capture that is over
\* is replied to.
OneRound ==
    /\ play # 0 => epoch # 0
    /\ \A i \in Positions : Opening(inq[i]) => epoch = 0
    /\ \A i, j \in Positions : Opening(inq[i]) /\ Opening(inq[j]) => i = j
    /\ agent.cap = cap
    /\ agent.owes => Round = {} /\ agent.turn = 0
    /\ agent.turn # 0 => agent.heard
    /\ agent.heard => released

Speech(f) == f.type \in {"start", "end"}
StopsAfter(f, e) == f.type = "stop" /\ f.epoch > e
Starts(f, t, e) == f.type = "start" /\ f.turn = t /\ f.epoch = e

\* The Agent leaves a round with a stop, before it speaks in the next.
LeftByStop(e) ==
    /\ agent.epoch > e => \E j \in Positions : StopsAfter(inq[j], e)
    /\ \A i \in Positions : Speech(inq[i]) /\ inq[i].epoch > e =>
          \E j \in 1 .. i - 1 : StopsAfter(inq[j], e)

\* In a round one turn is under way, on the stream or in play, and is the Agent's.
OneTurn(e) ==
    /\ \A i \in Positions : Speech(inq[i]) /\ inq[i].epoch = e => released
    /\ \A i \in Positions : inq[i].type = "start" /\ inq[i].epoch = e =>
          /\ play = 0 /\ (agent.epoch = e => agent.turn = inq[i].turn)
          /\ \A j \in Positions : inq[j].type = "start" /\ inq[j].epoch = e => i = j
    /\ agent.epoch = e /\ play # 0 => agent.turn = play

\* A turn that has begun can end, and its text ends once.
Plays(t) == play = t /\ ~reply[t].ended
EndsMatch(e) ==
    /\ \A i \in Positions : inq[i].type = "end" /\ inq[i].epoch = e =>
          \/ \E j \in 1 .. i - 1 : Starts(inq[j], inq[i].turn, e)
          \/ Plays(inq[i].turn) \/ reply[inq[i].turn].receipt = "failed"
    /\ agent.epoch = e /\ agent.turn # 0 /\ ~agent.sent =>
          Plays(agent.turn) \/ \E j \in Positions : Starts(inq[j], agent.turn, e)

\* Turns are begun once and ended once.
Once ==
    /\ agent.turn < agent.next
    /\ \A t \in Turns : t >= agent.next => reply[t].st = "none"
    /\ \A i \in Positions : Speech(inq[i]) => inq[i].turn < agent.next
    /\ \A i \in Positions : inq[i].type = "start" => reply[inq[i].turn].st = "none"
    /\ \A i \in Positions : inq[i].type = "end" /\ inq[i].turn = agent.turn => agent.sent
    /\ \A i, j \in Positions :
          Speech(inq[i]) /\ inq[i].type = inq[j].type /\ inq[i].turn = inq[j].turn => i = j

InOrder ==
    /\ Ordered /\ OneRound /\ Once
    /\ \A e \in Round : LeftByStop(e) /\ OneTurn(e) /\ EndsMatch(e)

StreamInv ==
    /\ ~broken
    /\ phase \in {"idle", "preparing"} => Unbegun
    /\ Working => InOrder

\* The frames in flight by position, and what a frame that carries an epoch is.
LEMMA InFlight ==
    ASSUME Typed
    PROVE  /\ Len(inq) \in Nat
           /\ \A i \in Positions :
                 /\ i \in Nat /\ inq[i] \in Frames
                 /\ inq[i].type # "prepared" => inq[i].epoch \in Nat
                 /\ inq[i].type = "capturing" => inq[i].cap \in Nat
                 /\ Speech(inq[i]) => inq[i].turn \in Turns
<1>1. Len(inq) \in Nat /\ \A i \in Positions : i \in Nat /\ inq[i] \in Frames
  BY DEF Typed, Positions
<1>2. \A f \in Frames : f.type # "prepared" => f.type \in {"capturing", "stop", "start", "end"}
  BY DEF Frames
<1> QED
  BY <1>1, <1>2, FrameFields DEF Speech

\* What the Agent sends comes last.
LEMMA SentLast ==
    ASSUME Typed, NEW f \in Frames, AgentSends(f)
    PROVE  /\ Len(inq) \in Nat /\ Len(inq)' = Len(inq) + 1
           /\ inq'[Len(inq) + 1] = f
           /\ \A i \in Positions : i \in Positions' /\ inq'[i] = inq[i]
           /\ \A i \in Positions' : i \in Positions \/ i = Len(inq) + 1
<1>1. inq \in Seq(Frames) /\ inq' = Append(inq, f)
  BY DEF Typed, AgentSends
<1> QED
  BY <1>1 DEF Positions

\* What is read comes first, and the rest moves up.
LEMMA ReadFirst ==
    ASSUME Typed, NEW type, Reads(type)
    PROVE  /\ Len(inq) \in Nat /\ Len(inq)' = Len(inq) - 1
           /\ 1 \in Positions /\ Head(inq) = inq[1] /\ inq[1].type = type
           /\ \A i \in Positions' : i + 1 \in Positions /\ inq'[i] = inq[i + 1]
           /\ \A i \in Positions : i # 1 => i - 1 \in Positions' /\ inq'[i - 1] = inq[i]
<1>1. inq \in Seq(Frames) /\ inq # <<>> /\ inq' = Tail(inq) /\ Head(inq).type = type
  BY DEF Typed, Reads
<1> QED
  BY <1>1 DEF Positions

\* A round is the one that this side is in, or the one of the capture that is not confirmed yet.
LEMMA RoundIs ==
    ASSUME NEW e
    PROVE  e \in Round <=> \/ epoch # 0 /\ e = epoch
                           \/ \E i \in Positions : Opening(inq[i]) /\ inq[i].epoch = e
BY DEF Round

\* There is one round at most.
LEMMA RoundOne ==
    ASSUME Typed, InOrder, NEW e \in Round
    PROVE  /\ e \in Nat /\ e <= agent.epoch /\ ~agent.owes
           /\ epoch # 0 => e = epoch
           /\ epoch = 0 => /\ play = 0
                           /\ \E k \in Positions : /\ Opening(inq[k]) /\ e = inq[k].epoch
                                                   /\ \A i \in Positions : i < k => inq[i].epoch < e
<1>1. epoch \in Nat /\ last \in Nat /\ agent.epoch \in Nat
  BY DEF Typed, Agents
<1>2. epoch # 0 => \A i \in Positions : ~Opening(inq[i])
  BY DEF InOrder, OneRound
<1>3. play # 0 => epoch # 0
  BY DEF InOrder, OneRound
<1>4. ~agent.owes
  BY DEF InOrder, OneRound
<1>5. CASE epoch # 0
  <2>1. e = epoch
    BY <1>2, <1>5, RoundIs
  <2> QED
    BY <1>1, <1>4, <1>5, <2>1 DEF InOrder, Ordered
<1>6. CASE epoch = 0
  <2>1. PICK k \in Positions : Opening(inq[k]) /\ inq[k].epoch = e
    BY <1>6, RoundIs
  <2>2. e \in Nat /\ e <= agent.epoch /\ \A i \in Positions : i < k => inq[i].epoch < e
    BY <2>1, InFlight DEF InOrder, Ordered, Opening
  <2> QED
    BY <1>3, <1>4, <1>6, <2>1, <2>2
<1> QED
  BY <1>5, <1>6

-----------------------------------------------------------------------------
(* How steps may move the stream.                                            *)

\* Nothing is sent or read, and no round begins, ends or is replied to.
Quiet ==
    /\ UNCHANGED <<cap, epoch, last, play, inq>>
    /\ \A x \in {"owes", "cap", "epoch", "turn", "sent", "next"} : agent'[x] = agent[x]
    /\ agent.heard => agent'.heard
    /\ released => released'
    /\ agent'.heard => released'
    /\ \A t \in Turns :
          /\ reply[t].st = "none" => reply'[t].st = "none"
          /\ play = t => reply'[t].ended = reply[t].ended
          /\ reply[t].receipt = "failed" => reply'[t].receipt = "failed"

\* Such a step leaves the stream in order.
LEMMA QuietInOrder ==
    ASSUME Typed, InOrder, Quiet
    PROVE  InOrder'
<1>1. /\ agent'.owes = agent.owes /\ agent'.cap = agent.cap /\ agent'.epoch = agent.epoch
      /\ agent'.turn = agent.turn /\ agent'.sent = agent.sent /\ agent'.next = agent.next
  BY DEF Quiet
<1>2. Positions' = Positions /\ Round' = Round
  BY DEF Quiet, Positions, Round, Opening
<1>3. Ordered'
  BY <1>1, <1>2 DEF Quiet, InOrder, Ordered
<1>4. OneRound'
  BY <1>1, <1>2 DEF Quiet, InOrder, OneRound, Opening
<1>5. Once'
  BY <1>1, <1>2, InFlight DEF Quiet, InOrder, Once, Speech
<1>6. ASSUME NEW e \in Round PROVE LeftByStop(e)' /\ OneTurn(e)'
  BY <1>1, <1>2, <1>6 DEF Quiet, InOrder, LeftByStop, OneTurn, Speech, StopsAfter
<1>7. \A t \in Turns \cup {0} : t # 0 /\ Plays(t) => Plays(t)'
  BY DEF Plays, Quiet
<1>8. agent.turn \in Turns \cup {0} /\ \A i \in Positions : inq[i].type = "end" => inq[i].turn \in Turns /\ inq[i].turn # 0
  BY InFlight DEF Typed, Agents, Speech, Turns
<1>9. ASSUME NEW e \in Round PROVE EndsMatch(e)'
  <2>1. ASSUME NEW i \in Positions, inq[i].type = "end", inq[i].epoch = e
        PROVE  \/ \E j \in 1 .. i - 1 : Starts(inq[j], inq[i].turn, e)
               \/ Plays(inq[i].turn)' \/ reply'[inq[i].turn].receipt = "failed"
    <3>1. \/ \E j \in 1 .. i - 1 : Starts(inq[j], inq[i].turn, e)
          \/ Plays(inq[i].turn) \/ reply[inq[i].turn].receipt = "failed"
      BY <2>1 DEF InOrder, EndsMatch
    <3>2. inq[i].turn \in Turns /\ inq[i].turn # 0
      BY <1>8, <2>1
    <3> QED
      BY <1>7, <3>1, <3>2 DEF Quiet
  <2>2. agent.epoch = e /\ agent.turn # 0 /\ ~agent.sent =>
          Plays(agent.turn)' \/ \E j \in Positions : Starts(inq[j], agent.turn, e)
    <3>1. agent.turn # 0 /\ Plays(agent.turn) => Plays(agent.turn)'
      BY <1>1, <1>7, <1>8 DEF Plays
    <3> QED
      BY <1>9, <3>1 DEF InOrder, EndsMatch
  <2>3. inq' = inq
    BY DEF Quiet
  <2> QED
    BY <1>1, <1>2, <2>1, <2>2, <2>3 DEF EndsMatch, Starts, Plays
<1> QED
  BY <1>2, <1>3, <1>4, <1>5, <1>6, <1>9 DEF InOrder

-----------------------------------------------------------------------------
(* What the Agent sends.                                                     *)

\* The Agent sends f and keeps its account of it; nothing changes here.
Sends(f) ==
    /\ f \in Frames /\ f.type # "prepared" /\ AgentSends(f)
    /\ UNCHANGED <<cap, epoch, last, play, reply, released>>
    /\ agent'.cap = agent.cap

\* A frame of the present epoch, or of the next, keeps the epochs in order.
LEMMA SendsOrdered ==
    ASSUME Typed, InOrder, NEW f, Sends(f), agent' \in Agents, agent.epoch <= agent'.epoch,
           f.epoch = agent'.epoch,
           f.type = "capturing" => agent.epoch < agent'.epoch /\ f.cap <= cap
    PROVE  Ordered'
<1> DEFINE n == Len(inq)
<1>1. /\ n \in Nat /\ inq'[n + 1] = f
      /\ \A i \in Positions : i \in Positions' /\ inq'[i] = inq[i] /\ i \in Nat /\ i < n + 1
      /\ \A i \in Positions' : i \in Positions \/ i = n + 1
  BY SentLast, InFlight DEF Sends, Positions
<1>2. epoch \in Nat /\ last \in Nat /\ agent.epoch \in Nat /\ agent'.epoch \in Nat
  BY DEF Typed, Agents
<1>3. \A i \in Positions : inq[i].epoch \in Nat
  BY InFlight DEF InOrder, Ordered
<1> HIDE DEF n
<1>4. \A i \in Positions' :
         /\ inq'[i].type # "prepared" /\ inq'[i].epoch <= agent'.epoch
         /\ inq'[i].type = "capturing" => inq'[i].epoch > last /\ inq'[i].cap <= cap
  BY <1>1, <1>2, <1>3 DEF Sends, InOrder, Ordered
<1>5. \A i, j \in Positions' : i < j =>
         /\ inq'[i].epoch <= inq'[j].epoch
         /\ inq'[j].type = "capturing" => inq'[i].epoch < inq'[j].epoch
  BY <1>1, <1>2, <1>3 DEF Sends, InOrder, Ordered
<1> QED
  BY <1>2, <1>4, <1>5 DEF Sends, InOrder, Ordered

\* The round stays as it is, but for a capture that is confirmed.
LEMMA SendsRound ==
    ASSUME Typed, InOrder, NEW f, Sends(f)
    PROVE  /\ ~Opening(f) => Round' = Round
           /\ Opening(f) /\ Round = {} => Round' = {f.epoch}
<1> DEFINE n == Len(inq)
<1>1. /\ n \in Nat /\ inq'[n + 1] = f
      /\ \A i \in Positions : i \in Positions' /\ inq'[i] = inq[i]
      /\ \A i \in Positions' : i \in Positions \/ i = n + 1
      /\ n + 1 \in Positions'
  BY SentLast DEF Sends, Positions
<1>2. \A g : Opening(g)' <=> Opening(g)
  BY DEF Opening, Sends
<1> HIDE DEF n
<1>3. \A e : e \in Round' <=> \/ epoch # 0 /\ e = epoch
                              \/ \E i \in Positions' : Opening(inq'[i]) /\ inq'[i].epoch = e
  BY <1>2 DEF Round, Opening, Sends
<1>4. \A e : e \in Round' <=> e \in Round \/ (Opening(f) /\ f.epoch = e)
  BY <1>1, <1>3, RoundIs
<1> QED
  BY <1>4

\* There is still one round when something else than a capture is sent.
LEMMA SendsOneRound ==
    ASSUME Typed, InOrder, NEW f, Sends(f), ~Opening(f),
           agent'.owes => agent.owes /\ agent'.turn = 0,
           agent'.turn # 0 => agent'.heard, agent'.heard => released
    PROVE  OneRound'
<1>1. /\ inq'[Len(inq) + 1] = f
      /\ \A i \in Positions : i \in Positions' /\ inq'[i] = inq[i]
      /\ \A i \in Positions' : i \in Positions \/ i = Len(inq) + 1
  BY SentLast DEF Sends
<1>2. \A i \in Positions' : Opening(inq'[i]) => i \in Positions /\ Opening(inq[i])
  BY <1>1
<1>3. cap' = cap /\ play' = play /\ epoch' = epoch /\ released' = released
  BY DEF Sends
<1>4. \A g : Opening(g)' <=> Opening(g)
  BY <1>3 DEF Opening
<1>5. Round' = Round
  BY SendsRound
<1> QED
  BY <1>2, <1>3, <1>4, <1>5 DEF Sends, InOrder, OneRound, Opening

\* The stops of a round that the Agent has left stay before what it sends later.
LEMMA SendsLeft ==
    ASSUME Typed, InOrder, NEW f, Sends(f), NEW e \in Round, agent' \in Agents,
           f.epoch = agent'.epoch,
           agent'.epoch = agent.epoch \/ (f.type = "stop" /\ agent'.epoch = agent.epoch + 1)
    PROVE  LeftByStop(e)'
<1> DEFINE n == Len(inq)
<1>1. /\ n \in Nat /\ inq'[n + 1] = f /\ n + 1 \in Positions'
      /\ \A i \in Positions : i \in Positions' /\ inq'[i] = inq[i] /\ i \in 1 .. n
      /\ \A i \in Positions' : i \in Positions \/ i = n + 1
  BY SentLast DEF Sends, Positions
<1>2. agent.epoch \in Nat /\ e \in Nat /\ e <= agent.epoch
  BY RoundOne DEF Typed, Agents
<1> HIDE DEF n
<1>3. \A i \in Positions : \A j \in 1 .. i - 1 : j \in Positions
  BY DEF Positions
<1>4. agent'.epoch > e => \E j \in Positions' : StopsAfter(inq'[j], e)
  <2>1. CASE f.type = "stop" /\ agent'.epoch = agent.epoch + 1
    BY <1>1, <1>2, <2>1 DEF StopsAfter
  <2>2. CASE agent'.epoch = agent.epoch
    BY <1>1, <2>2 DEF InOrder, LeftByStop
  <2> QED
    BY <2>1, <2>2
<1>5. ASSUME NEW i \in Positions', Speech(inq'[i]), inq'[i].epoch > e
      PROVE  \E j \in 1 .. i - 1 : StopsAfter(inq'[j], e)
  <2>1. CASE i \in Positions
    <3>1. PICK j \in 1 .. i - 1 : StopsAfter(inq[j], e)
      BY <1>1, <1>5, <2>1 DEF InOrder, LeftByStop
    <3> QED
      BY <1>1, <1>3, <2>1, <3>1
  <2>2. CASE i = n + 1
    <3>1. f.type # "stop"
      BY <1>1, <1>5, <2>2 DEF Speech
    <3>2. PICK j \in Positions : StopsAfter(inq[j], e)
      BY <1>1, <1>5, <2>2, <3>1 DEF InOrder, LeftByStop
    <3> QED
      BY <1>1, <2>2, <3>2
  <2> QED
    BY <1>1, <2>1, <2>2
<1> QED
  BY <1>4, <1>5 DEF LeftByStop, Speech, StopsAfter

\* The turns of a round are as they were when the Agent sends what is not speech.
LEMMA SendsNoSpeech ==
    ASSUME Typed, InOrder, NEW f, Sends(f), agent' \in Agents, ~Speech(f),
           \/ agent'.epoch = agent.epoch /\ agent'.turn = agent.turn
           \/ agent'.epoch = agent.epoch + 1 /\ agent'.turn = 0,
           agent'.sent = agent.sent, agent'.next = agent.next
    PROVE  /\ Once'
           /\ \A e \in Round : OneTurn(e)' /\ EndsMatch(e)'
<1> DEFINE n == Len(inq)
<1>1. /\ n \in Nat /\ inq'[n + 1] = f /\ n + 1 \in Positions'
      /\ \A i \in Positions : i \in Positions' /\ inq'[i] = inq[i]
      /\ \A i \in Positions' : i \in Positions \/ i = n + 1
  BY SentLast DEF Sends, Positions
<1>2. agent.epoch \in Nat /\ agent.turn \in Turns \cup {0} /\ agent.next \in Nat \ {0}
  BY DEF Typed, Agents
<1>3. \A i \in Positions : Speech(inq[i]) => inq[i].turn \in Turns /\ inq[i].turn # 0
  BY InFlight DEF Turns
<1> HIDE DEF n
<1>4. \A i \in Positions' : Speech(inq'[i]) => i \in Positions /\ inq'[i] = inq[i]
  BY <1>1
<1>5. \A i \in Positions : \A j \in 1 .. i - 1 : j \in Positions
  BY DEF Positions
<1>6. Once'
  <2>1. agent'.turn < agent'.next
    BY <1>2 DEF InOrder, Once
  <2>2. \A i \in Positions' : inq'[i].type = "end" /\ inq'[i].turn = agent'.turn => agent'.sent
    BY <1>3, <1>4 DEF InOrder, Once, Speech
  <2> QED
    BY <1>4, <2>1, <2>2 DEF Sends, InOrder, Once, Speech
<1>7. ASSUME NEW e \in Round PROVE OneTurn(e)'
  <2>1. e \in Nat /\ e <= agent.epoch
    BY <1>7, RoundOne
  <2>2. agent'.epoch = e => agent'.epoch = agent.epoch /\ agent'.turn = agent.turn
    BY <1>2, <2>1
  <2> QED
    BY <1>4, <1>7, <2>2 DEF Sends, InOrder, OneTurn, Speech
<1>8. ASSUME NEW e \in Round PROVE EndsMatch(e)'
  <2>1. e \in Nat /\ e <= agent.epoch
    BY <1>8, RoundOne
  <2>2. agent'.epoch = e => agent'.epoch = agent.epoch /\ agent'.turn = agent.turn
    BY <1>2, <2>1
  <2>3. ASSUME NEW i \in Positions', inq'[i].type = "end", inq'[i].epoch = e
        PROVE  \/ \E j \in 1 .. i - 1 : Starts(inq'[j], inq'[i].turn, e)
               \/ Plays(inq'[i].turn) \/ reply[inq'[i].turn].receipt = "failed"
    <3>1. i \in Positions /\ inq'[i] = inq[i]
      BY <1>4, <2>3 DEF Speech
    <3>2. \A j \in 1 .. i - 1 : inq'[j] = inq[j]
      BY <1>1, <1>5, <3>1
    <3> QED
      BY <1>8, <2>3, <3>1, <3>2 DEF InOrder, EndsMatch
  <2>4. \A t : Plays(t)' <=> play = t /\ ~reply[t].ended
    BY DEF Plays, Sends
  <2>5. agent'.epoch = e /\ agent'.turn # 0 /\ ~agent'.sent =>
           \/ play = agent'.turn /\ ~reply[agent'.turn].ended
           \/ \E j \in Positions' : Starts(inq'[j], agent'.turn, e)
    BY <1>1, <1>8, <2>2 DEF InOrder, EndsMatch, Plays
  <2>6. reply' = reply /\ play' = play
    BY DEF Sends
  <2> QED
    BY <2>3, <2>5, <2>6 DEF EndsMatch, Starts, Plays
<1> QED
  BY <1>6, <1>7, <1>8

\* The Agent asks for the silence of a capture, or leaves its round.
LEMMA StopInOrder ==
    ASSUME Typed, InOrder, NEW d \in Devices, AgentConfirms(d) \/ AgentCancels(d)
    PROVE  InOrder'
<1>1. PICK f, a : /\ f.type = "stop" /\ f.epoch = a.epoch /\ Sends(f) /\ a = agent' /\ a \in Agents
                  /\ \/ a.epoch = agent.epoch /\ a.turn = agent.turn
                     \/ a.epoch = agent.epoch + 1 /\ a.turn = 0
                  /\ a.sent = agent.sent /\ a.next = agent.next /\ a.owes = agent.owes
                  /\ a.cap = agent.cap
                  /\ a.heard = agent.heard \/ (~a.heard /\ a.turn = 0)
  <2> DEFINE stay == [agent EXCEPT !.stops = @ + 1]
             go == [agent EXCEPT !.stops = @ + 1, !.epoch = @ + 1, !.heard = FALSE, !.turn = 0]
  <2>1. stay \in Agents /\ go \in Agents /\ agent.epoch \in Nat /\ agent.cap \in Nat /\ agent.epoch + 1 \in Nat
    BY AgentFields DEF Typed
  <2>2. CASE AgentConfirms(d)
    <3> DEFINE f == StopFrame(agent.cap, agent.epoch, d)
    <3>1. agent' = stay /\ AgentSends(f) /\ UNCHANGED <<cap, epoch, last, play, reply, released>>
      BY <2>2 DEF AgentConfirms, Here, media
    <3>2. f \in Frames
      BY <2>1, FramesSent
    <3>3. f.type = "stop" /\ f.epoch = agent.epoch
      BY DEF StopFrame
    <3>4. /\ stay.epoch = agent.epoch /\ stay.turn = agent.turn /\ stay.sent = agent.sent
          /\ stay.next = agent.next /\ stay.owes = agent.owes /\ stay.cap = agent.cap
          /\ stay.heard = agent.heard
      BY DEF Typed, Agents
    <3> HIDE DEF f, stay
    <3> QED
      BY <2>1, <3>1, <3>2, <3>3, <3>4 DEF Sends
  <2>3. CASE AgentCancels(d)
    <3> DEFINE f == StopFrame(0, agent.epoch + 1, d)
    <3>1. agent' = go /\ AgentSends(f) /\ UNCHANGED <<cap, epoch, last, play, reply, released>>
      BY <2>3 DEF AgentCancels, Here, media
    <3>2. f \in Frames
      BY <2>1, FramesSent
    <3>3. f.type = "stop" /\ f.epoch = agent.epoch + 1
      BY DEF StopFrame
    <3>4. /\ go.epoch = agent.epoch + 1 /\ go.turn = 0 /\ go.sent = agent.sent
          /\ go.next = agent.next /\ go.owes = agent.owes /\ go.cap = agent.cap
          /\ go.heard = FALSE
      BY DEF Typed, Agents
    <3> HIDE DEF f, go
    <3> QED
      BY <2>1, <3>1, <3>2, <3>3, <3>4 DEF Sends
  <2> QED
    BY <2>2, <2>3
<1>2. ~Speech(f) /\ ~Opening(f)
  BY <1>1 DEF Speech, Opening
<1>3. Round' = Round
  BY <1>1, <1>2, SendsRound
<1>4. agent.epoch \in Nat /\ agent.epoch <= agent'.epoch
  BY <1>1 DEF Typed, Agents
<1>5. Ordered'
  BY <1>1, <1>4, SendsOrdered
<1>6. OneRound'
  <2>1. agent'.owes => agent.owes /\ agent'.turn = 0
    BY <1>1 DEF InOrder, OneRound
  <2>2. (agent'.turn # 0 => agent'.heard) /\ (agent'.heard => released)
    BY <1>1 DEF InOrder, OneRound
  <2> QED
    BY <1>1, <1>2, <2>1, <2>2, SendsOneRound
<1>7. Once' /\ \A e \in Round : OneTurn(e)' /\ EndsMatch(e)'
  BY <1>1, <1>2, SendsNoSpeech
<1>8. \A e \in Round : LeftByStop(e)'
  BY <1>1, SendsLeft
<1> QED
  BY <1>3, <1>5, <1>6, <1>7, <1>8 DEF InOrder

\* The Agent confirms a capture, which begins a round that nobody has spoken in.
LEMMA CapturesInOrder ==
    ASSUME Typed, InOrder, AgentCaptures
    PROVE  InOrder'
<1>0. PICK e \in Nat : e = agent.epoch + 1
  BY DEF Typed, Agents
<1> DEFINE f == Capturing(agent.cap, e)
           a == [agent EXCEPT !.owes = FALSE, !.epoch = @ + 1]
<1>1. a \in Agents /\ agent.epoch \in Nat /\ agent.cap \in Nat /\ e > agent.epoch
  <2>1. agent \in Agents
    BY DEF Typed
  <2>2. a \in Agents /\ agent.epoch \in Nat /\ agent.cap \in Nat
    BY <2>1, AgentFields
  <2> HIDE DEF a
  <2> QED
    BY <1>0, <2>2
<1>2. agent' = a /\ AgentSends(f) /\ UNCHANGED <<cap, epoch, last, play, reply, released>>
  BY <1>0 DEF AgentCaptures, Here, media
<1>3. f \in Frames
  BY <1>1, FramesSent
<1>4. f.type = "capturing" /\ f.epoch = e /\ f.cap = agent.cap
  BY DEF Capturing
<1>5. /\ a.epoch = e /\ a.turn = agent.turn /\ a.sent = agent.sent /\ a.next = agent.next
      /\ a.cap = agent.cap /\ a.heard = agent.heard /\ ~a.owes
  BY <1>0 DEF Typed, Agents
<1> HIDE DEF a, f
<1>6. Sends(f) /\ Opening(f) /\ ~Speech(f) /\ f.cap = cap
  BY <1>2, <1>3, <1>4, <1>5 DEF Sends, Opening, Speech, InOrder, OneRound
<1>7. Round = {} /\ agent.turn = 0 /\ play = 0 /\ epoch = 0
  BY RoundIs DEF AgentCaptures, InOrder, OneRound
<1>8. Round' = {e}
  BY <1>4, <1>6, <1>7, SendsRound
<1>9. /\ Len(inq) \in Nat /\ inq'[Len(inq) + 1] = f
      /\ \A i \in Positions : i \in Positions' /\ inq'[i] = inq[i]
      /\ \A i \in Positions' : i \in Positions \/ i = Len(inq) + 1
  BY <1>6, SentLast DEF Sends
<1>10. cap \in Nat
  BY DEF Typed
<1>11. Ordered'
  BY <1>1, <1>2, <1>4, <1>5, <1>6, <1>10, SendsOrdered
<1>12. OneRound'
  <2>1. \A i \in Positions : ~Opening(inq[i])
    BY <1>7, RoundIs
  <2>2. \A g : Opening(g)' <=> Opening(g)
    BY <1>2 DEF Opening
  <2>3. \A i \in Positions' : Opening(inq'[i]) => i = Len(inq) + 1
    BY <1>9, <2>1
  <2> QED
    BY <1>2, <1>5, <1>7, <2>2, <2>3 DEF InOrder, OneRound, Opening
<1>13. Once'
  BY <1>0, <1>1, <1>2, <1>5, <1>6, <1>7, SendsNoSpeech
<1>14. \A i \in Positions' : Speech(inq'[i]) => inq'[i].epoch \in Nat /\ inq'[i].epoch < e
  <2>1. \A i \in Positions : inq[i].epoch \in Nat /\ inq[i].epoch < e
    BY <1>1, InFlight DEF InOrder, Ordered
  <2> QED
    BY <1>6, <1>9, <2>1
<1>15. LeftByStop(e)'
  BY <1>1, <1>2, <1>5, <1>14 DEF LeftByStop, Speech
<1>16. OneTurn(e)'
  BY <1>1, <1>2, <1>7, <1>14 DEF OneTurn, Speech
<1>17. EndsMatch(e)'
  BY <1>1, <1>2, <1>5, <1>7, <1>14 DEF EndsMatch, Speech
<1> QED
  BY <1>8, <1>11, <1>12, <1>13, <1>15, <1>16, <1>17 DEF InOrder

\* The Agent begins a turn when none is under way.
LEMMA RepliesInOrder ==
    ASSUME Typed, InOrder, NEW d \in Devices, AgentReplies(d)
    PROVE  InOrder'
<1>0. PICK t \in Turns : t = agent.next
  BY DEF AgentReplies
<1> DEFINE n == Len(inq)
           f == ReplyStart(t, agent.epoch, d)
           a == [agent EXCEPT !.turn = agent.next, !.sent = FALSE, !.next = @ + 1]
<1>1. /\ a \in Agents /\ agent.epoch \in Nat /\ t \in Nat \ {0}
      /\ agent.turn = 0 /\ agent.heard /\ ~agent.owes
  <2>1. agent \in Agents /\ agent.turn = 0 /\ agent.heard /\ ~agent.owes /\ agent.next \in Turns
    BY <1>0 DEF AgentReplies, Typed
  <2>2. a \in Agents /\ agent.epoch \in Nat
    BY <2>1, AgentFields
  <2> HIDE DEF a
  <2> QED
    BY <2>1, <2>2 DEF Turns
<1>2. agent' = a /\ AgentSends(f) /\ UNCHANGED <<cap, epoch, last, play, reply, released>>
  BY <1>0 DEF AgentReplies, Here, media
<1>3. f \in Frames
  BY <1>1, FramesSent
<1>4. f.type = "start" /\ f.epoch = agent.epoch /\ f.turn = t
  BY DEF ReplyStart
<1>5. /\ a.epoch = agent.epoch /\ a.turn = t /\ ~a.sent /\ a.next = t + 1
      /\ a.cap = agent.cap /\ a.heard /\ ~a.owes
  BY <1>0, <1>1 DEF Typed, Agents
<1> HIDE DEF a, f, n
<1>6. Sends(f) /\ ~Opening(f)
  BY <1>2, <1>3, <1>4, <1>5 DEF Sends, Opening
<1>7. Round' = Round /\ released
  BY <1>1, <1>6, SendsRound DEF InOrder, OneRound
<1>8. /\ n \in Nat /\ inq'[n + 1] = f /\ n + 1 \in Positions'
      /\ \A i \in Positions : i \in Positions' /\ inq'[i] = inq[i] /\ i \in 1 .. n
      /\ \A i \in Positions' : i \in Positions \/ i = n + 1
  BY <1>6, SentLast DEF Sends, Positions, n
<1>9. Ordered'
  BY <1>1, <1>2, <1>4, <1>5, <1>6, SendsOrdered
<1>10. OneRound'
  BY <1>2, <1>5, <1>6, <1>7, SendsOneRound
<1>11. Once'
  <2>1. \A i \in Positions :
           Speech(inq[i]) => inq[i].turn \in Turns /\ inq[i].turn \in Nat /\ inq[i].turn < t
    BY <1>0, <1>1, InFlight DEF InOrder, Once, Turns
  <2>2. \A u \in Turns : u \in Nat /\ (u >= t => reply[u].st = "none")
    BY <1>0 DEF InOrder, Once, Turns
  <2>3. \A i \in Positions' : Speech(inq'[i]) => inq'[i].turn < t + 1
    BY <1>1, <1>4, <1>8, <2>1, <2>2
  <2>4. \A i \in Positions' : inq'[i].type = "start" => reply[inq'[i].turn].st = "none"
    BY <1>1, <1>4, <1>8, <2>2 DEF InOrder, Once
  <2>5. \A i \in Positions' : inq'[i].type = "end" /\ inq'[i].turn = t => a.sent
    BY <1>1, <1>4, <1>8, <2>1, <2>2 DEF Speech
  <2>6. \A i, j \in Positions' :
           Speech(inq'[i]) /\ inq'[i].type = inq'[j].type /\ inq'[i].turn = inq'[j].turn => i = j
    BY <1>1, <1>4, <1>8, <2>1, <2>2 DEF InOrder, Once, Speech
  <2>7. \A u \in Turns : u >= t + 1 => reply[u].st = "none"
    BY <1>1, <2>2
  <2> QED
    BY <1>1, <1>2, <1>5, <2>3, <2>4, <2>5, <2>6, <2>7 DEF Once, Speech
<1>12. ASSUME NEW e \in Round PROVE LeftByStop(e)'
  BY <1>2, <1>1, <1>4, <1>5, <1>6, <1>12, SendsLeft
<1>13. ASSUME NEW e \in Round PROVE OneTurn(e)'
  <2>1. CASE agent.epoch # e
    BY <1>2, <1>4, <1>5, <1>7, <1>8, <1>13, <2>1 DEF InOrder, OneTurn, Speech
  <2>2. CASE agent.epoch = e
    <3>1. \A i \in Positions : ~(inq[i].type = "start" /\ inq[i].epoch = e)
      BY <1>1, <1>13, <2>2, InFlight DEF InOrder, OneTurn, Speech, Turns
    <3>2. play = 0
      BY <1>1, <1>13, <2>2 DEF InOrder, OneTurn
    <3> QED
      BY <1>2, <1>4, <1>5, <1>7, <1>8, <2>2, <3>1, <3>2 DEF OneTurn, Speech
  <2> QED
    BY <2>1, <2>2
<1>14. ASSUME NEW e \in Round PROVE EndsMatch(e)'
  <2>1. ASSUME NEW i \in Positions', inq'[i].type = "end", inq'[i].epoch = e
        PROVE  \/ \E j \in 1 .. i - 1 : Starts(inq'[j], inq'[i].turn, e)
               \/ Plays(inq'[i].turn) \/ reply[inq'[i].turn].receipt = "failed"
    <3>1. i \in Positions /\ inq'[i] = inq[i]
      BY <1>4, <1>8, <2>1
    <3>2. \A j \in 1 .. i - 1 : inq'[j] = inq[j]
      BY <1>8, <3>1 DEF Positions
    <3> QED
      BY <1>14, <2>1, <3>1, <3>2 DEF InOrder, EndsMatch
  <2>2. agent'.epoch = e => Starts(inq'[n + 1], agent'.turn, e)
    BY <1>2, <1>4, <1>5, <1>8 DEF Starts
  <2> QED
    BY <1>2, <1>8, <2>1, <2>2 DEF EndsMatch, Starts, Plays
<1> QED
  BY <1>7, <1>9, <1>10, <1>11, <1>12, <1>13, <1>14 DEF InOrder

\* The Agent closes the text of its turn.
LEMMA EndsTextInOrder ==
    ASSUME Typed, InOrder, AgentEndsText
    PROVE  InOrder'
<1> DEFINE n == Len(inq)
           f == ReplyEnd(agent.turn, agent.epoch)
           a == [agent EXCEPT !.sent = TRUE]
<1>1. /\ agent \in Agents /\ agent.turn \in Turns /\ agent.turn # 0 /\ ~agent.sent
      /\ agent.heard /\ released
  BY DEF Typed, Agents, AgentEndsText, InOrder, OneRound
<1>2. a \in Agents /\ agent.epoch \in Nat
  BY <1>1, AgentFields
<1>3. agent' = a /\ AgentSends(f) /\ UNCHANGED <<cap, epoch, last, play, reply, released>>
  BY DEF AgentEndsText, Here, media
<1>4. f \in Frames
  BY <1>1, <1>2, FramesSent
<1>5. f.type = "end" /\ f.epoch = agent.epoch /\ f.turn = agent.turn
  BY DEF ReplyEnd
<1>6. /\ a.epoch = agent.epoch /\ a.turn = agent.turn /\ a.sent /\ a.next = agent.next
      /\ a.cap = agent.cap /\ a.heard = agent.heard /\ a.owes = agent.owes
  BY <1>1 DEF Agents
<1> HIDE DEF a, f, n
<1>7. Sends(f) /\ ~Opening(f)
  BY <1>3, <1>4, <1>5, <1>6 DEF Sends, Opening
<1>8. Round' = Round
  BY <1>7, SendsRound
<1>9. /\ n \in Nat /\ inq'[n + 1] = f /\ n + 1 \in Positions' /\ Positions = 1 .. n
      /\ \A i \in Positions : i \in Positions' /\ inq'[i] = inq[i]
      /\ \A i \in Positions' : i \in Positions \/ i = n + 1
  BY <1>7, SentLast DEF Sends, Positions, n
<1>10. Ordered'
  BY <1>2, <1>3, <1>5, <1>6, <1>7, SendsOrdered
<1>11. OneRound'
  <2>1. agent.owes => agent.turn = 0
    BY DEF InOrder, OneRound
  <2> QED
    BY <1>1, <1>3, <1>6, <1>7, <2>1, SendsOneRound
<1>12. Once'
  <2>1. \A i \in Positions' : Speech(inq'[i]) => inq'[i].turn < agent.next
    BY <1>5, <1>9 DEF InOrder, Once
  <2>2. \A i \in Positions' : inq'[i].type = "start" => reply[inq'[i].turn].st = "none"
    BY <1>5, <1>9 DEF InOrder, Once
  <2>3. \A i \in Positions : ~(inq[i].type = "end" /\ inq[i].turn = agent.turn)
    BY <1>1 DEF InOrder, Once
  <2>4. \A i, j \in Positions' :
           Speech(inq'[i]) /\ inq'[i].type = inq'[j].type /\ inq'[i].turn = inq'[j].turn => i = j
    BY <1>5, <1>9, <2>3 DEF InOrder, Once, Speech
  <2> QED
    BY <1>3, <1>6, <2>1, <2>2, <2>4 DEF InOrder, Once, Speech
<1>13. ASSUME NEW e \in Round PROVE LeftByStop(e)'
  BY <1>2, <1>3, <1>5, <1>6, <1>7, <1>13, SendsLeft
<1>14. ASSUME NEW e \in Round PROVE OneTurn(e)'
  BY <1>1, <1>3, <1>5, <1>6, <1>9, <1>14 DEF InOrder, OneTurn, Speech
<1>15. ASSUME NEW e \in Round PROVE EndsMatch(e)'
  <2>1. ASSUME NEW i \in Positions, inq[i].type = "end", inq[i].epoch = e
        PROVE  \/ \E j \in 1 .. i - 1 : Starts(inq'[j], inq[i].turn, e)
               \/ Plays(inq[i].turn) \/ reply[inq[i].turn].receipt = "failed"
    <3>1. \A j \in 1 .. i - 1 : inq'[j] = inq[j]
      BY <1>9, <2>1
    <3> QED
      BY <1>15, <2>1, <3>1 DEF InOrder, EndsMatch
  <2>2. agent.epoch = e =>
           \/ \E j \in 1 .. n : Starts(inq'[j], agent.turn, e)
           \/ Plays(agent.turn)
    BY <1>1, <1>9, <1>15 DEF InOrder, EndsMatch
  <2>3. ASSUME NEW i \in Positions', inq'[i].type = "end", inq'[i].epoch = e
        PROVE  \/ \E j \in 1 .. i - 1 : Starts(inq'[j], inq'[i].turn, e)
               \/ Plays(inq'[i].turn) \/ reply[inq'[i].turn].receipt = "failed"
    <3>1. CASE i \in Positions
      BY <1>9, <2>1, <2>3, <3>1
    <3>2. CASE i = n + 1
      <4>1. i - 1 = n
        BY <1>9, <3>2
      <4> QED
        BY <1>5, <1>9, <2>2, <2>3, <3>2, <4>1
    <3> QED
      BY <1>9, <2>3, <3>1, <3>2
  <2> QED
    BY <1>3, <1>6, <2>3 DEF EndsMatch, Starts, Plays
<1> QED
  BY <1>8, <1>10, <1>11, <1>12, <1>13, <1>14, <1>15 DEF InOrder

-----------------------------------------------------------------------------
(* What this side reads.                                                     *)

\* What is left on the stream is in order: epochs.
LEMMA ReadOrdered ==
    ASSUME Typed, InOrder, NEW type, Reads(type), UNCHANGED <<cap, agent>>,
           \/ last' = last /\ epoch' \in {0, epoch}
           \/ inq[1].type = "capturing" /\ last' = inq[1].epoch /\ epoch' = inq[1].epoch
    PROVE  Ordered'
<1>1. /\ 1 \in Positions
      /\ \A i \in Positions' : i + 1 \in Positions /\ inq'[i] = inq[i + 1] /\ i \in Nat /\ 1 < i + 1
  BY ReadFirst DEF Positions
<1>2. epoch \in Nat /\ last \in Nat /\ agent.epoch \in Nat /\ cap \in Nat
  BY DEF Typed, Agents
<1>3. \A i \in Positions : inq[i].epoch \in Nat /\ i \in Nat
  BY InFlight DEF InOrder, Ordered
<1>4. epoch' <= last' /\ last' <= agent.epoch
  BY <1>1, <1>2, <1>3 DEF InOrder, Ordered
<1>5. \A i \in Positions' :
         /\ inq'[i].type # "prepared" /\ inq'[i].epoch <= agent.epoch
         /\ inq'[i].type = "capturing" => inq'[i].epoch > last' /\ inq'[i].cap <= cap
  BY <1>1, <1>2, <1>3 DEF InOrder, Ordered
<1>6. \A i, j \in Positions' : i < j =>
         /\ inq'[i].epoch <= inq'[j].epoch
         /\ inq'[j].type = "capturing" => inq'[i].epoch < inq'[j].epoch
  <2> SUFFICES ASSUME NEW i \in Positions', NEW j \in Positions', i < j
               PROVE  /\ inq[i + 1].epoch <= inq[j + 1].epoch
                      /\ inq[j + 1].type = "capturing" => inq[i + 1].epoch < inq[j + 1].epoch
    BY <1>1
  <2>1. i + 1 \in Positions /\ j + 1 \in Positions /\ i + 1 < j + 1
    BY <1>1
  <2> QED
    BY <2>1 DEF InOrder, Ordered
<1> QED
  BY <1>4, <1>5, <1>6 DEF Ordered

\* What is left on the stream is in order: turns.
LEMMA ReadOnce ==
    ASSUME Typed, InOrder, NEW type, Reads(type), UNCHANGED agent,
           \A t \in Turns : reply[t].st = "none" =>
               reply'[t].st = "none" \/ (inq[1].type = "start" /\ t = inq[1].turn)
    PROVE  Once'
<1>1. /\ 1 \in Positions
      /\ \A i \in Positions' : i + 1 \in Positions /\ inq'[i] = inq[i + 1] /\ i \in Nat /\ 1 # i + 1
  BY ReadFirst DEF Positions
<1>2. agent.next \in Nat /\ \A t \in Turns : t \in Nat
  BY DEF Typed, Agents, Turns
<1>3. \A i \in Positions : Speech(inq[i]) => inq[i].turn \in Turns
  BY InFlight
<1>4. \A t \in Turns : t >= agent.next => reply'[t].st = "none"
  BY <1>1, <1>2, <1>3 DEF InOrder, Once, Speech
<1>5. \A i \in Positions' : inq'[i].type = "start" => reply'[inq'[i].turn].st = "none"
  BY <1>1, <1>3 DEF InOrder, Once, Speech
<1>6. \A i \in Positions' : /\ Speech(inq'[i]) => inq'[i].turn < agent.next
                            /\ inq'[i].type = "end" /\ inq'[i].turn = agent.turn => agent.sent
  BY <1>1 DEF InOrder, Once
<1>7. \A i, j \in Positions' :
         Speech(inq'[i]) /\ inq'[i].type = inq'[j].type /\ inq'[i].turn = inq'[j].turn => i = j
  <2> SUFFICES ASSUME NEW i \in Positions', NEW j \in Positions', Speech(inq[i + 1]),
                      inq[i + 1].type = inq[j + 1].type, inq[i + 1].turn = inq[j + 1].turn
               PROVE  i = j
    BY <1>1
  <2>1. i + 1 = j + 1
    BY <1>1 DEF InOrder, Once
  <2> QED
    BY <1>1, <2>1
<1> QED
  BY <1>4, <1>5, <1>6, <1>7 DEF InOrder, Once, Speech

\* What is left on the stream is in order: rounds that the Agent has left.
LEMMA ReadLeft ==
    ASSUME Typed, InOrder, NEW type, Reads(type), UNCHANGED agent,
           NEW e \in Round, ~StopsAfter(inq[1], e)
    PROVE  LeftByStop(e)'
<1>1. /\ 1 \in Positions
      /\ \A i \in Positions' : i + 1 \in Positions /\ inq'[i] = inq[i + 1] /\ i \in Nat
      /\ \A i \in Positions : i \in Nat /\ (i # 1 => i - 1 \in Positions' /\ inq'[i - 1] = inq[i])
  BY ReadFirst DEF Positions
<1>2. agent.epoch > e => \E j \in Positions' : StopsAfter(inq'[j], e)
  BY <1>1 DEF InOrder, LeftByStop
<1>3. ASSUME NEW i \in Positions', Speech(inq'[i]), inq'[i].epoch > e
      PROVE  \E j \in 1 .. i - 1 : StopsAfter(inq'[j], e)
  <2>1. PICK j \in 1 .. (i + 1) - 1 : StopsAfter(inq[j], e)
    BY <1>1, <1>3 DEF InOrder, LeftByStop
  <2>2. j # 1 /\ j \in Positions /\ j - 1 \in 1 .. i - 1
    BY <1>1, <2>1 DEF Positions
  <2> QED
    BY <1>1, <2>1, <2>2
<1> QED
  BY <1>2, <1>3 DEF LeftByStop, Speech, StopsAfter

\* What is left on the stream is in order: turns that what is read does not begin.
LEMMA ReadTurns ==
    ASSUME Typed, InOrder, NEW type, Reads(type), UNCHANGED <<agent, play, reply, released>>,
           NEW e \in Round, ~(inq[1].type = "start" /\ inq[1].epoch = e)
    PROVE  OneTurn(e)' /\ EndsMatch(e)'
<1>1. /\ 1 \in Positions
      /\ \A i \in Positions' : i + 1 \in Positions /\ inq'[i] = inq[i + 1] /\ i \in Nat
      /\ \A i \in Positions : i \in Nat /\ (i # 1 => i - 1 \in Positions' /\ inq'[i - 1] = inq[i])
  BY ReadFirst DEF Positions
<1>2. OneTurn(e)'
  <2>1. ASSUME NEW i \in Positions', inq'[i].type = "start", inq'[i].epoch = e
        PROVE  /\ play = 0 /\ (agent.epoch = e => agent.turn = inq'[i].turn)
               /\ \A j \in Positions' : inq'[j].type = "start" /\ inq'[j].epoch = e => i = j
    <3>1. \A j \in Positions' : inq'[j].type = "start" /\ inq'[j].epoch = e => i + 1 = j + 1
      BY <1>1, <2>1 DEF InOrder, OneTurn
    <3> QED
      BY <1>1, <2>1, <3>1 DEF InOrder, OneTurn
  <2>2. \A i \in Positions' : Speech(inq'[i]) /\ inq'[i].epoch = e => released
    BY <1>1 DEF InOrder, OneTurn
  <2> QED
    BY <2>1, <2>2 DEF InOrder, OneTurn, Speech
<1>3. \A j \in Positions : \A t : Starts(inq[j], t, e) => j # 1
  BY DEF Starts
<1>4. ASSUME NEW i \in Positions', inq'[i].type = "end", inq'[i].epoch = e
      PROVE  \/ \E j \in 1 .. i - 1 : Starts(inq'[j], inq'[i].turn, e)
             \/ Plays(inq'[i].turn) \/ reply[inq'[i].turn].receipt = "failed"
  <2>1. CASE \E j \in 1 .. (i + 1) - 1 : Starts(inq[j], inq[i + 1].turn, e)
    <3>1. PICK j \in 1 .. (i + 1) - 1 : Starts(inq[j], inq[i + 1].turn, e)
      BY <2>1
    <3>2. j \in Positions
      BY <1>1, <3>1 DEF Positions
    <3>3. j # 1
      BY <1>3, <3>1, <3>2
    <3>4. j - 1 \in 1 .. i - 1
      BY <1>1, <3>1, <3>3
    <3> QED
      BY <1>1, <1>4, <3>1, <3>2, <3>3, <3>4
  <2> QED
    BY <1>1, <1>4, <2>1 DEF InOrder, EndsMatch
<1>5. agent.epoch = e /\ agent.turn # 0 /\ ~agent.sent =>
          Plays(agent.turn) \/ \E j \in Positions' : Starts(inq'[j], agent.turn, e)
  BY <1>1, <1>3 DEF InOrder, EndsMatch
<1>6. EndsMatch(e)'
  BY <1>4, <1>5 DEF EndsMatch, Starts, Plays
<1> QED
  BY <1>2, <1>6

\* A frame that confirms no capture leaves the round, or ends it.
LEMMA ReadOneRound ==
    ASSUME Typed, InOrder, NEW type, Reads(type), UNCHANGED <<cap, agent, released>>,
           ~Opening(inq[1]), epoch' = epoch \/ (epoch # 0 /\ epoch' = 0), play' # 0 => epoch' # 0
    PROVE  /\ OneRound'
           /\ Round' = IF epoch' = epoch THEN Round ELSE {}
<1>1. /\ 1 \in Positions
      /\ \A i \in Positions' : i + 1 \in Positions /\ inq'[i] = inq[i + 1] /\ i \in Nat
      /\ \A i \in Positions : i \in Nat /\ (i # 1 => i - 1 \in Positions' /\ inq'[i - 1] = inq[i])
  BY ReadFirst DEF Positions
<1>2. \A g : Opening(g)' <=> Opening(g)
  BY DEF Opening
<1>3. \A e : e \in Round' <=> \/ epoch' # 0 /\ e = epoch'
                              \/ \E i \in Positions' : Opening(inq'[i]) /\ inq'[i].epoch = e
  BY <1>2 DEF Round, Opening
<1>4. \A e : (\E i \in Positions' : Opening(inq'[i]) /\ inq'[i].epoch = e)
              <=> (\E i \in Positions : Opening(inq[i]) /\ inq[i].epoch = e)
  BY <1>1
<1>5. Round' = IF epoch' = epoch THEN Round ELSE {}
  <2>1. CASE epoch' = epoch
    BY <1>3, <1>4, <2>1, RoundIs
  <2>2. CASE epoch # 0 /\ epoch' = 0
    <3>1. \A i \in Positions : ~Opening(inq[i])
      BY <2>2 DEF InOrder, OneRound
    <3> QED
      BY <1>3, <1>4, <2>2, <3>1
  <2> QED
    BY <2>1, <2>2
<1>6. \A i \in Positions' : Opening(inq'[i]) => epoch' = 0
  BY <1>1 DEF InOrder, OneRound
<1>7. \A i, j \in Positions' : Opening(inq'[i]) /\ Opening(inq'[j]) => i = j
  <2> SUFFICES ASSUME NEW i \in Positions', NEW j \in Positions', Opening(inq[i + 1]), Opening(inq[j + 1])
               PROVE  i = j
    BY <1>1
  <2>1. i + 1 = j + 1
    BY <1>1 DEF InOrder, OneRound
  <2> QED
    BY <1>1, <2>1
<1>8. agent.owes => Round' = {}
  BY <1>5 DEF InOrder, OneRound
<1> QED
  BY <1>2, <1>5, <1>6, <1>7, <1>8 DEF InOrder, OneRound, Opening

\* A frame that changes nothing is gone.
LEMMA DroppedInOrder ==
    ASSUME Typed, InOrder, NEW type, Reads(type), ~Opening(inq[1]),
           UNCHANGED <<cap, agent, released, epoch, last, play, reply>>,
           \A e \in Round : /\ ~StopsAfter(inq[1], e)
                            /\ ~(inq[1].type = "start" /\ inq[1].epoch = e)
    PROVE  InOrder'
<1>1. Ordered'
  BY ReadOrdered
<1>2. Once'
  BY ReadOnce
<1>3. OneRound' /\ Round' = Round
  BY ReadOneRound DEF InOrder, OneRound
<1>4. \A e \in Round : LeftByStop(e)' /\ OneTurn(e)' /\ EndsMatch(e)'
  BY ReadLeft, ReadTurns
<1> QED
  BY <1>1, <1>2, <1>3, <1>4 DEF InOrder

\* Without a round there is nothing to keep in order in it.
LEMMA RoundOver ==
    ASSUME Ordered', OneRound', Once', Round' = {}
    PROVE  InOrder'
BY DEF InOrder

\* What is read first of a round that has not been confirmed is of an earlier one.
LEMMA ReadEarlier ==
    ASSUME Typed, InOrder, NEW type, Reads(type), ~Opening(inq[1]), NEW e \in Round, epoch = 0
    PROVE  inq[1].epoch < e
<1>1. 1 \in Positions
  BY ReadFirst
<1>2. PICK k \in Positions : Opening(inq[k]) /\ \A i \in Positions : i < k => inq[i].epoch < e
  BY RoundOne
<1>3. k # 1 /\ 1 < k
  BY <1>2 DEF Positions
<1> QED
  BY <1>1, <1>2, <1>3

\* A capture is confirmed: the round that awaits it is entered, and no other frame is.
LEMMA CapturingInOrder ==
    ASSUME Typed, InOrder, ~asked, AcceptCapturing
    PROVE  InOrder' /\ broken' = broken
<1>1. /\ Reads("capturing") /\ 1 \in Positions /\ Head(inq) = inq[1] /\ inq[1].type = "capturing"
      /\ \A i \in Positions' : i + 1 \in Positions /\ inq'[i] = inq[i + 1] /\ i \in Nat /\ i + 1 # 1
      /\ \A i \in Positions : i \in Nat /\ (i # 1 => i - 1 \in Positions' /\ inq'[i - 1] = inq[i])
  BY ReadFirst DEF AcceptCapturing, Positions
<1>2. UNCHANGED <<cap, agent, released, play, reply>>
  BY DEF AcceptCapturing, media
<1>3. inq[1].epoch \in Nat /\ last \in Nat /\ inq[1].epoch > last /\ inq[1].epoch # 0
  BY <1>1, InFlight DEF Typed, InOrder, Ordered
<1>4. CASE ~Opening(inq[1])
  <2>1. UNCHANGED <<epoch, last, broken>>
    BY <1>1, <1>4 DEF AcceptCapturing, Opening
  <2>2. \A e : ~StopsAfter(inq[1], e) /\ inq[1].type # "start"
    BY <1>1 DEF StopsAfter
  <2> QED
    BY <1>1, <1>2, <1>4, <2>1, <2>2, DroppedInOrder
<1>5. CASE Opening(inq[1])
  <2>1. epoch' = inq[1].epoch /\ last' = inq[1].epoch /\ UNCHANGED broken
    BY <1>1, <1>3, <1>5 DEF AcceptCapturing, Opening
  <2>2. \A g : Opening(g)' <=> Opening(g)
    BY <1>2 DEF Opening
  <2>3. \A i \in Positions : Opening(inq[i]) => i = 1
    BY <1>1, <1>5 DEF InOrder, OneRound
  <2>4. \A i \in Positions' : ~Opening(inq'[i])
    BY <1>1, <2>3
  <2>5. epoch = 0 /\ play = 0
    BY <1>1, <1>5 DEF InOrder, OneRound
  <2>6. Round' = {inq[1].epoch}
    BY <1>3, <2>1, <2>2, <2>4 DEF Round, Opening
  <2>7. Round = {inq[1].epoch}
    BY <1>1, <1>5, <2>3, <2>5, RoundIs
  <2>8. Ordered'
    BY <1>1, <1>2, <2>1, ReadOrdered
  <2>9. Once'
    BY <1>1, <1>2, ReadOnce
  <2>10. OneRound'
    BY <1>2, <1>3, <2>1, <2>2, <2>4, <2>5, <2>6, <2>7 DEF InOrder, OneRound, Opening
  <2>11. \A e \in Round : LeftByStop(e)' /\ OneTurn(e)' /\ EndsMatch(e)'
    BY <1>1, <1>2, ReadLeft, ReadTurns DEF StopsAfter
  <2> QED
    BY <2>1, <2>6, <2>7, <2>8, <2>9, <2>10, <2>11 DEF InOrder
<1> QED
  BY <1>4, <1>5

\* A stop ends the round that it is of, if something plays in it, and an earlier one.
LEMMA StoppedInOrder ==
    ASSUME GroupInv, InOrder, AcceptStop
    PROVE  InOrder'
<1>1. /\ Reads("stop") /\ 1 \in Positions /\ Head(inq) = inq[1] /\ inq[1].type = "stop" /\ Typed
  BY ReadFirst DEF AcceptStop, GroupInv
<1>2. UNCHANGED <<cap, agent, released, last>> /\ ~Opening(inq[1])
  BY <1>1 DEF AcceptStop, Opening
<1>3. inq[1].epoch \in Nat /\ epoch \in Nat
  BY <1>1, InFlight DEF Typed
<1>4. CASE UNCHANGED <<epoch, play, reply>> /\ (epoch = 0 \/ inq[1].epoch <= epoch)
  <2>1. ASSUME NEW e \in Round PROVE ~StopsAfter(inq[1], e)
    <3>1. e \in Nat /\ (epoch # 0 => e = epoch) /\ (epoch = 0 => inq[1].epoch < e)
      BY <1>1, <1>2, <2>1, RoundOne, ReadEarlier
    <3> QED
      BY <1>3, <1>4, <3>1 DEF StopsAfter
  <2> QED
    BY <1>1, <1>2, <1>4, <2>1, DroppedInOrder
<1>5. CASE epoch # 0 /\ epoch' = 0 /\ Revoked
  <2>1. play' = 0 /\ \A t \in Turns : reply[t].st = "none" => reply'[t].st = "none"
    <3>1. play # 0 => play \in Turns /\ reply[play].st \in {"waiting", "presenting", "sounding"}
      BY DEF GroupInv, Typed, MediaInv, Playing
    <3> QED
      BY <1>1, <1>5, <3>1 DEF Revoked, Cancelled, Typed
  <2>2. Ordered'
    BY <1>1, <1>2, <1>5, ReadOrdered
  <2>3. Once'
    BY <1>1, <1>2, <2>1, ReadOnce
  <2>4. OneRound' /\ Round' = {}
    BY <1>1, <1>2, <1>5, <2>1, ReadOneRound
  <2> QED
    BY <2>2, <2>3, <2>4, RoundOver
<1>6. \/ UNCHANGED <<epoch, play, reply>> /\ (epoch = 0 \/ inq[1].epoch <= epoch)
      \/ epoch # 0 /\ epoch' = 0 /\ Revoked
  <2>1. CASE epoch # 0 /\ inq[1].epoch >= epoch
    BY <1>1, <1>3, <2>1 DEF AcceptStop, Revoked
  <2>2. CASE ~(epoch # 0 /\ inq[1].epoch >= epoch)
    BY <1>1, <1>3, <2>2 DEF AcceptStop, media
  <2> QED
    BY <2>1, <2>2
<1> QED
  BY <1>4, <1>5, <1>6

\* Speech that is not too late is of the round, and its capture is over.
LEMMA SpeechInTime ==
    ASSUME Typed, InOrder, ~asked, NEW type, Reads(type), Speech(inq[1]), ~TooLate(inq[1])
    PROVE  /\ epoch \in Round /\ epoch # 0 /\ inq[1].epoch = epoch /\ ~Refused(inq[1])
<1>1. epoch # 0 /\ epoch \in Nat /\ 1 \in Positions /\ inq[1].epoch \in Nat
      /\ inq[1].epoch >= epoch
  BY ReadFirst, InFlight DEF TooLate, Typed, Speech
<1>2. epoch \in Round
  BY <1>1, RoundIs
<1>3. inq[1].epoch = epoch
  <2>1. ~\E j \in 1 .. 1 - 1 : StopsAfter(inq[j], epoch)
    OBVIOUS
  <2>2. ~(inq[1].epoch > epoch)
    BY <1>1, <1>2, <2>1 DEF InOrder, LeftByStop
  <2> QED
    BY <1>1, <2>2
<1>4. released
  BY <1>1, <1>2, <1>3 DEF InOrder, OneTurn
<1> QED
  BY <1>1, <1>2, <1>3, <1>4 DEF Refused

\* Speech that is too late is of no round.
LEMMA SpeechTooLate ==
    ASSUME Typed, InOrder, ~asked, NEW type, Reads(type), Speech(inq[1]), TooLate(inq[1]),
           UNCHANGED <<cap, agent, released, epoch, last, play, reply>>
    PROVE  InOrder'
<1>1. inq[1].epoch \in Nat /\ epoch \in Nat /\ ~Opening(inq[1])
  BY ReadFirst, InFlight DEF Typed, Speech, Opening
<1>2. ASSUME NEW e \in Round PROVE inq[1].epoch < e
  BY <1>1, <1>2, RoundOne, ReadEarlier DEF TooLate
<1>3. \A e \in Round : inq[1].epoch # e /\ ~StopsAfter(inq[1], e)
  <2>1. \A e \in Round : e \in Nat
    BY RoundOne
  <2> QED
    BY <1>1, <1>2, <2>1 DEF StopsAfter, Speech
<1> QED
  BY <1>1, <1>3, DroppedInOrder

\* A turn begins to play when the stream was told to play it, and nothing else plays.
LEMMA StartedInOrder ==
    ASSUME GroupInv, InOrder, ~asked, AcceptReplyStart
    PROVE  InOrder' /\ broken' = broken
<1> DEFINE f == inq[1]
           r == [NoReply EXCEPT !.st = "waiting", !.dev = f.dev, !.cap = cap]
<1>1. /\ Reads("start") /\ 1 \in Positions /\ Head(inq) = f /\ f.type = "start" /\ Typed
      /\ \A i \in Positions' : /\ i + 1 \in Positions /\ inq'[i] = inq[i + 1]
                               /\ i \in Nat /\ i + 1 # 1 /\ (i + 1) - 1 = i
      /\ \A i \in Positions : \A j \in 1 .. i - 1 : j \in Positions
  BY ReadFirst DEF AcceptReplyStart, GroupInv, Positions
<1>2. UNCHANGED <<cap, agent, released, epoch, last>> /\ Speech(f) /\ ~Opening(f)
  BY <1>1 DEF AcceptReplyStart, Opening, Speech
<1>3. CASE TooLate(f)
  <2>1. UNCHANGED <<broken, play, reply>>
    BY <1>1, <1>3 DEF AcceptReplyStart, media
  <2> QED
    BY <1>1, <1>2, <1>3, <2>1, SpeechTooLate
<1>4. CASE ~TooLate(f)
  <2>1. PICK e \in Round : e = epoch /\ e # 0 /\ f.epoch = e /\ ~Refused(f)
    BY <1>1, <1>2, <1>4, SpeechInTime
  <2>2. PICK u \in Turns : u = f.turn /\ u # 0 /\ reply[u].st = "none"
    BY <1>1, <1>2, InFlight DEF InOrder, Once, Turns
  <2>3. /\ play = 0 /\ (agent.epoch = e => agent.turn = u)
        /\ \A j \in Positions : inq[j].type = "start" /\ inq[j].epoch = e => j = 1
    BY <1>1, <2>1, <2>2 DEF InOrder, OneTurn
  <2>4. UNCHANGED broken /\ play' = u /\ reply' = [reply EXCEPT ![u] = r]
    BY <1>1, <1>4, <2>1, <2>2, <2>3 DEF AcceptReplyStart
  <2>5. r.st = "waiting" /\ ~r.ended
    BY DEF NoReply
  <2> HIDE DEF r, f
  <2>6. \A t \in Turns : reply'[t] = IF t = u THEN r ELSE reply[t]
    BY <1>1, <2>4 DEF Typed
  <2>7. Round' = Round /\ OneRound'
    BY <1>1, <1>2, <2>1, ReadOneRound DEF f
  <2>8. \A x \in Round : x = e
    BY <1>1, <2>1, RoundOne
  <2>9. Ordered'
    BY <1>1, <1>2, ReadOrdered DEF f
  <2>10. Once'
    BY <1>1, <1>2, <2>2, <2>6, ReadOnce DEF f
  <2>11. LeftByStop(e)'
    BY <1>1, <1>2, ReadLeft DEF StopsAfter, f
  <2>12. OneTurn(e)'
    <3>1. \A i \in Positions' : ~(inq'[i].type = "start" /\ inq'[i].epoch = e)
      BY <1>1, <2>3
    <3>2. released /\ (agent.epoch = e => agent.turn = play')
      BY <1>1, <1>2, <2>1, <2>3, <2>4 DEF InOrder, OneTurn
    <3> QED
      BY <1>2, <3>1, <3>2 DEF OneTurn
  <2>13. play' = u /\ ~reply'[u].ended /\ \A t \in Turns : ~Plays(t)
    BY <2>2, <2>3, <2>4, <2>5, <2>6 DEF Plays, Turns
  <2>14. \A j \in Positions : \A t : Starts(inq[j], t, e) => t = u
    BY <2>2, <2>3 DEF Starts, f
  <2>15. ASSUME NEW i \in Positions', inq'[i].type = "end", inq'[i].epoch = e
         PROVE  \/ play' = inq'[i].turn /\ ~reply'[inq'[i].turn].ended
                \/ reply'[inq'[i].turn].receipt = "failed"
    <3>1. PICK t \in Turns : t = inq[i + 1].turn
      BY <1>1, <2>15, InFlight DEF Speech
    <3>2. (\E j \in 1 .. i : Starts(inq[j], t, e)) \/ Plays(t) \/ reply[t].receipt = "failed"
      BY <1>1, <2>15, <3>1 DEF InOrder, EndsMatch
    <3>3. t = u \/ reply[t].receipt = "failed"
      BY <1>1, <2>13, <2>14, <3>2
    <3> QED
      BY <1>1, <2>6, <2>13, <3>1, <3>3
  <2>16. agent.epoch = e /\ agent.turn # 0 /\ ~agent.sent => agent.turn = u
    BY <2>3
  <2>17. EndsMatch(e)'
    BY <1>2, <2>13, <2>15, <2>16 DEF EndsMatch, Plays
  <2> QED
    BY <2>4, <2>7, <2>8, <2>9, <2>10, <2>11, <2>12, <2>17 DEF InOrder
<1> QED
  BY <1>3, <1>4

\* The text of the turn that plays ends, or that of one whose presentation failed.
LEMMA EndedInOrder ==
    ASSUME GroupInv, InOrder, ~asked, AcceptReplyEnd
    PROVE  InOrder' /\ broken' = broken
<1> DEFINE f == inq[1]
           r == [reply[f.turn] EXCEPT !.ended = TRUE]
<1>1. /\ Reads("end") /\ 1 \in Positions /\ Head(inq) = f /\ f.type = "end" /\ Typed
      /\ \A i \in Positions' : /\ i + 1 \in Positions /\ inq'[i] = inq[i + 1]
                               /\ i \in Nat /\ i + 1 # 1 /\ (i + 1) - 1 = i
      /\ \A i \in Positions : /\ i \in Nat
                              /\ i # 1 => i - 1 \in Positions' /\ inq'[i - 1] = inq[i]
      /\ \A i \in Positions : \A j \in 1 .. i - 1 : j \in Positions
  BY ReadFirst DEF AcceptReplyEnd, GroupInv, Positions
<1>2. UNCHANGED <<cap, agent, released, epoch, last>> /\ Speech(f) /\ ~Opening(f)
  BY <1>1 DEF AcceptReplyEnd, Opening, Speech
<1>3. CASE TooLate(f)
  <2>1. UNCHANGED <<broken, play, reply>>
    BY <1>1, <1>3 DEF AcceptReplyEnd, media
  <2> QED
    BY <1>1, <1>2, <1>3, <2>1, SpeechTooLate
<1>4. CASE ~TooLate(f)
  <2>1. PICK e \in Round : e = epoch /\ e # 0 /\ f.epoch = e /\ ~Refused(f)
    BY <1>1, <1>2, <1>4, SpeechInTime
  <2>2. PICK u \in Turns : u = f.turn /\ u # 0
    BY <1>1, <1>2, InFlight DEF Turns
  <2>3. Plays(u) \/ reply[u].receipt = "failed"
    <3>1. ~\E j \in 1 .. 1 - 1 : Starts(inq[j], u, e)
      OBVIOUS
    <3> QED
      BY <1>1, <2>1, <2>2, <3>1 DEF InOrder, EndsMatch
  <2>4. CASE reply[u].receipt = "failed"
    <3>1. UNCHANGED <<broken, play, reply>>
      BY <1>1, <2>1, <2>2, <2>4 DEF AcceptReplyEnd, media
    <3>2. \A x : ~StopsAfter(inq[1], x) /\ inq[1].type # "start"
      BY <1>1 DEF StopsAfter
    <3> QED
      BY <1>1, <1>2, <3>1, <3>2, DroppedInOrder
  <2>5. CASE Plays(u) /\ reply[u].receipt # "failed"
    <3>1. UNCHANGED <<broken, play>> /\ reply' = [reply EXCEPT ![u] = r] /\ play = u
      BY <1>1, <1>4, <2>1, <2>2, <2>5 DEF AcceptReplyEnd, Plays
    <3>2. r.st = reply[u].st
      BY <1>1, <2>2 DEF Typed, Replies
    <3> HIDE DEF r, f
    <3>3. \A t \in Turns : reply'[t] = IF t = u THEN r ELSE reply[t]
      BY <1>1, <3>1 DEF Typed
    <3>4. Round' = Round /\ OneRound'
      BY <1>1, <1>2, <2>1, ReadOneRound DEF f
    <3>5. \A x \in Round : x = e
      BY <1>1, <2>1, RoundOne
    <3>6. Ordered'
      BY <1>1, <1>2, ReadOrdered DEF f
    <3>7. Once'
      BY <1>1, <1>2, <3>2, <3>3, ReadOnce DEF f
    <3>8. LeftByStop(e)'
      BY <1>1, <1>2, ReadLeft DEF StopsAfter, f
    <3>9. \A j \in Positions : ~(inq[j].type = "start" /\ inq[j].epoch = e)
      BY <2>2, <3>1 DEF InOrder, OneTurn
    <3>10. OneTurn(e)'
      BY <1>1, <1>2, <3>1, <3>9 DEF InOrder, OneTurn, Speech
    <3>11. \A j \in Positions : inq[j].type = "end" /\ inq[j].turn = u => j = 1
      BY <1>1, <1>2, <2>2 DEF InOrder, Once, f
    <3>12. ASSUME NEW i \in Positions', inq'[i].type = "end", inq'[i].epoch = e
           PROVE  reply'[inq'[i].turn].receipt = "failed"
      <4>1. PICK t \in Turns : t = inq[i + 1].turn /\ t # u
        BY <1>1, <3>11, <3>12, InFlight DEF Speech
      <4>2. (\E j \in 1 .. i : Starts(inq[j], t, e)) \/ Plays(t) \/ reply[t].receipt = "failed"
        BY <1>1, <3>12, <4>1 DEF InOrder, EndsMatch
      <4>3. reply[t].receipt = "failed"
        BY <1>1, <3>1, <3>9, <4>1, <4>2 DEF Starts, Plays
      <4> QED
        BY <1>1, <3>3, <4>1, <4>3
    <3>13. ~(agent.epoch = e /\ agent.turn # 0 /\ ~agent.sent)
      <4>1. agent.turn = u => agent.sent
        BY <1>1, <2>2 DEF InOrder, Once, f
      <4> QED
        BY <2>2, <3>1, <4>1 DEF InOrder, OneTurn
    <3>14. EndsMatch(e)'
      BY <1>2, <3>12, <3>13 DEF EndsMatch
    <3> QED
      BY <3>1, <3>4, <3>5, <3>6, <3>7, <3>8, <3>10, <3>14 DEF InOrder
  <2> QED
    BY <2>3, <2>4, <2>5
<1> QED
  BY <1>3, <1>4

-----------------------------------------------------------------------------
(* What happens beside the stream.                                           *)

\* A press leaves every round.
LEMMA PressedInOrder ==
    ASSUME GroupInv, InOrder, NEW c \in Captures, Press(c)
    PROVE  InOrder'
<1>1. /\ cap' = cap + 1 /\ cap \in Nat /\ c = cap + 1 /\ epoch' = 0 /\ Revoked
      /\ UNCHANGED <<last, inq>> /\ last \in Nat /\ Typed /\ agent \in Agents
  BY DEF Press, GroupInv, Typed
<1>2. /\ agent'.epoch = agent.epoch /\ agent'.turn = 0 /\ agent'.next = agent.next
      /\ agent'.cap = c /\ ~agent'.heard /\ agent'.next \in Nat \ {0}
  BY <1>1 DEF Press, Agents
<1>3. Positions' = Positions
  BY <1>1 DEF Positions
<1>4. \A i \in Positions : ~Opening(inq[i])'
  <2>1. \A i \in Positions : inq[i].type = "capturing" => inq[i].cap \in Nat /\ inq[i].cap <= cap
    BY <1>1, InFlight DEF InOrder, Ordered
  <2> QED
    BY <1>1, <2>1 DEF Opening
<1>5. Round' = {}
  BY <1>1, <1>3, <1>4 DEF Round
<1>6. play' = 0 /\ \A t \in Turns : reply[t].st = "none" => reply'[t].st = "none"
  BY <1>1 DEF GroupInv, Typed, MediaInv, Playing, Revoked, Cancelled
<1>7. Ordered'
  <2>1. \A i \in Positions : inq[i].type = "capturing" => inq[i].cap \in Nat
    BY <1>1, InFlight
  <2> QED
    BY <1>1, <1>2, <1>3, <2>1 DEF InOrder, Ordered
<1>8. OneRound'
  BY <1>1, <1>2, <1>3, <1>4, <1>5, <1>6 DEF OneRound
<1>9. Once'
  BY <1>1, <1>2, <1>3, <1>6, InFlight DEF InOrder, Once, Speech, Turns
<1> QED
  BY <1>5, <1>7, <1>8, <1>9, RoundOver

\* Once a turn has been answered the Agent may begin the next.
LEMMA ReceivedInOrder ==
    ASSUME GroupInv, InOrder, NEW t \in Turns, NEW result \in {"completed", "failed"},
           play = t, result = "completed" => reply[t].ended,
           Receives(t, result), UNCHANGED <<cap, epoch, last, released, inq>>
    PROVE  InOrder'
<1> DEFINE r == Done(reply[t], result)
<1>1. /\ Typed /\ agent \in Agents /\ t \in Nat /\ t # 0 /\ reply[t].st # "none" /\ reply[t].st # "done"
      /\ reply[t].receipt = "none" /\ reply[t] \in Replies
  <2>1. reply[t].st \in {"waiting", "presenting", "sounding"}
    BY DEF GroupInv, MediaInv, Playing
  <2> QED
    BY <2>1 DEF GroupInv, Typed, MediaInv, Playing, Turns
<1>2. r.st = "done" /\ r.receipt = result
  <2>1. CASE result = "completed"
    BY <1>1, <2>1, ReplyFields
  <2>2. CASE result = "failed"
    BY <1>1, <2>2, ReplyFields
  <2> QED
    BY <2>1, <2>2
<1>3. play' = 0 /\ reply' = [reply EXCEPT ![t] = r]
      /\ agent' = IF agent.turn = t THEN [agent EXCEPT !.turn = 0] ELSE agent
  BY DEF Receives
<1> HIDE DEF r
<1>4. \A u \in Turns : reply'[u] = IF u = t THEN r ELSE reply[u]
  BY <1>1, <1>3 DEF Typed
<1>5. /\ agent'.epoch = agent.epoch /\ agent'.next = agent.next /\ agent'.cap = agent.cap
      /\ agent'.heard = agent.heard /\ agent'.owes = agent.owes /\ agent'.sent = agent.sent
      /\ agent'.turn = (IF agent.turn = t THEN 0 ELSE agent.turn)
      /\ agent.next \in Nat \ {0} /\ agent.turn \in Turns \cup {0}
  BY <1>1, <1>3 DEF Agents
<1>6. Positions' = Positions /\ Round' = Round
  BY DEF Positions, Round, Opening
<1>7. PICK e \in Round : e = epoch
  <2>1. epoch # 0
    BY <1>1 DEF InOrder, OneRound
  <2> QED
    BY <2>1, RoundIs
<1>8. \A x \in Round : x = e
  BY <1>1, <1>7, RoundOne DEF InOrder, OneRound
<1>9. Ordered'
  BY <1>5, <1>6 DEF InOrder, Ordered
<1>10. OneRound'
  BY <1>3, <1>5, <1>6 DEF InOrder, OneRound, Opening
<1>11. Once'
  <2>1. \A i \in Positions : Speech(inq[i]) => inq[i].turn \in Turns /\ inq[i].turn # 0
    BY <1>1, InFlight DEF Turns
  <2>2. agent'.turn < agent'.next
    BY <1>5 DEF InOrder, Once
  <2>3. \A u \in Turns : u >= agent.next => reply'[u].st = "none"
    BY <1>1, <1>4 DEF InOrder, Once
  <2>4. \A i \in Positions : inq[i].type = "start" => reply'[inq[i].turn].st = "none"
    BY <1>1, <1>4, <2>1 DEF InOrder, Once, Speech
  <2>5. \A i \in Positions : inq[i].type = "end" /\ inq[i].turn = agent'.turn => agent'.sent
    BY <1>5, <2>1 DEF InOrder, Once, Speech
  <2> QED
    BY <1>5, <1>6, <2>2, <2>3, <2>4, <2>5 DEF InOrder, Once, Speech
<1>12. LeftByStop(e)'
  BY <1>5, <1>6 DEF InOrder, LeftByStop, Speech, StopsAfter
<1>13. \A i \in Positions : ~(inq[i].type = "start" /\ inq[i].epoch = e)
  BY <1>1 DEF InOrder, OneTurn
<1>14. OneTurn(e)'
  BY <1>3, <1>5, <1>6, <1>13 DEF InOrder, OneTurn, Speech
<1>15. ASSUME NEW i \in Positions, inq[i].type = "end", inq[i].epoch = e
       PROVE  reply'[inq[i].turn].receipt = "failed"
  <2>1. PICK u \in Turns : u = inq[i].turn
    BY <1>1, <1>15, InFlight DEF Speech
  <2>2. \A j \in 1 .. i - 1 : ~Starts(inq[j], u, e)
    BY <1>1, <1>13, InFlight DEF Starts, Positions
  <2>3. Plays(u) \/ reply[u].receipt = "failed"
    BY <1>15, <2>1, <2>2 DEF InOrder, EndsMatch
  <2>4. CASE u = t
    BY <1>1, <1>2, <1>4, <2>1, <2>3, <2>4 DEF Plays
  <2>5. CASE u # t
    BY <1>4, <2>1, <2>3, <2>5 DEF Plays
  <2> QED
    BY <2>4, <2>5
<1>16. agent.epoch = e => agent'.turn = 0
  BY <1>1, <1>5 DEF InOrder, OneTurn
<1>17. EndsMatch(e)'
  BY <1>5, <1>6, <1>15, <1>16 DEF EndsMatch
<1> QED
  BY <1>6, <1>8, <1>9, <1>10, <1>11, <1>12, <1>14, <1>17 DEF InOrder

\* A presentation goes on beside the stream, or answers its turn.
LEMMA PresentationInOrder ==
    ASSUME GroupInv, InOrder, NEW t \in Turns, Presentation(t)
    PROVE  InOrder'
<1>1. /\ Typed /\ reply[t] \in Replies /\ reply[t].st # "none" /\ reply[t].st # "done"
      /\ reply[t].receipt = "none"
  <2>1. reply[t].st \in {"waiting", "presenting", "sounding", "dying"}
    BY DEF Presentation, Presents, Sounds, Returns, MayReturn
  <2> QED
    BY <2>1 DEF GroupInv, Typed, MediaInv, Playing
<1>2. UNCHANGED <<cap, epoch, last, released, inq>>
  BY DEF Presentation, Presents, Sounds, Returns, wires
<1>3. agent.heard => released
  BY DEF InOrder, OneRound
<1>4. CASE \/ /\ UNCHANGED <<play, agent>>
              /\ \E x \in {"presenting", "sounding"} : reply' = [reply EXCEPT ![t].st = x]
           \/ UNCHANGED <<play, agent>> /\ play # t /\ reply' = [reply EXCEPT ![t] = Done(@, "none")]
  <2>1. PICK r : /\ reply' = [reply EXCEPT ![t] = r]
                 /\ play = t => r.ended = reply[t].ended
    <3>1. \A x \in {"presenting", "sounding"} : [reply[t] EXCEPT !.st = x].ended = reply[t].ended
      BY <1>1 DEF Replies
    <3> QED
      BY <1>4, <3>1
  <2>2. \A u \in Turns : reply'[u] = IF u = t THEN r ELSE reply[u]
    BY <1>1, <2>1 DEF Typed
  <2>3. UNCHANGED <<play, agent>>
    BY <1>4
  <2>4. Quiet
    BY <1>1, <1>2, <1>3, <2>1, <2>2, <2>3 DEF Quiet
  <2> QED
    BY <1>1, <2>4, QuietInOrder
<1>5. CASE \E result \in {"completed", "failed"} :
              play = t /\ (result = "completed" => reply[t].ended) /\ Receives(t, result)
  BY <1>2, <1>5, ReceivedInOrder
<1>6. CASE Presents(t)
  <2>1. play = t
    BY <1>6 DEF GroupInv, MediaInv, Playing, Presents
  <2> QED
    BY <1>4, <1>5, <1>6, <2>1 DEF Presents
<1>7. CASE Sounds(t)
  BY <1>4, <1>7 DEF Sounds, wires
<1>8. ASSUME NEW result \in {"completed", "failed"}, Returns(t, result) PROVE InOrder'
  BY <1>4, <1>5, <1>8 DEF Returns, MayReturn
<1> QED
  BY <1>6, <1>7, <1>8 DEF Presentation

\* An empty stream is in order before anything was captured.
LEMMA PreparedInOrder ==
    ASSUME GroupInv, Unbegun, AcceptPrepared
    PROVE  InOrder'
<1>1. UNCHANGED <<cap, epoch, last, play, reply, released, agent>>
  BY DEF AcceptPrepared, media
<1>2. inq' = <<>>
  <2>1. inq = <<Prepared>> /\ inq' = Tail(inq)
    BY DEF Unbegun, AcceptPrepared, Reads
  <2>2. \A x : Tail(<<x>>) = <<>>
    OBVIOUS
  <2> QED
    BY <2>1, <2>2
<1>3. Positions' = {} /\ Round' = {}
  BY <1>1, <1>2 DEF Positions, Round, Unbegun
<1>4. agent' = NoAgent /\ cap' = 0 /\ epoch' = 0 /\ last' = 0 /\ play' = 0
      /\ \A t \in Turns : reply'[t].st = "none"
  BY <1>1 DEF Unbegun
<1> QED
  BY <1>3, <1>4 DEF InOrder, Ordered, OneRound, Once, NoAgent

\* The Agent has nothing to say before it has prepared.
LEMMA AgentUnbegun ==
    ASSUME Unbegun, AgentSteps
    PROVE  Unbegun'
<1>1. agent.owes = FALSE /\ agent.heard = FALSE /\ agent.turn = 0 /\ agent.cap = 0
  BY DEF Unbegun, NoAgent
<1>2. AgentPrepares
  BY <1>1 DEF AgentSteps, AgentCaptures, AgentEndsText, AgentReplies, AgentConfirms, AgentCancels
<1>3. inq' = <<Prepared>> /\ UNCHANGED agent
  BY <1>2 DEF AgentPrepares, AgentSends
<1> QED
  BY <1>2, <1>3 DEF Unbegun, AgentPrepares, Here, media

\* While the team works, what the Agent sends and this side reads is in order, and no frame is
\* refused.
LEMMA WorkInOrder ==
    ASSUME GroupInv, Working, InOrder, Next
    PROVE  (Working' => InOrder') /\ broken' = broken
<1>1. Typed
  BY DEF GroupInv
<1>2. CASE Release \/ Delivers \/ \E d \in Devices : StopSteps(d)
  <2>1. /\ UNCHANGED <<cap, epoch, last, play, inq, reply, broken>>
        /\ released => released'
        /\ agent' = agent \/ (agent' = [agent EXCEPT !.heard = TRUE] /\ released)
    BY <1>1, <1>2 DEF Release, Delivers, StopSteps, StopBegins, StopConfirmed, StopUnconfirmed,
                      media, wires, Typed
  <2>2. agent.heard => released
    BY DEF InOrder, OneRound
  <2>3. \A x \in {"owes", "cap", "epoch", "turn", "sent", "next"} : agent'[x] = agent[x]
    BY <1>1, <2>1 DEF Typed, Agents
  <2>4. (agent.heard => agent'.heard) /\ (agent'.heard => released')
    BY <1>1, <2>1, <2>2 DEF Typed, Agents
  <2>5. Quiet
    BY <2>1, <2>3, <2>4 DEF Quiet
  <2> QED
    BY <1>1, <2>1, <2>5, QuietInOrder
<1>3. CASE AcceptCapturing
  BY <1>1, <1>3, CapturingInOrder DEF Working
<1>4. CASE AcceptStop
  BY <1>4, StoppedInOrder DEF AcceptStop
<1>5. CASE AcceptReplyStart
  BY <1>5, StartedInOrder DEF Working
<1>6. CASE AcceptReplyEnd
  BY <1>6, EndedInOrder DEF Working
<1>7. CASE AgentSteps
  <2>1. ~AgentPrepares
    BY DEF AgentPrepares, Working
  <2>2. broken' = broken
    BY <1>7 DEF AgentSteps, AgentPrepares, AgentCaptures, AgentEndsText, AgentReplies,
                AgentConfirms, AgentCancels, Here
  <2> QED
    BY <1>1, <1>7, <2>1, <2>2, CapturesInOrder, EndsTextInOrder, RepliesInOrder, StopInOrder
       DEF AgentSteps
<1>8. ASSUME NEW c \in Captures, Press(c) PROVE InOrder' /\ broken' = broken
  BY <1>8, PressedInOrder DEF Press
<1>9. ASSUME NEW t \in Turns, Presentation(t) PROVE InOrder' /\ broken' = broken
  BY <1>9, PresentationInOrder DEF Presentation, Presents, Sounds, Returns
<1>10. ~AcceptPrepared
  <2>1. 1 \in Positions /\ Reads("prepared") => inq[1].type # "prepared"
    BY DEF InOrder, Ordered
  <2> QED
    BY <1>1, <2>1, ReadFirst DEF AcceptPrepared
<1>11. CASE Begins \/ CloseAsked \/ StreamFails \/ Teardown
  BY <1>11 DEF Begins, CloseAsked, StreamFails, Teardown, PrepareFails, CloseEnds, LeavesRun,
               DrainEnds, Closes, Working
<1> QED
  BY <1>2, <1>3, <1>4, <1>5, <1>6, <1>7, <1>8, <1>9, <1>10, <1>11 DEF Next, Accepts

\* No frame is refused once the team has been asked to close, or before it begins.
LEMMA IdleRefusesNone ==
    ASSUME GroupInv, StreamInv, Next, ~Working
    PROVE  broken' = broken
<1>1. CASE AcceptCapturing \/ AcceptReplyStart \/ AcceptReplyEnd
  <2>1. inq # <<>> /\ Head(inq).type # "prepared" /\ phase \in {"preparing", "open"}
    BY <1>1 DEF AcceptCapturing, AcceptReplyStart, AcceptReplyEnd, Reads
  <2>2. phase # "preparing"
    BY <2>1 DEF StreamInv, Unbegun, Prepared
  <2>3. asked
    BY <2>1, <2>2 DEF Working
  <2> QED
    BY <1>1, <2>3 DEF AcceptCapturing, AcceptReplyStart, AcceptReplyEnd, TooLate
<1>2. CASE ~(AcceptCapturing \/ AcceptReplyStart \/ AcceptReplyEnd)
  BY <1>2 DEF Next, Accepts, Begins, Release, Delivers, CloseAsked, AcceptPrepared, AcceptStop,
     StreamFails, Teardown, PrepareFails, CloseEnds, LeavesRun, DrainEnds, Closes, AgentSteps,
     AgentPrepares, AgentCaptures, AgentEndsText, AgentReplies, AgentConfirms, AgentCancels, Here,
     Press, Presentation, Presents, Sounds, Returns, StopSteps, StopBegins, StopConfirmed,
     StopUnconfirmed
<1> QED
  BY <1>1, <1>2

\* Nothing is played, and nobody speaks, before the Agent has prepared.
LEMMA UnbegunStays ==
    ASSUME GroupInv, StreamInv, Next, phase' \in {"idle", "preparing"}
    PROVE  Unbegun'
<1>1. phase \in {"idle", "preparing"} /\ ~(phase' = "open")
  BY DEF Next, Accepts, Begins, Release, Delivers, CloseAsked, AcceptPrepared, AcceptStop,
     AcceptCapturing, AcceptReplyStart, AcceptReplyEnd,
     StreamFails, Teardown, PrepareFails, CloseEnds, LeavesRun, DrainEnds, Closes, AgentSteps,
     AgentPrepares, AgentCaptures, AgentEndsText, AgentReplies, AgentConfirms, AgentCancels, Here,
     Press, Presentation, Presents, Sounds, Returns, StopSteps, StopBegins, StopConfirmed,
     StopUnconfirmed
<1>2. Unbegun /\ phase # "open"
  BY <1>1 DEF StreamInv
<1>3. CASE AgentSteps
  BY <1>2, <1>3, AgentUnbegun
<1>4. CASE Begins \/ \E d \in Devices : StopSteps(d)
  BY <1>2, <1>4 DEF Unbegun, Begins, StopSteps, StopBegins, StopConfirmed, StopUnconfirmed, media, wires
<1>5. ~Accepts
  BY <1>1, <1>2 DEF Accepts, AcceptPrepared, AcceptStop, AcceptCapturing, AcceptReplyStart,
                    AcceptReplyEnd, Reads, Unbegun, Prepared
<1>6. \A t \in Turns : ~Presentation(t)
  BY <1>2 DEF Unbegun, Presentation, Presents, Sounds, Returns, MayReturn
<1>7. ~(Release \/ Delivers \/ CloseAsked \/ StreamFails \/ Teardown) /\ \A c \in Captures : ~Press(c)
  BY <1>1, <1>2 DEF Release, Delivers, CloseAsked, StreamFails, Teardown, PrepareFails, CloseEnds,
                    LeavesRun, DrainEnds, Closes, Press
<1> QED
  BY <1>3, <1>4, <1>5, <1>6, <1>7 DEF Next

\* The team begins to work when the Agent has prepared.
LEMMA BeginsToWork ==
    ASSUME Next, ~Working, Working'
    PROVE  AcceptPrepared /\ phase = "preparing"
<1>1. phase' = "open" /\ ~asked'
  BY DEF Working
<1>2. CASE AcceptPrepared
  BY <1>1, <1>2 DEF AcceptPrepared, Reads, Working
<1>3. CASE Accepts /\ ~AcceptPrepared
  BY <1>1, <1>3 DEF Accepts, AcceptStop, AcceptCapturing, AcceptReplyStart, AcceptReplyEnd, Working
<1>4. CASE AgentSteps
  BY <1>1, <1>4 DEF AgentSteps, AgentPrepares, AgentCaptures, AgentEndsText, AgentReplies,
                    AgentConfirms, AgentCancels, Here, Working
<1>5. CASE Begins \/ Release \/ Delivers \/ CloseAsked \/ StreamFails \/ Teardown
  BY <1>1, <1>5 DEF Begins, Release, Delivers, CloseAsked, StreamFails, Teardown, PrepareFails,
                    CloseEnds, LeavesRun, DrainEnds, Closes, Working
<1>6. CASE \E c \in Captures : Press(c)
  BY <1>1, <1>6 DEF Press, Working
<1>7. CASE \E t \in Turns : Presentation(t)
  BY <1>1, <1>7 DEF Presentation, Presents, Sounds, Returns, Working
<1>8. CASE \E d \in Devices : StopSteps(d)
  BY <1>1, <1>8 DEF StopSteps, StopBegins, StopConfirmed, StopUnconfirmed, Working
<1> QED
  BY <1>2, <1>3, <1>4, <1>5, <1>6, <1>7, <1>8 DEF Next

\* Every step keeps the stream in order.
LEMMA NextStream ==
    ASSUME GroupInv, StreamInv, [Next]_vars
    PROVE  StreamInv'
<1>1. CASE UNCHANGED vars
  <2>1. InOrder => Quiet
    BY <1>1 DEF vars, media, wires, InOrder, OneRound, Quiet
  <2>2. InOrder => InOrder'
    BY <2>1, QuietInOrder DEF GroupInv
  <2>3. Unbegun => Unbegun'
    BY <1>1 DEF vars, media, wires, Unbegun
  <2> QED
    BY <1>1, <2>2, <2>3 DEF StreamInv, Working, vars
<1>2. CASE Next
  <2>1. ~broken'
    BY <1>2, WorkInOrder, IdleRefusesNone DEF StreamInv
  <2>2. ASSUME phase' \in {"idle", "preparing"} PROVE Unbegun'
    BY <1>2, <2>2, UnbegunStays
  <2>3. ASSUME Working' PROVE InOrder'
    <3>1. CASE Working
      BY <1>2, <2>3, <3>1, WorkInOrder DEF StreamInv
    <3>2. CASE ~Working
      <4>1. AcceptPrepared /\ phase = "preparing"
        BY <1>2, <2>3, <3>2, BeginsToWork
      <4> QED
        BY <4>1, PreparedInOrder DEF StreamInv
    <3> QED
      BY <3>1, <3>2
  <2> QED
    BY <2>1, <2>2, <2>3 DEF StreamInv
<1> QED
  BY <1>1, <1>2

\* What crosses on the stream is in order in every state that the team can be in: epochs rise,
\* a round is left with a stop, and its turns are begun and ended once.
THEOREM GroupInOrder == Spec => []StreamInv
<1>1. Init => StreamInv
  BY DEF Init, StreamInv, Unbegun, Working, NoReply
<1>2. GroupInv /\ StreamInv /\ [Next]_vars => StreamInv'
  BY NextStream
<1> QED
  BY <1>1, <1>2, GroupCorrect, PTL DEF Spec

\* Whatever crosses on the stream, and however long it takes, an Agent that keeps to the protocol
\* is never taken for one that does not (accept): no capture is confirmed with an old epoch, and
\* no reply begins or ends out of turn.
THEOREM GroupStreamSurvives == Spec => []StreamSurvives
<1>1. StreamInv => StreamSurvives
  BY DEF StreamInv, StreamSurvives
<1> QED
  BY <1>1, GroupInOrder, PTL
===============================================================================
