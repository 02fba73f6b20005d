---------------------------- MODULE PreparedScene ----------------------------
(***************************************************************************)
(* Scenes of several devices, prepared, run and closed by the Channel      *)
(* Provider (service.py, endpoint_preparation.py and the part of           *)
(* adapters/livekit/adapter.py they call).  A scene reserves its devices,  *)
(* wakes them, places one worker, and is closed in a fixed order: the      *)
(* worker first, then each device, with a checkpoint in the ledger after   *)
(* every stage.  Closing is driven by the scene's own task, by the close   *)
(* request of a client, by a Hub that withdraws a device, and by recovery  *)
(* after a crash; they share one lock and may interrupt one another.       *)
(***************************************************************************)
EXTENDS Naturals, FiniteSets

CONSTANTS
    Devices,      \* device instance ids
    Scenes,       \* session ids of scenes
    Endpoints,    \* the devices each scene selects
    Teams,        \* the scenes that are teams; the others are device conversations
    Idle,         \* a device in no scene
    NoScene,      \* no scene
    Closers,      \* the clients (a scene each) and the Hubs (a device each) that ask
    MaxFaults,    \* adapter calls and final checkpoints that fail in a close
    MaxCrashes    \* deaths of the Provider process

ASSUME SceneAssumption ==
    /\ Teams \subseteq Scenes /\ NoScene \notin Scenes /\ Idle \notin Scenes
    /\ Devices \intersect Scenes = {}
    /\ Endpoints \in [Scenes -> SUBSET Devices]
    /\ \A s \in Scenes : Endpoints[s] # {}
    /\ Closers \subseteq Scenes \cup Devices /\ {"none", "task"} \intersect Closers = {}
    /\ MaxFaults \in Nat /\ MaxCrashes \in Nat

VARIABLES
    up,       \* the Provider process is alive
    visit,    \* _device_conversations and _team_conversations
    task,     \* the task of each scene, and where it waits
    wake,     \* the join commands a task has in flight, and their receipts
    held,     \* _transport_scopes: the scene that reserves each device
    clean,    \* the close transaction of a scene: who drives it and how far it is
    closer,   \* closes asked for by clients (of a scene) and by the Hub (of a device)
    disk,     \* prepared_scenes
    gone,     \* devices whose channel was revoked
    body,     \* what each device is doing
    asked,    \* the start each device sent and the Provider has not read
    worker,   \* the worker of a scene and its presentation connections
    faults, crashes

vars == <<up, visit, task, wake, held, clean, closer, disk, gone, body, asked,
          worker, faults, crashes>>

-----------------------------------------------------------------------------
(* A lifecycle, in memory and as a checkpoint stores it.  `cmds` and `sess`  *)
(* are the devices with a join command, and with a conversation, to close.   *)
NoVisit == [state |-> "none", cmds |-> {}, sess |-> {}, revoked |-> FALSE,
            ended |-> {}, complete |-> FALSE]
NoTask  == [pc |-> "none", cancelling |-> FALSE, broke |-> FALSE, stopped |-> FALSE]
NoClean == [by |-> "none", stage |-> "none", waiting |-> {}, bad |-> FALSE]
NoClose == [pc |-> "off", scene |-> NoScene, tries |-> 0]

\* What restore_lifecycle insists on; anything else stops the start of the process.
Restorable(v) ==
    /\ v.ended \subseteq v.cmds \cup v.sess
    /\ v.complete => v.revoked /\ v.ended = v.cmds \cup v.sess

Reserves(s) == \E d \in Endpoints[s] : held[d] = s
Released(s) == [d \in Devices |-> IF held[d] = s THEN NoScene ELSE held[d]]

Noted(s, v) == visit' = [visit EXCEPT ![s] = v] /\ UNCHANGED disk
Checkpointed(s, v) ==
    /\ visit' = [visit EXCEPT ![s] = v]
    /\ disk' = [disk EXCEPT ![s] = v]

At(s, pc) == task' = [task EXCEPT ![s].pc = pc]
CloserAt(c, pc) == closer' = [closer EXCEPT ![c].pc = pc]

\* The close transaction resumes after the last stage a checkpoint confirms.
Begun(v, by) ==
    [by |-> by, stage |-> IF v.revoked THEN "ends" ELSE "withdraw",
     waiting |-> (v.cmds \cup v.sess) \ v.ended, bad |-> FALSE]

Init ==
    /\ up = TRUE
    /\ visit = [s \in Scenes |-> NoVisit] /\ disk = [s \in Scenes |-> NoVisit]
    /\ task = [s \in Scenes |-> NoTask]
    /\ wake = [s \in Scenes |-> [d \in Devices |-> "none"]]
    /\ held = [d \in Devices |-> NoScene]
    /\ clean = [s \in Scenes |-> NoClean]
    /\ closer = [c \in Closers |-> NoClose]
    /\ gone = {}
    /\ body = [d \in Devices |-> Idle]
    /\ asked = [d \in Devices |-> NoScene]
    /\ worker = [s \in Scenes |-> "none"]
    /\ faults = 0 /\ crashes = 0

-----------------------------------------------------------------------------
(* Opening, and the scene's own task.                                        *)

\* One transaction under the service lock: reserve every endpoint, write the
\* intent, and start the task.  A repeated request only reads the scene.
Opens(s) ==
    /\ up /\ task[s].pc = "none"
    /\ \A d \in Endpoints[s] : held[d] = NoScene /\ d \notin gone
    /\ Checkpointed(s, [NoVisit EXCEPT !.state = "preparing"])
    /\ At(s, "new")
    /\ held' = [d \in Devices |-> IF d \in Endpoints[s] THEN s ELSE held[d]]
    /\ UNCHANGED <<up, wake, clean, closer, gone, body, asked, worker, faults, crashes>>

\* Every exit of run() but a cancellation before it started ends in cleanup.
LeavesRun(s, v, ws) ==
    /\ Noted(s, v)
    /\ wake' = [wake EXCEPT ![s] = [d \in Devices |-> "none"]]
    /\ clean' = [clean EXCEPT ![s] = Begun(v, "task")]
    /\ worker' = [worker EXCEPT ![s] = ws]
    /\ UNCHANGED <<up, held, closer, gone, body, asked, faults, crashes>>

Fails(s, ws) == At(s, "clean") /\ LeavesRun(s, [visit[s] EXCEPT !.state = "failed"], ws)

TaskGoes(s, pc) == up /\ task[s].pc = pc /\ ~task[s].cancelling

Starts(s) ==
    /\ TaskGoes(s, "new") /\ At(s, "check")
    /\ UNCHANGED <<up, visit, wake, held, clean, closer, disk, gone, body, asked, worker, faults, crashes>>

\* No device is woken before all were found present and idle.
Wakes(s) ==
    /\ TaskGoes(s, "check")
    /\ \A d \in Endpoints[s] : body[d] = Idle
    /\ Checkpointed(s, [visit[s] EXCEPT !.cmds = Endpoints[s]])
    /\ wake' = [wake EXCEPT ![s] = [d \in Devices |-> IF d \in Endpoints[s] THEN "sent" ELSE "none"]]
    /\ At(s, "waiting")
    /\ UNCHANGED <<up, held, clean, closer, gone, body, asked, worker, faults, crashes>>

\* A device is busy or absent, or a read fails.
CheckFails(s) == TaskGoes(s, "check") /\ Fails(s, worker[s])

Prepared(s) ==
    /\ visit[s].sess = Endpoints[s]
    /\ ~task[s].stopped
    /\ \A d \in Endpoints[s] : wake[s][d] = "sent"

Activates(s) ==
    /\ TaskGoes(s, "waiting") /\ Prepared(s) /\ At(s, "activating")
    /\ UNCHANGED <<up, visit, wake, held, clean, closer, disk, gone, body, asked, worker, faults, crashes>>

\* Stopped, a receipt before its time, or twenty seconds.
PreparationFails(s) == TaskGoes(s, "waiting") /\ Fails(s, worker[s])

Placed(s) ==
    /\ TaskGoes(s, "activating") /\ At(s, "gathering")
    /\ worker' = [worker EXCEPT ![s] = "starting"]
    /\ UNCHANGED <<up, visit, wake, held, clean, closer, disk, gone, body, asked, faults, crashes>>

\* The call fails, perhaps after placing the worker.
PlacingFails(s) == TaskGoes(s, "activating") /\ \E ws \in {"none", "starting"} : Fails(s, ws)

BecomesReady(s) ==
    /\ TaskGoes(s, "gathering")
    /\ \A d \in Endpoints[s] : wake[s][d] = "ok"
    /\ Checkpointed(s, [visit[s] EXCEPT !.state = "ready"])
    /\ At(s, "ready")
    /\ UNCHANGED <<up, wake, held, clean, closer, gone, body, asked, worker, faults, crashes>>

ReceiptsFail(s) ==
    /\ TaskGoes(s, "gathering")
    /\ \E d \in Endpoints[s] : wake[s][d] # "ok"
    /\ Fails(s, worker[s])

Closing(v) == IF v.state = "failed" THEN v ELSE [v EXCEPT !.state = "closing"]

Stops(s) ==
    /\ TaskGoes(s, "ready") /\ task[s].stopped
    /\ At(s, "clean") /\ LeavesRun(s, Closing(visit[s]), worker[s])

\* A recovered scene only completes its close, once every channel is listened to.
Recovers(s) ==
    /\ TaskGoes(s, "recover")
    /\ Noted(s, [visit[s] EXCEPT !.state = "closing"])
    /\ clean' = [clean EXCEPT ![s] = Begun(visit[s], "task")]
    /\ At(s, "clean")
    /\ UNCHANGED <<up, wake, held, closer, gone, body, asked, worker, faults, crashes>>

\* The cancellation of a task that has not begun ends it without a close.
CancelledEarly(s) ==
    /\ up /\ task[s].cancelling /\ task[s].pc \in {"new", "recover"}
    /\ At(s, "done")
    /\ UNCHANGED <<up, visit, wake, held, clean, closer, disk, gone, body, asked, worker, faults, crashes>>

CancelLands(s) ==
    /\ up /\ task[s].cancelling
    /\ task[s].pc \in {"check", "waiting", "activating", "gathering", "ready"}
    /\ task' = [task EXCEPT ![s].pc = "clean", ![s].cancelling = FALSE]
    /\ \E ws \in IF task[s].pc = "activating" THEN {"none", "starting"} ELSE {worker[s]} :
          LeavesRun(s, Closing(visit[s]), ws)

-----------------------------------------------------------------------------
(* The close transaction.                                                    *)

InStage(s, stage) ==
    /\ up /\ clean[s].stage = stage
    /\ clean[s].by = "task" => ~task[s].cancelling

\* Where a closer goes when the retirement it drove, or awaited, succeeded.
Onward(c) == IF c \in Devices THEN "after" ELSE "retire"

\* Mutant: the close of a team tries twice.
RetriesOnce(c) == c \in Teams /\ closer[c].tries < 2

\* The close of a team tries three times; every other closer reports the failure.
Retries(c) == c \in Teams /\ closer[c].tries < 3
Refused(c, v) == IF Retries(c) THEN [v EXCEPT !.state = "closing"] ELSE v
GivesUp(c) ==
    closer' = [closer EXCEPT ![c] =
                  IF Retries(c)
                  THEN [pc |-> "sleep", scene |-> closer[c].scene, tries |-> closer[c].tries + 1]
                  ELSE NoClose]

CleanFails(s, v) ==
    LET by == clean[s].by
        failed == [v EXCEPT !.state = "failed"]
    IN  /\ clean' = [clean EXCEPT ![s] = NoClean]
        /\ IF by = "task"
           THEN /\ task' = [task EXCEPT ![s].pc = "done", ![s].broke = ~task[s].cancelling]
                /\ Checkpointed(s, failed) /\ UNCHANGED closer
           ELSE /\ Checkpointed(s, Refused(by, failed)) /\ GivesUp(by) /\ UNCHANGED task

Fault == faults < MaxFaults /\ faults' = faults + 1

\* Delete the dispatch.  A worker in the room takes a while to go; one that was
\* still starting never comes (an assumption about LiveKit).
Withdraws(s) ==
    /\ InStage(s, "withdraw")
    /\ clean' = [clean EXCEPT ![s].stage = "silence"]
    /\ worker' = [worker EXCEPT ![s] =
                     IF @ = "presenting" THEN "leaving" ELSE IF @ = "starting" THEN "none" ELSE @]
    /\ UNCHANGED <<up, visit, task, wake, held, closer, disk, gone, body, asked, faults, crashes>>

\* Mutant: the withdrawal of the dispatch counts as silence.
SilentAtOnce(s) ==
    /\ InStage(s, "silence")
    /\ Checkpointed(s, [visit[s] EXCEPT !.revoked = TRUE])
    /\ clean' = [clean EXCEPT ![s].stage = "ends"]
    /\ UNCHANGED <<up, task, wake, held, closer, gone, body, asked, worker, faults, crashes>>

\* No participant publishes the worker's presentation any more.
Silent(s) ==
    /\ InStage(s, "silence") /\ worker[s] = "none"
    /\ Checkpointed(s, [visit[s] EXCEPT !.revoked = TRUE])
    /\ clean' = [clean EXCEPT ![s].stage = "ends"]
    /\ UNCHANGED <<up, task, wake, held, closer, gone, body, asked, worker, faults, crashes>>

\* The withdrawal fails, or fifteen seconds pass without silence.
QuiesceFails(s) ==
    /\ InStage(s, "withdraw") \/ InStage(s, "silence")
    /\ Fault /\ CleanFails(s, visit[s])
    /\ UNCHANGED <<up, wake, held, gone, body, asked, worker, crashes>>

LeftBy(s, d) == [body EXCEPT ![d] = IF @ = s THEN Idle ELSE @]

\* The device confirms room.leave, also when it had already left.
Ended(s, d) ==
    /\ InStage(s, "ends") /\ d \in clean[s].waiting
    /\ body' = LeftBy(s, d)
    /\ Checkpointed(s, [visit[s] EXCEPT !.ended = @ \cup {d}])
    /\ clean' = [clean EXCEPT ![s].waiting = @ \ {d}]
    /\ UNCHANGED <<up, task, wake, held, closer, gone, asked, worker, faults, crashes>>

\* Mutant: the results of the endpoints are gathered and not looked at.
EndUnconfirmedUnseen(s, d) ==
    /\ InStage(s, "ends") /\ d \in clean[s].waiting
    /\ Fault
    /\ body' \in {body, LeftBy(s, d)}
    /\ clean' = [clean EXCEPT ![s].waiting = @ \ {d}]
    /\ UNCHANGED <<up, visit, task, wake, held, closer, disk, gone, asked, worker, crashes>>

\* No confirmation: the command or its receipt was lost.
EndUnconfirmed(s, d) ==
    /\ InStage(s, "ends") /\ d \in clean[s].waiting
    /\ Fault
    /\ body' \in {body, LeftBy(s, d)}
    /\ clean' = [clean EXCEPT ![s].waiting = clean[s].waiting \ {d}, ![s].bad = TRUE]
    /\ UNCHANGED <<up, visit, task, wake, held, closer, disk, gone, asked, worker, crashes>>

AllAnswered(s) == InStage(s, "ends") /\ clean[s].waiting = {}

EndsFail(s) ==
    /\ AllAnswered(s) /\ clean[s].bad
    /\ CleanFails(s, visit[s])
    /\ UNCHANGED <<up, wake, held, gone, body, asked, worker, faults, crashes>>

FinalCheckpointFails(s) ==
    /\ AllAnswered(s) /\ ~clean[s].bad
    /\ Fault /\ CleanFails(s, visit[s])
    /\ UNCHANGED <<up, wake, held, gone, body, asked, worker, crashes>>

Completes(s) ==
    /\ AllAnswered(s) /\ ~clean[s].bad
    /\ Checkpointed(s, [visit[s] EXCEPT !.state = "closed", !.complete = TRUE])
    /\ held' = Released(s)
    /\ clean' = [clean EXCEPT ![s] = NoClean]
    /\ IF clean[s].by = "task" THEN At(s, "done") /\ UNCHANGED closer
       ELSE CloserAt(clean[s].by, Onward(clean[s].by)) /\ UNCHANGED task
    /\ UNCHANGED <<up, wake, gone, body, asked, worker, faults, crashes>>

\* A cancellation reaches the task while it closes.
CleanInterrupted(s) ==
    /\ up /\ clean[s].by = "task" /\ task[s].cancelling
    /\ CleanFails(s, visit[s])
    /\ UNCHANGED <<up, wake, held, gone, body, asked, worker, faults, crashes>>

-----------------------------------------------------------------------------
(* Those who have a scene closed: a client of the scene (c is the scene), a   *)
(* Hub that revokes or reconfigures a device (c is the device).               *)

CloseAsked(s) ==
    /\ up /\ s \in Closers /\ closer[s].pc = "off" /\ visit[s].state \notin {"none", "closed"}
    /\ closer' = [closer EXCEPT ![s] = [pc |-> "retire", scene |-> s, tries |-> 1]]
    /\ IF s \in Teams THEN Checkpointed(s, [visit[s] EXCEPT !.state = "closing"])
       ELSE UNCHANGED <<visit, disk>>
    /\ UNCHANGED <<up, task, wake, held, clean, gone, body, asked, worker, faults, crashes>>

HubAsks(d) ==
    /\ up /\ d \in Closers /\ closer[d].pc = "off" /\ d \notin gone
    /\ closer' = [closer EXCEPT ![d] =
                     [pc |-> IF held[d] = NoScene THEN "after" ELSE "retire",
                      scene |-> held[d], tries |-> 1]]
    /\ UNCHANGED <<up, visit, task, wake, held, clean, disk, gone, body, asked, worker, faults, crashes>>

\* Mutant: a task that is done leaves nothing to retire.
StandsWithTask(c) ==
    LET s == closer[c].scene IN
    task[s].pc # "done" /\ (IF c \in Devices THEN held[c] = s ELSE Reserves(c))

\* What the closer retires is still reserved.
Stands(c) ==
    IF c \in Devices THEN held[c] = closer[c].scene ELSE Reserves(c)

\* Cancel the task unless it is done or was cancelled before.
Retires(c) ==
    LET s == closer[c].scene IN
    /\ up /\ closer[c].pc = "retire" /\ Stands(c)
    /\ IF task[s].pc = "done" THEN CloserAt(c, "lock") /\ UNCHANGED task
       ELSE CloserAt(c, "await") /\ task' = [task EXCEPT ![s].cancelling = TRUE]
    /\ UNCHANGED <<up, visit, wake, held, clean, disk, gone, body, asked, worker, faults, crashes>>

\* The task is done: its error is the closer's, its silence calls for a close.
Awaits(c) ==
    LET s == closer[c].scene IN
    /\ up /\ closer[c].pc = "await" /\ task[s].pc = "done"
    /\ IF task[s].broke
       THEN /\ GivesUp(c)
            /\ IF Retries(c) THEN Checkpointed(s, Refused(c, visit[s])) ELSE UNCHANGED <<visit, disk>>
       ELSE /\ CloserAt(c, IF Stands(c) THEN "lock" ELSE Onward(c))
            /\ UNCHANGED <<visit, disk>>
    /\ UNCHANGED <<up, task, wake, held, clean, gone, body, asked, worker, faults, crashes>>

Locks(c) ==
    LET s == closer[c].scene IN
    /\ up /\ closer[c].pc = "lock" /\ clean[s].by = "none"
    /\ clean' = [clean EXCEPT ![s] = Begun(visit[s], c)]
    /\ CloserAt(c, "clean")
    /\ UNCHANGED <<up, visit, task, wake, held, disk, gone, body, asked, worker, faults, crashes>>

TriesAgain(c) ==
    /\ up /\ closer[c].pc = "sleep" /\ CloserAt(c, "retire")
    /\ UNCHANGED <<up, visit, task, wake, held, clean, disk, gone, body, asked, worker, faults, crashes>>

\* Nothing of the scene is reserved any more: the client's close is done.
ClientDone(s) ==
    /\ up /\ closer[s].pc = "retire" /\ ~Stands(s)
    /\ Checkpointed(s, [visit[s] EXCEPT !.state = "closed"])
    /\ closer' = [closer EXCEPT ![s] = NoClose]
    /\ UNCHANGED <<up, task, wake, held, clean, gone, body, asked, worker, faults, crashes>>

\* The Hub's operation is tried once more, and refused if the device is
\* reserved again.  A revocation deletes the device's room.
HubDone(d) ==
    /\ up
    /\ closer[d].pc = "after" \/ (closer[d].pc = "retire" /\ ~Stands(d))
    /\ closer' = [closer EXCEPT ![d] = NoClose]
    /\ IF held[d] = NoScene
       THEN gone' = gone \cup {d} /\ body' = [body EXCEPT ![d] = Idle]
            /\ asked' = [asked EXCEPT ![d] = NoScene]
       ELSE UNCHANGED <<gone, body, asked>>
    /\ UNCHANGED <<up, visit, task, wake, held, clean, disk, worker, faults, crashes>>

\* A client reads the scene and finds a device off its channel.
PollFindsAbsent(s) ==
    /\ up /\ visit[s].state = "ready"
    /\ Checkpointed(s, [visit[s] EXCEPT !.state = "closing"])
    /\ task' = [task EXCEPT ![s].stopped = TRUE]
    /\ UNCHANGED <<up, wake, held, clean, closer, gone, body, asked, worker, faults, crashes>>

-----------------------------------------------------------------------------
(* Devices and workers.                                                      *)

\* A device leaves its scene by itself.
Leaves(d) ==
    /\ body[d] # Idle /\ body' = [body EXCEPT ![d] = Idle]
    /\ UNCHANGED <<up, visit, task, wake, held, clean, closer, disk, gone, asked, worker, faults, crashes>>

JoinReaches(s, d) ==
    /\ up /\ wake[s][d] = "sent" /\ body[d] = Idle
    /\ body' = [body EXCEPT ![d] = s]
    /\ asked' = [asked EXCEPT ![d] = s]
    /\ UNCHANGED <<up, visit, task, wake, held, clean, closer, disk, gone, worker, faults, crashes>>

\* The start is for the scene that reserves the device, or refused.
StartArrives(d) ==
    LET s == asked[d] IN
    /\ up /\ s # NoScene
    /\ asked' = [asked EXCEPT ![d] = NoScene]
    /\ IF held[d] = s /\ d \in visit[s].cmds /\ visit[s].state = "preparing"
       THEN Checkpointed(s, [visit[s] EXCEPT !.sess = @ \cup {d}])
       ELSE UNCHANGED <<visit, disk>>
    /\ UNCHANGED <<up, task, wake, held, clean, closer, gone, body, worker, faults, crashes>>

\* A device asks to stop, for the conversation it was admitted with.
StopArrives(s, d) ==
    /\ up /\ held[d] = s /\ body[d] = s /\ d \in visit[s].sess
    /\ visit[s].state \in {"preparing", "ready"}
    /\ task' = [task EXCEPT ![s].stopped = TRUE]
    /\ body' = [body EXCEPT ![d] = Idle]
    /\ UNCHANGED <<up, visit, wake, held, clean, closer, disk, gone, asked, worker, faults, crashes>>

JoinConfirmed(s, d) ==
    /\ up /\ wake[s][d] = "sent" /\ body[d] = s /\ worker[s] = "presenting"
    /\ wake' = [wake EXCEPT ![s][d] = "ok"]
    /\ UNCHANGED <<up, visit, task, held, clean, closer, disk, gone, body, asked, worker, faults, crashes>>

\* A refusal, a disconnection, or no receipt in time.
JoinFails(s, d) ==
    /\ up /\ wake[s][d] = "sent"
    /\ wake' = [wake EXCEPT ![s][d] = "failed"]
    /\ UNCHANGED <<up, visit, task, held, clean, closer, disk, gone, body, asked, worker, faults, crashes>>

WorkerPresents(s) ==
    /\ worker[s] = "starting" /\ worker' = [worker EXCEPT ![s] = "presenting"]
    /\ UNCHANGED <<up, visit, task, wake, held, clean, closer, disk, gone, body, asked, faults, crashes>>

\* The worker ends, and says so to a scene that observes it unless the message is lost.
WorkerEnds(s) ==
    /\ worker[s] # "none" /\ worker' = [worker EXCEPT ![s] = "none"]
    /\ task' \in {task, [task EXCEPT ![s].stopped = up /\ task[s].pc \in {"activating", "gathering", "ready"}]}
    /\ UNCHANGED <<up, visit, wake, held, clean, closer, disk, gone, body, asked, faults, crashes>>

-----------------------------------------------------------------------------
(* Death and recovery of the process.                                        *)

Crashes ==
    /\ up /\ crashes < MaxCrashes
    /\ crashes' = crashes + 1
    /\ up' = FALSE
    /\ visit' = [s \in Scenes |-> NoVisit] /\ task' = [s \in Scenes |-> NoTask]
    /\ wake' = [s \in Scenes |-> [d \in Devices |-> "none"]]
    /\ held' = [d \in Devices |-> NoScene]
    /\ clean' = [s \in Scenes |-> NoClean]
    /\ closer' = [c \in Closers |-> NoClose]
    /\ asked' = [d \in Devices |-> NoScene]
    /\ UNCHANGED <<disk, gone, body, worker, faults>>

Known(s) == disk[s].state # "none"
Unfinished(s) == Known(s) /\ ~disk[s].complete

\* Mutant: a scene whose close failed is taken for closed.
RestoredUnlessFailed == [d \in Devices |->
    IF \E s \in Scenes : Unfinished(s) /\ disk[s].state # "failed" /\ d \in Endpoints[s]
    THEN CHOOSE s \in Scenes : Unfinished(s) /\ disk[s].state # "failed" /\ d \in Endpoints[s]
    ELSE NoScene]

\* Every scene with an unfinished close reserves its devices again.
Restored == [d \in Devices |->
    IF \E s \in Scenes : Unfinished(s) /\ d \in Endpoints[s]
    THEN CHOOSE s \in Scenes : Unfinished(s) /\ d \in Endpoints[s] ELSE NoScene]

\* Reservations first, then the checkpoints, and only then any listening.
Restarts ==
    /\ ~up
    /\ \A s \in Scenes : Restorable(disk[s])
    /\ \A s, t \in Scenes : Unfinished(s) /\ Unfinished(t) /\ s # t => Endpoints[s] \intersect Endpoints[t] = {}
    /\ up' = TRUE
    /\ visit' = [s \in Scenes |->
          IF Known(s) THEN [disk[s] EXCEPT !.state = IF disk[s].complete THEN "closed" ELSE "closing"]
          ELSE NoVisit]
    /\ disk' = visit'
    /\ task' = [s \in Scenes |->
          [NoTask EXCEPT !.pc = IF Unfinished(s) THEN "recover" ELSE IF Known(s) THEN "done" ELSE "none"]]
    /\ held' = Restored
    /\ UNCHANGED <<wake, clean, closer, gone, body, asked, worker, faults, crashes>>

-----------------------------------------------------------------------------
TaskStep(s) ==
    \/ Starts(s) \/ Wakes(s) \/ CheckFails(s) \/ Activates(s) \/ PreparationFails(s)
    \/ Placed(s) \/ PlacingFails(s) \/ BecomesReady(s) \/ ReceiptsFail(s) \/ Stops(s)
    \/ Recovers(s) \/ CancelledEarly(s) \/ CancelLands(s)

CleanStep(s) ==
    \/ Withdraws(s) \/ Silent(s) \/ QuiesceFails(s)
    \/ \E d \in Devices : Ended(s, d) \/ EndUnconfirmed(s, d)
    \/ EndsFail(s) \/ FinalCheckpointFails(s) \/ Completes(s) \/ CleanInterrupted(s)

CloserStep(c) ==
    \/ Retires(c) \/ Awaits(c) \/ Locks(c) \/ TriesAgain(c)
    \/ c \in Scenes /\ ClientDone(c)
    \/ c \in Devices /\ HubDone(c)

DeviceStep(d) ==
    \/ Leaves(d) \/ StartArrives(d) \/ HubAsks(d)
    \/ \E s \in Scenes : JoinReaches(s, d) \/ StopArrives(s, d) \/ JoinConfirmed(s, d) \/ JoinFails(s, d)

SceneStep(s) ==
    \/ Opens(s) \/ CloseAsked(s) \/ PollFindsAbsent(s) \/ WorkerPresents(s) \/ WorkerEnds(s)

Next ==
    \/ \E s \in Scenes : TaskStep(s) \/ CleanStep(s) \/ SceneStep(s)
    \/ \E c \in Closers : CloserStep(c)
    \/ \E d \in Devices : DeviceStep(d)
    \/ Crashes \/ Restarts

Spec == Init /\ [][Next]_vars

\* The event loop runs what is runnable, every wait has a deadline, a worker
\* whose dispatch was withdrawn goes, and the process is restarted.
FairSpec ==
    /\ Spec
    /\ \A s \in Scenes :
          /\ WF_vars(TaskStep(s)) /\ WF_vars(CleanStep(s))
          /\ WF_vars(worker[s] = "leaving" /\ WorkerEnds(s))
    /\ \A c \in Closers : WF_vars(CloserStep(c))
    /\ WF_vars(Restarts)

-----------------------------------------------------------------------------
\* A device serves a scene only while the service reserves it for that scene,
\* and a worker runs only for a scene with all its devices reserved, whatever
\* closes, crashes and revocations happened: reservations are released by the
\* last confirmation (_attach_prepared_scene's cleanup) and restored before
\* anything else (start).
OnlyTheReservedServe ==
    up => /\ \A d \in Devices : body[d] \in Scenes => held[d] = body[d] /\ d \notin gone
          /\ \A s \in Scenes, d \in Devices : worker[s] # "none" /\ d \in Endpoints[s] => held[d] = s

\* Whenever the process dies, it can start again: every checkpoint is one that
\* restore_lifecycle accepts, and no two unfinished ones claim a device.
AlwaysRecoverable ==
    /\ \A s \in Scenes : Restorable(disk[s])
    /\ \A s, t \in Scenes : Unfinished(s) /\ Unfinished(t) /\ s # t => Endpoints[s] \intersect Endpoints[t] = {}

\* "closed" is only ever said of a scene whose worker and devices confirmed
\* their end, though four different parties write it.
ClosedIsProved ==
    \A s \in Scenes : visit[s].state = "closed" \/ disk[s].state = "closed" =>
        /\ disk[s].complete /\ worker[s] = "none"
        /\ \A d \in Devices : body[d] # s /\ held[d] # s

\* Once the producers were confirmed gone no worker of the scene exists, so
\* devices are released into silence (quiesce before end in cleanup).
ProducersGoFirst ==
    \A s \in Scenes : visit[s].revoked \/ disk[s].revoked => worker[s] = "none"

\* The close of a team, once asked for, ends with the scene closed, if at most
\* two steps of it fail and the process lives: device_conversation's three attempts.
TeamCloseConverges ==
    \A s \in Teams \intersect Closers : closer[s].pc # "off" ~> (visit[s].state = "closed" \/ ~up)
=============================================================================
