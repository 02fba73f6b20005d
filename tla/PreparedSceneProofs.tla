-------------------------- MODULE PreparedSceneProofs --------------------------
(***************************************************************************)
(* The safety of prepared scenes, for any number of devices, scenes,       *)
(* closers, faults and crashes.  Two invariants carry it.                  *)
(*                                                                         *)
(* SceneInv: producers go first.  That no worker exists once the end of    *)
(* the producers is on record is not inductive: it must be known that      *)
(* nobody places one later.  A worker is placed by the scene's own task    *)
(* before it leaves run(); the end is recorded by a close transaction; and *)
(* such a transaction is under way only when the task is in its cleanup or *)
(* done, since a closer takes the lock only after it has awaited the task. *)
(*                                                                         *)
(* StandInv: what the reservations, the record in memory, the record on    *)
(* disk and the devices say of a scene agrees, so that a scene is complete *)
(* only when nothing of it is left, and a restart restores all of it.      *)
(***************************************************************************)
EXTENDS PreparedScene, TLAPS

Visits == [state : {"none", "preparing", "ready", "failed", "closing", "closed"},
           cmds : SUBSET Devices, sess : SUBSET Devices, revoked : BOOLEAN,
           ended : SUBSET Devices, complete : BOOLEAN]

\* Before the task has left run().
Early == {"none", "new", "check", "waiting", "activating", "gathering", "ready"}

Tasks == [pc : Early \cup {"recover", "clean", "done"}, cancelling : BOOLEAN,
          broke : BOOLEAN, stopped : BOOLEAN]

Cleans == [by : {"none", "task"} \cup Closers, stage : {"none", "withdraw", "silence", "ends"},
           waiting : SUBSET Devices, bad : BOOLEAN]

Closes == [pc : {"off", "retire", "await", "lock", "clean", "sleep", "after"},
           scene : Scenes \cup {NoScene}, tries : Nat]

Typed ==
    /\ up \in BOOLEAN
    /\ visit \in [Scenes -> Visits] /\ disk \in [Scenes -> Visits]
    /\ task \in [Scenes -> Tasks]
    /\ clean \in [Scenes -> Cleans]
    /\ closer \in [Closers -> Closes]
    /\ held \in [Devices -> Scenes \cup {NoScene}]
    /\ worker \in [Scenes -> {"none", "starting", "presenting", "leaving"}]

\* What is on record was confirmed of a scene that exists, and by no task that may still place a
\* worker.
RecordedLate ==
    \A s \in Scenes :
        /\ visit[s].state = "none" => ~visit[s].revoked
        /\ disk[s].state = "none" => ~disk[s].revoked
        /\ up /\ task[s].pc \in Early => ~visit[s].revoked /\ ~disk[s].revoked
        /\ up /\ task[s].pc # "none" => visit[s].state # "none"

\* A close transaction never meets a task that has not left run().
ClosesAfterRun ==
    /\ \A s \in Scenes : clean[s].stage # "none" => up /\ task[s].pc \in {"clean", "done"}
    /\ \A c \in Closers : closer[c].pc = "lock" => up
    /\ \A c \in Closers : closer[c].pc = "lock" /\ closer[c].scene \in Scenes
                            => task[closer[c].scene].pc = "done"

SceneInv == Typed /\ ProducersGoFirst /\ RecordedLate /\ ClosesAfterRun

-----------------------------------------------------------------------------
\* How most steps may move a scene and a closer: nothing is recorded, tasks go on, only a task in
\* run() places a worker, and a close starts with the cleanup of a task, or after it is done.
SceneGoesOn(s) ==
    /\ visit'[s].revoked => visit[s].revoked
    /\ visit'[s].state = "none" => visit[s].state = "none"
    /\ disk'[s] = disk[s] \/ disk'[s] = visit'[s]
    /\ task'[s].pc \in Early => task[s].pc \in Early
    /\ task[s].pc = "done" => task'[s].pc = "done"
    /\ task[s].pc = "none" /\ task'[s].pc # "none" => visit'[s].state # "none"
    /\ worker'[s] = "none" \/ worker[s] # "none" \/ (up /\ task[s].pc = "activating")
    /\ \/ clean'[s].stage = "none"
       \/ up /\ task'[s].pc \in {"clean", "done"}
       \/ clean[s].stage # "none" /\ task'[s].pc = task[s].pc

CloserGoesOn(c) ==
    \/ closer'[c].pc # "lock"
    \/ closer'[c] = closer[c]
    \/ up /\ (closer'[c].scene \in Scenes => task[closer'[c].scene].pc = "done")

\* A step that begins no task keeps of a scene what the argument needs of it.
LEMMA GoesOnInv ==
    ASSUME SceneInv, Typed', up' = up, \A s \in Scenes : SceneGoesOn(s),
           \A c \in Closers : CloserGoesOn(c)
    PROVE  SceneInv'
<1>1. ProducersGoFirst'
  BY DEF SceneInv, ProducersGoFirst, RecordedLate, SceneGoesOn, Early
<1>2. RecordedLate'
  BY DEF SceneInv, RecordedLate, SceneGoesOn
<1>3. \A s \in Scenes : clean'[s].stage # "none" => up' /\ task'[s].pc \in {"clean", "done"}
  BY DEF SceneInv, ClosesAfterRun, SceneGoesOn
<1>4. \A c \in Closers : closer'[c].pc = "lock" /\ closer'[c].scene \in Scenes
                            => task'[closer'[c].scene].pc = "done"
  BY DEF SceneInv, ClosesAfterRun, SceneGoesOn, CloserGoesOn
<1>5. \A c \in Closers : closer'[c].pc = "lock" => up'
  BY DEF SceneInv, ClosesAfterRun, CloserGoesOn
<1> QED
  BY <1>1, <1>2, <1>3, <1>4, <1>5 DEF SceneInv, ClosesAfterRun

\* Nothing is on record, and nobody is at work.
LEMMA InitInv == Init => SceneInv
<1> SUFFICES ASSUME Init PROVE SceneInv
  OBVIOUS
<1>1. Typed
  BY DEF Init, Typed, NoVisit, NoTask, NoClean, NoClose, Visits, Tasks, Cleans, Closes, Early
<1>2. ProducersGoFirst /\ RecordedLate /\ ClosesAfterRun
  BY DEF Init, ProducersGoFirst, RecordedLate, ClosesAfterRun, NoVisit, NoTask, NoClean, NoClose
<1> QED
  BY <1>1, <1>2 DEF SceneInv

-----------------------------------------------------------------------------
\* Devices and workers move by themselves; a stop only sets the task's flag.
LEMMA StopFlag ==
    ASSUME Typed, NEW s, NEW b \in BOOLEAN, task' = [task EXCEPT ![s].stopped = b]
    PROVE  task' \in [Scenes -> Tasks] /\ \A r \in Scenes : task'[r].pc = task[r].pc
BY DEF Typed, Tasks

\* A record is written, in memory or in both places.
LEMMA Written ==
    ASSUME Typed, NEW s \in Scenes, NEW v \in Visits, Noted(s, v) \/ Checkpointed(s, v)
    PROVE  /\ visit' \in [Scenes -> Visits] /\ disk' \in [Scenes -> Visits]
           /\ visit'[s] = v /\ disk'[s] \in {disk[s], v}
           /\ \A r \in Scenes \ {s} : visit'[r] = visit[r] /\ disk'[r] = disk[r]
BY DEF Typed, Noted, Checkpointed

\* What is noted of a scene goes by fields.
LEMMA Fields ==
    ASSUME NEW v \in Visits
    PROVE  /\ \A x \in {"preparing", "ready", "failed", "closing", "closed"} :
                 /\ [v EXCEPT !.state = x] \in Visits /\ [v EXCEPT !.state = x].state # "none"
                 /\ [v EXCEPT !.state = x].revoked = v.revoked
           /\ \A D \in SUBSET Devices :
                 /\ [v EXCEPT !.cmds = D] \in Visits
                 /\ [v EXCEPT !.cmds = D].state = v.state
                 /\ [v EXCEPT !.cmds = D].revoked = v.revoked
           /\ \A d \in Devices :
                 /\ [v EXCEPT !.sess = @ \cup {d}] \in Visits
                 /\ [v EXCEPT !.sess = @ \cup {d}].state = v.state
                 /\ [v EXCEPT !.sess = @ \cup {d}].revoked = v.revoked
                 /\ [v EXCEPT !.ended = @ \cup {d}] \in Visits
                 /\ [v EXCEPT !.ended = @ \cup {d}].state = v.state
                 /\ [v EXCEPT !.ended = @ \cup {d}].revoked = v.revoked
<1>1. \A x \in {"preparing", "ready", "failed", "closing", "closed"} :
         /\ [v EXCEPT !.state = x] \in Visits /\ [v EXCEPT !.state = x].state # "none"
         /\ [v EXCEPT !.state = x].revoked = v.revoked
  BY DEF Visits
<1>2. \A D \in SUBSET Devices :
         /\ [v EXCEPT !.cmds = D] \in Visits
         /\ [v EXCEPT !.cmds = D].state = v.state
         /\ [v EXCEPT !.cmds = D].revoked = v.revoked
  BY DEF Visits
<1>3. \A d \in Devices :
         /\ [v EXCEPT !.sess = @ \cup {d}] \in Visits
         /\ [v EXCEPT !.sess = @ \cup {d}].state = v.state
         /\ [v EXCEPT !.sess = @ \cup {d}].revoked = v.revoked
  BY DEF Visits
<1>4. \A d \in Devices :
         /\ [v EXCEPT !.ended = @ \cup {d}] \in Visits
         /\ [v EXCEPT !.ended = @ \cup {d}].state = v.state
         /\ [v EXCEPT !.ended = @ \cup {d}].revoked = v.revoked
  BY DEF Visits
<1> QED
  BY <1>1, <1>2, <1>3, <1>4

\* A step that writes one record, of the same end of producers, and does nothing else that counts.
LEMMA WritesOnly ==
    ASSUME SceneInv, NEW s \in Scenes, NEW v \in Visits, Noted(s, v) \/ Checkpointed(s, v),
           v.revoked = visit[s].revoked, v.state = "none" => visit[s].state = "none",
           UNCHANGED <<up, clean, worker, held>>,
           task' \in [Scenes -> Tasks], \A r \in Scenes : task'[r].pc = task[r].pc,
           closer' \in [Closers -> Closes], \A c \in Closers : CloserGoesOn(c)
    PROVE  SceneInv'
<1>1. /\ visit' \in [Scenes -> Visits] /\ disk' \in [Scenes -> Visits]
      /\ visit'[s] = v /\ disk'[s] \in {disk[s], v}
      /\ \A r \in Scenes \ {s} : visit'[r] = visit[r] /\ disk'[r] = disk[r]
  BY Written DEF SceneInv
<1>2. Typed'
  BY <1>1 DEF SceneInv, Typed
<1>3. \A r \in Scenes : SceneGoesOn(r)
  BY <1>1 DEF SceneInv, ClosesAfterRun, SceneGoesOn, Early
<1> QED
  BY <1>2, <1>3, GoesOnInv

\* A step that writes nothing, and moves only a closer or a task's flags.
LEMMA WritesNothing ==
    ASSUME SceneInv, UNCHANGED <<up, visit, disk, clean, held>>,
           worker' \in [Scenes -> {"none", "starting", "presenting", "leaving"}],
           \A s \in Scenes : worker'[s] = "none" \/ worker[s] # "none",
           task' \in [Scenes -> Tasks], \A r \in Scenes : task'[r].pc = task[r].pc,
           closer' \in [Closers -> Closes], \A c \in Closers : CloserGoesOn(c)
    PROVE  SceneInv'
<1>1. Typed'
  BY DEF SceneInv, Typed
<1>2. \A r \in Scenes : SceneGoesOn(r)
  BY DEF SceneInv, ClosesAfterRun, SceneGoesOn, Early
<1> QED
  BY <1>1, <1>2, GoesOnInv

-----------------------------------------------------------------------------
\* A worker comes and goes on its own, and devices join and leave.
LEMMA WorkersInv ==
    ASSUME SceneInv, NEW s \in Scenes, WorkerPresents(s) \/ WorkerEnds(s) PROVE SceneInv'
<1>1. UNCHANGED <<up, visit, disk, clean, held, closer>>
  BY DEF WorkerPresents, WorkerEnds
<1>2. task' \in [Scenes -> Tasks] /\ \A r \in Scenes : task'[r].pc = task[r].pc
  <2>1. (up /\ task[s].pc \in {"activating", "gathering", "ready"}) \in BOOLEAN
    OBVIOUS
  <2> QED
    BY <2>1, StopFlag DEF WorkerPresents, WorkerEnds, SceneInv, Typed
<1>3. /\ worker' \in [Scenes -> {"none", "starting", "presenting", "leaving"}]
      /\ \A r \in Scenes : worker'[r] = "none" \/ worker[r] # "none"
  BY DEF WorkerPresents, WorkerEnds, SceneInv, Typed
<1> QED
  BY <1>1, <1>2, <1>3, WritesNothing DEF SceneInv, Typed, CloserGoesOn

\* Devices join and leave the room on their own.
LEMMA DevicesInv ==
    ASSUME SceneInv, NEW d \in Devices, NEW s,
           Leaves(d) \/ JoinReaches(s, d) \/ JoinConfirmed(s, d) \/ JoinFails(s, d)
    PROVE  SceneInv'
<1>1. UNCHANGED <<up, visit, disk, clean, held, closer, task, worker>>
  BY DEF Leaves, JoinReaches, JoinConfirmed, JoinFails
<1> QED
  BY <1>1, WritesNothing DEF SceneInv, Typed, CloserGoesOn

\* A device's stop sets the task's flag; its start is written in the record.
LEMMA RequestsInv ==
    ASSUME SceneInv, NEW d \in Devices, NEW s, StartArrives(d) \/ StopArrives(s, d)
    PROVE  SceneInv'
<1>1. CASE StopArrives(s, d)
  <2>1. task' \in [Scenes -> Tasks] /\ \A r \in Scenes : task'[r].pc = task[r].pc
    BY <1>1, StopFlag DEF StopArrives, SceneInv
  <2> QED
    BY <1>1, <2>1, WritesNothing DEF StopArrives, SceneInv, Typed, CloserGoesOn
<1>2. CASE StartArrives(d)
  <2> DEFINE r == asked[d]
  <2>1. UNCHANGED <<up, task, held, clean, closer, worker>>
    BY <1>2 DEF StartArrives
  <2>2. ASSUME held[d] = r, r # NoScene, Checkpointed(r, [visit[r] EXCEPT !.sess = @ \cup {d}])
        PROVE  SceneInv'
    <3>1. r \in Scenes /\ visit[r] \in Visits
      BY <2>2 DEF SceneInv, Typed
    <3> DEFINE v == [visit[r] EXCEPT !.sess = @ \cup {d}]
    <3>2. v \in Visits /\ v.state = visit[r].state /\ v.revoked = visit[r].revoked
      BY <3>1, Fields
    <3>3. task' \in [Scenes -> Tasks] /\ closer' \in [Closers -> Closes]
      BY <2>1 DEF SceneInv, Typed
    <3>4. \A c \in Closers : CloserGoesOn(c)
      BY <2>1 DEF CloserGoesOn
    <3>5. Checkpointed(r, v)
      BY <2>2
    <3> HIDE DEF v, r
    <3> QED
      BY <2>1, <3>1, <3>2, <3>3, <3>4, <3>5, WritesOnly
  <2>3. CASE UNCHANGED <<visit, disk>>
    BY <2>1, <2>3, WritesNothing DEF SceneInv, Typed, CloserGoesOn
  <2> QED
    BY <1>2, <2>2, <2>3 DEF StartArrives
<1> QED
  BY <1>1, <1>2

\* A poll that misses a device closes the scene.
LEMMA PollInv == ASSUME SceneInv, NEW s \in Scenes, PollFindsAbsent(s) PROVE SceneInv'
<1>1. task' \in [Scenes -> Tasks] /\ \A r \in Scenes : task'[r].pc = task[r].pc
  BY StopFlag DEF PollFindsAbsent, SceneInv
<1>2. visit[s] \in Visits
  BY DEF SceneInv, Typed
<1> QED
  BY <1>1, <1>2, Fields, WritesOnly DEF PollFindsAbsent, SceneInv, Typed, CloserGoesOn

\* Opening is the only step that begins a task, in a scene that has no record.
LEMMA OpensInv == ASSUME SceneInv, NEW s \in Scenes, Opens(s) PROVE SceneInv'
<1> DEFINE v == [NoVisit EXCEPT !.state = "preparing"]
<1>1. v \in Visits /\ v.state = "preparing" /\ ~v.revoked
  BY DEF NoVisit, Visits
<1>2. /\ visit' \in [Scenes -> Visits] /\ disk' \in [Scenes -> Visits]
      /\ visit'[s] = v /\ disk'[s] \in {disk[s], v}
      /\ \A r \in Scenes \ {s} : visit'[r] = visit[r] /\ disk'[r] = disk[r]
  BY <1>1, Written DEF Opens, SceneInv
<1>3. /\ task' \in [Scenes -> Tasks] /\ task[s].pc = "none" /\ task'[s].pc = "new"
      /\ \A r \in Scenes \ {s} : task'[r] = task[r]
  BY DEF Opens, At, SceneInv, Typed, Tasks, Early
<1>4. held' \in [Devices -> Scenes \cup {NoScene}]
  BY DEF Opens, SceneInv, Typed
<1>5. Typed'
  BY <1>2, <1>3, <1>4 DEF Opens, SceneInv, Typed
<1>6. \A r \in Scenes : SceneGoesOn(r)
  <2>1. SceneGoesOn(s)
    BY <1>1, <1>2, <1>3 DEF Opens, SceneInv, Typed, ClosesAfterRun, SceneGoesOn, Early
  <2>2. \A r \in Scenes \ {s} : SceneGoesOn(r)
    BY <1>2, <1>3 DEF Opens, SceneInv, ClosesAfterRun, SceneGoesOn, Early
  <2> QED
    BY <2>1, <2>2
<1> QED
  BY <1>5, <1>6, GoesOnInv DEF Opens, CloserGoesOn

-----------------------------------------------------------------------------
\* The task of a scene goes on to its next await in run(); it writes at most the scene's record.
LEMMA TaskMoves ==
    ASSUME SceneInv, NEW s \in Scenes, NEW pc \in Early \ {"none"}, At(s, pc),
           task[s].pc \in Early \ {"none"},
           UNCHANGED <<up, clean, closer, held>>,
           worker' \in [Scenes -> {"none", "starting", "presenting", "leaving"}],
           \A r \in Scenes : worker'[r] = worker[r] \/ (r = s /\ up /\ task[s].pc = "activating"),
           visit' \in [Scenes -> Visits], disk' \in [Scenes -> Visits],
           visit'[s].revoked = visit[s].revoked,
            visit'[s].state = "none" => visit[s].state = "none",
           \A r \in Scenes : disk'[r] \in {disk[r], visit'[r]} /\ (r # s => visit'[r] = visit[r])
    PROVE  SceneInv'
<1>1. /\ task' \in [Scenes -> Tasks] /\ task'[s].pc = pc
      /\ \A r \in Scenes \ {s} : task'[r] = task[r]
  BY DEF At, SceneInv, Typed, Tasks, Early
<1>2. Typed'
  BY <1>1 DEF SceneInv, Typed
<1>3. SceneGoesOn(s)
  BY <1>1 DEF SceneInv, ClosesAfterRun, SceneGoesOn, Early
<1>4. \A r \in Scenes \ {s} : SceneGoesOn(r)
  BY <1>1 DEF SceneInv, ClosesAfterRun, SceneGoesOn, Early
<1> QED
  BY <1>2, <1>3, <1>4, GoesOnInv DEF CloserGoesOn

\* The steps of run() that neither fail nor are cancelled.
LEMMA RunsInv ==
    ASSUME SceneInv, NEW s \in Scenes,
           Starts(s) \/ Wakes(s) \/ Activates(s) \/ Placed(s) \/ BecomesReady(s)
    PROVE  SceneInv'
<1>1. visit[s] \in Visits
  BY DEF SceneInv, Typed
<1>2. CASE Starts(s) \/ Activates(s)
  BY <1>2, TaskMoves DEF Starts, Activates, TaskGoes, SceneInv, Typed, Early
<1>3. CASE Placed(s)
  <2>1. /\ worker' \in [Scenes -> {"none", "starting", "presenting", "leaving"}]
        /\ \A r \in Scenes : worker'[r] = worker[r] \/ (r = s /\ up /\ task[s].pc = "activating")
    BY <1>3 DEF Placed, TaskGoes, SceneInv, Typed
  <2> QED
    BY <1>3, <2>1, TaskMoves DEF Placed, TaskGoes, SceneInv, Typed, Early
<1>4. CASE Wakes(s)
  <2> DEFINE v == [visit[s] EXCEPT !.cmds = Endpoints[s]]
  <2>1. v \in Visits /\ v.state = visit[s].state /\ v.revoked = visit[s].revoked
    BY <1>1, Fields, SceneAssumption
  <2>2. Checkpointed(s, v)
    BY <1>4 DEF Wakes
  <2> HIDE DEF v
  <2>3. /\ visit' \in [Scenes -> Visits] /\ disk' \in [Scenes -> Visits]
        /\ visit'[s] = v /\ disk'[s] \in {disk[s], v}
        /\ \A r \in Scenes \ {s} : visit'[r] = visit[r] /\ disk'[r] = disk[r]
    BY <2>1, <2>2, Written DEF SceneInv
  <2> QED
    BY <1>4, <2>1, <2>3, TaskMoves DEF Wakes, TaskGoes, SceneInv, Typed, Early
<1>5. CASE BecomesReady(s)
  <2> DEFINE v == [visit[s] EXCEPT !.state = "ready"]
  <2>1. v \in Visits /\ v.state # "none" /\ v.revoked = visit[s].revoked
    BY <1>1, Fields
  <2>2. Checkpointed(s, v)
    BY <1>5 DEF BecomesReady
  <2> HIDE DEF v
  <2>3. /\ visit' \in [Scenes -> Visits] /\ disk' \in [Scenes -> Visits]
        /\ visit'[s] = v /\ disk'[s] \in {disk[s], v}
        /\ \A r \in Scenes \ {s} : visit'[r] = visit[r] /\ disk'[r] = disk[r]
    BY <2>1, <2>2, Written DEF SceneInv
  <2> QED
    BY <1>5, <2>1, <2>3, TaskMoves DEF BecomesReady, TaskGoes, SceneInv, Typed, Early
<1> QED
  BY <1>2, <1>3, <1>4, <1>5

\* A close transaction that begins does so at a stage.
LEMMA BegunTyped ==
    ASSUME NEW v \in Visits, NEW by \in {"none", "task"} \cup Closers
    PROVE  Begun(v, by) \in Cleans
BY DEF Begun, Cleans, Visits

\* run() is left for the cleanup, which is when a worker may last have been placed.
LEMMA CleanupBegins ==
    ASSUME SceneInv, up, NEW s \in Scenes, NEW v \in Visits, NEW w \in Visits,
           task[s].pc # "done",
           task' \in [Scenes -> Tasks], task'[s].pc = "clean",
           \A r \in Scenes \ {s} : task'[r] = task[r],
           Noted(s, v), v.revoked = visit[s].revoked, v.state # "none",
           clean' = [clean EXCEPT ![s] = Begun(w, "task")],
           worker' \in [Scenes -> {"none", "starting", "presenting", "leaving"}],
           \A r \in Scenes : worker'[r] = worker[r] \/ (r = s /\ task[s].pc = "activating"),
           UNCHANGED <<up, held, closer>>
    PROVE  SceneInv'
<1>1. /\ visit' \in [Scenes -> Visits] /\ visit'[s] = v /\ disk' = disk
      /\ \A r \in Scenes \ {s} : visit'[r] = visit[r]
  BY DEF Noted, SceneInv, Typed
<1>2. clean' \in [Scenes -> Cleans] /\ \A r \in Scenes \ {s} : clean'[r] = clean[r]
  BY BegunTyped DEF SceneInv, Typed
<1>3. Typed'
  BY <1>1, <1>2 DEF SceneInv, Typed
<1>4. SceneGoesOn(s)
  BY <1>1 DEF SceneGoesOn, Early
<1>5. \A r \in Scenes \ {s} : SceneGoesOn(r)
  BY <1>1, <1>2 DEF SceneInv, ClosesAfterRun, SceneGoesOn, Early
<1> QED
  BY <1>3, <1>4, <1>5, GoesOnInv DEF CloserGoesOn

\* run() fails: the scene is noted as failed, whatever was placed.
LEMMA FailsInv ==
    ASSUME SceneInv, NEW s \in Scenes, up, NEW ws \in {"none", "starting", "presenting", "leaving"},
           Fails(s, ws), task[s].pc \in Early \ {"none"},
           ws = worker[s] \/ task[s].pc = "activating"
    PROVE  SceneInv'
<1> DEFINE v == [visit[s] EXCEPT !.state = "failed"]
<1>1. visit[s] \in Visits /\ v \in Visits /\ v.state # "none" /\ v.revoked = visit[s].revoked
  BY Fields DEF SceneInv, Typed
<1>2. /\ task' \in [Scenes -> Tasks] /\ task'[s].pc = "clean"
      /\ \A r \in Scenes \ {s} : task'[r] = task[r]
  BY DEF Fails, At, SceneInv, Typed, Tasks
<1>3. /\ Noted(s, v) /\ clean' = [clean EXCEPT ![s] = Begun(v, "task")]
      /\ worker' = [worker EXCEPT ![s] = ws] /\ UNCHANGED <<up, held, closer>>
  BY DEF Fails, LeavesRun
<1> HIDE DEF v
<1>4. /\ worker' \in [Scenes -> {"none", "starting", "presenting", "leaving"}]
      /\ \A r \in Scenes : worker'[r] = worker[r] \/ (r = s /\ task[s].pc = "activating")
  BY <1>3 DEF SceneInv, Typed
<1> QED
  BY <1>1, <1>2, <1>3, <1>4, CleanupBegins DEF Early

\* What run() awaits fails, at each of its stages.
LEMMA RunFailsInv ==
    ASSUME SceneInv, NEW s \in Scenes,
           CheckFails(s) \/ PreparationFails(s) \/ PlacingFails(s) \/ ReceiptsFail(s)
    PROVE  SceneInv'
<1>1. worker[s] \in {"none", "starting", "presenting", "leaving"}
  BY DEF SceneInv, Typed
<1>2. CASE CheckFails(s) \/ PreparationFails(s) \/ ReceiptsFail(s)
  BY <1>1, <1>2, FailsInv DEF CheckFails, PreparationFails, ReceiptsFail, TaskGoes, Early
<1>3. CASE PlacingFails(s)
  BY <1>3, FailsInv DEF PlacingFails, TaskGoes, Early
<1> QED
  BY <1>2, <1>3

\* A stop, a cancellation or a restart takes the task to its cleanup.
LEMMA LeavesInv ==
    ASSUME SceneInv, NEW s \in Scenes, Stops(s) \/ Recovers(s) \/ CancelLands(s)
    PROVE  SceneInv'
<1>1. /\ visit[s] \in Visits
      /\ [visit[s] EXCEPT !.state = "closing"] \in Visits
      /\ [visit[s] EXCEPT !.state = "closing"].state # "none"
      /\ [visit[s] EXCEPT !.state = "closing"].revoked = visit[s].revoked
  BY Fields DEF SceneInv, Typed
<1>2. /\ Closing(visit[s]) \in Visits /\ Closing(visit[s]).state # "none"
      /\ Closing(visit[s]).revoked = visit[s].revoked
  BY <1>1 DEF Closing
<1>3. CASE Stops(s)
  <2>1. /\ task' \in [Scenes -> Tasks] /\ task'[s].pc = "clean"
        /\ \A r \in Scenes \ {s} : task'[r] = task[r]
    BY <1>3 DEF Stops, At, SceneInv, Typed, Tasks
  <2>2. /\ up /\ task[s].pc = "ready" /\ Noted(s, Closing(visit[s]))
        /\ clean' = [clean EXCEPT ![s] = Begun(Closing(visit[s]), "task")]
        /\ worker' = worker /\ UNCHANGED <<up, held, closer>>
    BY <1>3 DEF Stops, TaskGoes, LeavesRun, SceneInv, Typed
  <2> QED
    BY <1>2, <2>1, <2>2, CleanupBegins DEF SceneInv, Typed
<1>4. CASE Recovers(s)
  <2>1. /\ task' \in [Scenes -> Tasks] /\ task'[s].pc = "clean"
        /\ \A r \in Scenes \ {s} : task'[r] = task[r]
    BY <1>4 DEF Recovers, At, SceneInv, Typed, Tasks
  <2>2. /\ up /\ task[s].pc = "recover" /\ Noted(s, [visit[s] EXCEPT !.state = "closing"])
        /\ clean' = [clean EXCEPT ![s] = Begun(visit[s], "task")]
        /\ worker' = worker /\ UNCHANGED <<up, held, closer>>
    BY <1>4 DEF Recovers, TaskGoes
  <2> QED
    BY <1>1, <2>1, <2>2, CleanupBegins DEF SceneInv, Typed
<1>5. CASE CancelLands(s)
  <2>1. /\ task' \in [Scenes -> Tasks] /\ task'[s].pc = "clean"
        /\ \A r \in Scenes \ {s} : task'[r] = task[r]
    <3>1. task' = [task EXCEPT ![s] = [[task[s] EXCEPT !.pc = "clean"] EXCEPT !.cancelling = FALSE]]
      BY <1>5 DEF CancelLands, SceneInv, Typed
    <3>2. [[task[s] EXCEPT !.pc = "clean"] EXCEPT !.cancelling = FALSE] \in Tasks
          /\ [[task[s] EXCEPT !.pc = "clean"] EXCEPT !.cancelling = FALSE].pc = "clean"
      BY DEF SceneInv, Typed, Tasks
    <3> QED
      BY <3>1, <3>2 DEF SceneInv, Typed
  <2>2. /\ up /\ task[s].pc \in {"check", "waiting", "activating", "gathering", "ready"}
    BY <1>5 DEF CancelLands
  <2>3. PICK ws \in IF task[s].pc = "activating" THEN {"none", "starting"} ELSE {worker[s]} :
           LeavesRun(s, Closing(visit[s]), ws)
    BY <1>5 DEF CancelLands
  <2>4. /\ Noted(s, Closing(visit[s]))
        /\ clean' = [clean EXCEPT ![s] = Begun(Closing(visit[s]), "task")]
        /\ worker' = [worker EXCEPT ![s] = ws] /\ UNCHANGED <<up, held, closer>>
    BY <2>3 DEF LeavesRun
  <2>5. /\ worker' \in [Scenes -> {"none", "starting", "presenting", "leaving"}]
        /\ \A r \in Scenes : worker'[r] = worker[r] \/ (r = s /\ task[s].pc = "activating")
    BY <2>3, <2>4 DEF SceneInv, Typed
  <2> QED
    BY <1>2, <2>1, <2>2, <2>4, <2>5, CleanupBegins
<1> QED
  BY <1>3, <1>4, <1>5

\* A task cancelled before it began is over, and has closed nothing.
LEMMA CancelledEarlyInv == ASSUME SceneInv, NEW s \in Scenes, CancelledEarly(s) PROVE SceneInv'
<1>1. /\ task' \in [Scenes -> Tasks] /\ task'[s].pc = "done"
      /\ up /\ task[s].pc \in {"new", "recover"}
      /\ \A r \in Scenes \ {s} : task'[r] = task[r]
  BY DEF CancelledEarly, At, SceneInv, Typed, Tasks
<1>2. Typed'
  BY <1>1 DEF CancelledEarly, SceneInv, Typed
<1>3. SceneGoesOn(s)
  BY <1>1 DEF CancelledEarly, SceneGoesOn, Early
<1>4. \A r \in Scenes \ {s} : SceneGoesOn(r)
  BY <1>1 DEF CancelledEarly, SceneInv, ClosesAfterRun, SceneGoesOn, Early
<1> QED
  BY <1>2, <1>3, <1>4, GoesOnInv DEF CancelledEarly, CloserGoesOn

-----------------------------------------------------------------------------
\* A closer that goes anywhere but to the lock.
LEMMA CloserMoves ==
    ASSUME Typed, NEW c, NEW pc \in {"off", "retire", "await", "clean", "sleep", "after"},
           CloserAt(c, pc)
    PROVE  closer' \in [Closers -> Closes] /\ \A b \in Closers : CloserGoesOn(b)
<1>1. closer' \in [Closers -> Closes]
  BY DEF Typed, CloserAt, Closes
<1>2. \A b \in Closers : closer'[b] = closer[b] \/ closer'[b].pc = pc
  BY DEF Typed, CloserAt, Closes
<1> QED
  BY <1>1, <1>2 DEF CloserGoesOn

\* A closer that is given up tries again later, or leaves.
LEMMA GivesUpMoves ==
    ASSUME Typed, NEW c, GivesUp(c)
    PROVE  closer' \in [Closers -> Closes] /\ \A b \in Closers : CloserGoesOn(b)
<1>1. CASE c \notin Closers
  BY <1>1 DEF GivesUp, Typed, CloserGoesOn
<1>2. CASE c \in Closers
  <2> DEFINE x == IF Retries(c)
                  THEN [pc |-> "sleep", scene |-> closer[c].scene, tries |-> closer[c].tries + 1]
                  ELSE NoClose
  <2>1. closer[c] \in Closes
    BY <1>2 DEF Typed
  <2>2. /\ [pc |-> "sleep", scene |-> closer[c].scene, tries |-> closer[c].tries + 1] \in Closes
        /\ [pc |-> "sleep", scene |-> closer[c].scene, tries |-> closer[c].tries + 1].pc = "sleep"
    BY <2>1 DEF Closes
  <2>3. NoClose \in Closes /\ NoClose.pc = "off"
    BY DEF NoClose, Closes
  <2>4. x \in Closes /\ x.pc \in {"sleep", "off"}
    BY <2>2, <2>3
  <2>5. closer' = [closer EXCEPT ![c] = x]
    BY <1>2 DEF GivesUp, Typed
  <2> HIDE DEF x
  <2> QED
    BY <2>4, <2>5 DEF Typed, CloserGoesOn
<1> QED
  BY <1>1, <1>2

\* Closers begin with the retirement, or with nothing left to retire.
LEMMA AsksInv ==
    ASSUME SceneInv, NEW s, NEW d, (s \in Scenes /\ CloseAsked(s)) \/ (d \in Devices /\ HubAsks(d))
    PROVE  SceneInv'
<1>1. CASE s \in Scenes /\ CloseAsked(s)
  <2>1. closer' \in [Closers -> Closes] /\ \A b \in Closers : CloserGoesOn(b)
    <3>1. [pc |-> "retire", scene |-> s, tries |-> 1] \in Closes
      BY <1>1 DEF Closes
    <3> QED
      BY <1>1, <3>1 DEF CloseAsked, SceneInv, Typed, CloserGoesOn
  <2>2. /\ visit[s] \in Visits
        /\ [visit[s] EXCEPT !.state = "closing"] \in Visits
        /\ [visit[s] EXCEPT !.state = "closing"].state # "none"
        /\ [visit[s] EXCEPT !.state = "closing"].revoked = visit[s].revoked
    BY <1>1, Fields DEF SceneInv, Typed
  <2>3. CASE s \in Teams
    BY <1>1, <2>1, <2>2, <2>3, WritesOnly DEF CloseAsked, SceneInv, Typed
  <2>4. CASE s \notin Teams
    BY <1>1, <2>1, <2>4, WritesNothing DEF CloseAsked, SceneInv, Typed
  <2> QED
    BY <2>3, <2>4
<1>2. CASE d \in Devices /\ HubAsks(d)
  <2>1. closer' \in [Closers -> Closes] /\ \A b \in Closers : CloserGoesOn(b)
    <3> DEFINE x == [pc |-> IF held[d] = NoScene THEN "after" ELSE "retire",
                     scene |-> held[d], tries |-> 1]
    <3>1. x \in Closes /\ x.pc # "lock"
      BY <1>2 DEF Closes, SceneInv, Typed
    <3>2. closer' = [closer EXCEPT ![d] = x]
      BY <1>2 DEF HubAsks
    <3> HIDE DEF x
    <3> QED
      BY <3>1, <3>2 DEF SceneInv, Typed, CloserGoesOn
  <2> QED
    BY <1>2, <2>1, WritesNothing DEF HubAsks, SceneInv, Typed
<1> QED
  BY <1>1, <1>2

\* A closer asks for the lock of a scene whose task is done.
LEMMA ToTheLock ==
    ASSUME Typed, up, NEW c \in Closers, CloserAt(c, "lock"), task[closer[c].scene].pc = "done"
    PROVE  closer' \in [Closers -> Closes] /\ \A b \in Closers : CloserGoesOn(b)
<1>1. closer' \in [Closers -> Closes]
  BY DEF Typed, CloserAt, Closes
<1>2. /\ closer'[c].scene = closer[c].scene
      /\ \A b \in Closers \ {c} : closer'[b] = closer[b]
  BY DEF Typed, CloserAt, Closes
<1> QED
  BY <1>1, <1>2 DEF CloserGoesOn

\* A cancellation is asked for; the task is awaited if it is not done.
LEMMA RetiresInv == ASSUME SceneInv, NEW c \in Closers, Retires(c) PROVE SceneInv'
<1> DEFINE s == closer[c].scene
<1>1. UNCHANGED <<up, visit, clean, disk, held, worker>>
  BY DEF Retires
<1>2. CASE task[s].pc = "done"
  <2>1. CloserAt(c, "lock") /\ UNCHANGED task
    BY <1>2 DEF Retires
  <2>2. closer' \in [Closers -> Closes] /\ \A b \in Closers : CloserGoesOn(b)
    BY <1>2, <2>1, ToTheLock DEF SceneInv, Retires
  <2> QED
    BY <1>1, <2>1, <2>2, WritesNothing DEF SceneInv, Typed
<1>3. CASE task[s].pc # "done"
  <2>1. CloserAt(c, "await") /\ task' = [task EXCEPT ![s].cancelling = TRUE]
    BY <1>3 DEF Retires
  <2>2. task' \in [Scenes -> Tasks] /\ \A r \in Scenes : task'[r].pc = task[r].pc
    BY <2>1 DEF SceneInv, Typed, Tasks
  <2>3. closer' \in [Closers -> Closes] /\ \A b \in Closers : CloserGoesOn(b)
    BY <2>1, CloserMoves DEF SceneInv
  <2> QED
    BY <1>1, <2>2, <2>3, WritesNothing DEF SceneInv, Typed
<1> QED
  BY <1>2, <1>3

\* What a closer that failed writes keeps the end of the producers.
LEMMA RefusedTyped ==
    ASSUME NEW v \in Visits, NEW c
    PROVE  /\ Refused(c, v) \in Visits /\ Refused(c, v).revoked = v.revoked
           /\ Refused(c, v).state = "none" => v.state = "none"
<1>1. /\ [v EXCEPT !.state = "closing"] \in Visits
      /\ [v EXCEPT !.state = "closing"].state # "none"
      /\ [v EXCEPT !.state = "closing"].revoked = v.revoked
  BY Fields
<1> QED
  BY <1>1 DEF Refused

\* The awaited task has failed, or is done and leaves a close to be done.
LEMMA AwaitsInv == ASSUME SceneInv, NEW c \in Closers, Awaits(c) PROVE SceneInv'
<1> DEFINE s == closer[c].scene
<1>1. UNCHANGED <<up, task, clean, held, worker>> /\ task[s].pc = "done"
  BY DEF Awaits
<1>2. ASSUME GivesUp(c), Checkpointed(s, Refused(c, visit[s])) PROVE SceneInv'
  <2>1. closer' \in [Closers -> Closes] /\ \A b \in Closers : CloserGoesOn(b)
    BY <1>2, GivesUpMoves DEF SceneInv
  <2>2. CASE s \in Scenes
    <3>1. visit[s] \in Visits
      BY <2>2 DEF SceneInv, Typed
    <3> QED
      BY <1>1, <1>2, <2>1, <2>2, <3>1, RefusedTyped, WritesOnly DEF SceneInv, Typed
  <2>3. CASE s \notin Scenes
    <3>1. UNCHANGED <<visit, disk>>
      BY <1>2, <2>3 DEF Checkpointed, SceneInv, Typed
    <3> QED
      BY <1>1, <2>1, <3>1, WritesNothing DEF SceneInv, Typed
  <2> QED
    BY <2>2, <2>3
<1>3. ASSUME GivesUp(c), UNCHANGED <<visit, disk>> PROVE SceneInv'
  <2>1. closer' \in [Closers -> Closes] /\ \A b \in Closers : CloserGoesOn(b)
    BY <1>3, GivesUpMoves DEF SceneInv
  <2> QED
    BY <1>1, <1>3, <2>1, WritesNothing DEF SceneInv, Typed
<1>4. ASSUME CloserAt(c, IF Stands(c) THEN "lock" ELSE Onward(c)), UNCHANGED <<visit, disk>>
      PROVE  SceneInv'
  <2>1. closer' \in [Closers -> Closes] /\ \A b \in Closers : CloserGoesOn(b)
    BY <1>1, <1>4, CloserMoves, ToTheLock DEF SceneInv, Onward, Awaits
  <2> QED
    BY <1>1, <1>4, <2>1, WritesNothing DEF SceneInv, Typed
<1> QED
  BY <1>2, <1>3, <1>4 DEF Awaits

\* With the lock, a close transaction begins: the task is done.
LEMMA LocksInv == ASSUME SceneInv, NEW c \in Closers, Locks(c) PROVE SceneInv'
<1> DEFINE s == closer[c].scene
<1>1. UNCHANGED <<up, visit, task, held, disk, worker>> /\ up
  BY DEF Locks
<1>2. closer' \in [Closers -> Closes] /\ \A b \in Closers : CloserGoesOn(b)
  BY CloserMoves DEF Locks, SceneInv
<1>3. CASE s \in Scenes
  <2>1. task[s].pc = "done"
    BY <1>3 DEF Locks, SceneInv, ClosesAfterRun
  <2>2. /\ clean' \in [Scenes -> Cleans]
        /\ \A r \in Scenes \ {s} : clean'[r] = clean[r]
    <3>1. visit[s] \in Visits
      BY <1>3 DEF SceneInv, Typed
    <3>2. Begun(visit[s], c) \in Cleans
      BY <3>1, BegunTyped
    <3>3. clean' = [clean EXCEPT ![s] = Begun(visit[s], c)]
      BY DEF Locks
    <3> QED
      BY <3>2, <3>3 DEF SceneInv, Typed
  <2>3. Typed'
    BY <1>1, <1>2, <2>2 DEF SceneInv, Typed
  <2>4. \A r \in Scenes : SceneGoesOn(r)
    BY <1>1, <2>1, <2>2 DEF SceneInv, ClosesAfterRun, SceneGoesOn, Early
  <2> QED
    BY <1>1, <1>2, <2>3, <2>4, GoesOnInv
<1>4. CASE s \notin Scenes
  <2>1. UNCHANGED clean
    BY <1>4 DEF Locks, SceneInv, Typed
  <2> QED
    BY <1>1, <1>2, <2>1, WritesNothing DEF SceneInv, Typed
<1> QED
  BY <1>3, <1>4

\* Closers try again, and leave.
LEMMA ClosersLeaveInv ==
    ASSUME SceneInv, NEW c \in Closers,
           TriesAgain(c) \/ (c \in Scenes /\ ClientDone(c)) \/ (c \in Devices /\ HubDone(c))
    PROVE  SceneInv'
<1>1. CASE TriesAgain(c)
  BY <1>1, CloserMoves, WritesNothing DEF TriesAgain, SceneInv, Typed
<1>2. ASSUME closer' = [closer EXCEPT ![c] = NoClose]
      PROVE  closer' \in [Closers -> Closes] /\ \A b \in Closers : CloserGoesOn(b)
  BY <1>2 DEF SceneInv, Typed, NoClose, Closes, CloserGoesOn
<1>3. CASE c \in Scenes /\ ClientDone(c)
  <2>1. closer' \in [Closers -> Closes] /\ \A b \in Closers : CloserGoesOn(b)
    BY <1>2, <1>3 DEF ClientDone
  <2>2. /\ visit[c] \in Visits
        /\ [visit[c] EXCEPT !.state = "closed"] \in Visits
        /\ [visit[c] EXCEPT !.state = "closed"].state # "none"
        /\ [visit[c] EXCEPT !.state = "closed"].revoked = visit[c].revoked
    BY <1>3, Fields DEF SceneInv, Typed
  <2> QED
    BY <1>3, <2>1, <2>2, WritesOnly DEF ClientDone, SceneInv, Typed
<1>4. CASE c \in Devices /\ HubDone(c)
  BY <1>2, <1>4, WritesNothing DEF HubDone, SceneInv, Typed
<1> QED
  BY <1>1, <1>3, <1>4

-----------------------------------------------------------------------------
\* A step of a close transaction that writes at most the scene's record, and ends no producer.
LEMMA CleanMoves ==
    ASSUME SceneInv, NEW s \in Scenes, up, UNCHANGED <<up, task>>,
           clean' \in [Scenes -> Cleans], clean[s].stage # "none",
           \A r \in Scenes \ {s} : clean'[r] = clean[r],
           visit' \in [Scenes -> Visits], disk' \in [Scenes -> Visits],
           \A r \in Scenes : disk'[r] \in {disk[r], visit'[r]} /\ (r # s => visit'[r] = visit[r]),
           visit'[s].revoked = visit[s].revoked,
            visit'[s].state = "none" => visit[s].state = "none",
           worker' \in [Scenes -> {"none", "starting", "presenting", "leaving"}],
           \A r \in Scenes : worker'[r] = "none" \/ worker[r] # "none",
           held' \in [Devices -> Scenes \cup {NoScene}],
           closer' \in [Closers -> Closes], \A c \in Closers : CloserGoesOn(c)
    PROVE  SceneInv'
<1>1. Typed'
  BY DEF SceneInv, Typed
<1>2. \A r \in Scenes : SceneGoesOn(r)
  BY DEF SceneInv, ClosesAfterRun, SceneGoesOn, Early
<1> QED
  BY <1>1, <1>2, GoesOnInv

\* The dispatch is withdrawn: a worker goes, or never comes.
LEMMA WithdrawsInv == ASSUME SceneInv, NEW s \in Scenes, Withdraws(s) PROVE SceneInv'
<1>1. up /\ clean[s].stage # "none"
  BY DEF Withdraws, InStage
<1>2. clean' \in [Scenes -> Cleans] /\ \A r \in Scenes \ {s} : clean'[r] = clean[r]
  BY DEF Withdraws, SceneInv, Typed, Cleans
<1>3. /\ worker' \in [Scenes -> {"none", "starting", "presenting", "leaving"}]
      /\ \A r \in Scenes : worker'[r] = "none" \/ worker[r] # "none"
  BY DEF Withdraws, SceneInv, Typed
<1> QED
  BY <1>1, <1>2, <1>3, CleanMoves DEF Withdraws, SceneInv, Typed, CloserGoesOn

\* The end of the producers is recorded when there is none, of a task that places none any more.
LEMMA SilentInv == ASSUME SceneInv, NEW s \in Scenes, Silent(s) PROVE SceneInv'
<1> DEFINE v == [visit[s] EXCEPT !.revoked = TRUE]
<1>1. /\ up /\ clean[s].stage = "silence" /\ worker[s] = "none"
      /\ UNCHANGED <<up, task, held, closer, worker>>
  BY DEF Silent, InStage
<1>2. task[s].pc \in {"clean", "done"} /\ visit[s].state # "none"
  BY <1>1 DEF SceneInv, ClosesAfterRun, RecordedLate
<1>3. v \in Visits /\ v.state = visit[s].state
  BY DEF SceneInv, Typed, Visits
<1>4. /\ visit' \in [Scenes -> Visits] /\ disk' \in [Scenes -> Visits]
      /\ visit'[s] = v /\ disk'[s] \in {disk[s], v}
      /\ \A r \in Scenes \ {s} : visit'[r] = visit[r] /\ disk'[r] = disk[r]
  BY <1>3, Written DEF Silent, SceneInv
<1>5. /\ clean' \in [Scenes -> Cleans] /\ clean'[s].stage = "ends"
      /\ \A r \in Scenes \ {s} : clean'[r] = clean[r]
  BY DEF Silent, SceneInv, Typed, Cleans
<1> HIDE DEF v
<1>6. Typed'
  BY <1>1, <1>4, <1>5 DEF SceneInv, Typed
<1>7. ProducersGoFirst'
  BY <1>1, <1>4 DEF SceneInv, ProducersGoFirst
<1>8. RecordedLate'
  BY <1>1, <1>2, <1>3, <1>4 DEF SceneInv, RecordedLate, Early
<1>9. ClosesAfterRun'
  BY <1>1, <1>2, <1>5 DEF SceneInv, ClosesAfterRun
<1> QED
  BY <1>6, <1>7, <1>8, <1>9 DEF SceneInv

\* The devices confirm, or do not.
LEMMA EndsInv ==
    ASSUME SceneInv, NEW s \in Scenes, NEW d \in Devices, Ended(s, d) \/ EndUnconfirmed(s, d)
    PROVE  SceneInv'
<1>1. up /\ clean[s].stage # "none" /\ UNCHANGED <<up, task, held, closer, worker>>
  BY DEF Ended, EndUnconfirmed, InStage
<1>2. CASE Ended(s, d)
  <2> DEFINE v == [visit[s] EXCEPT !.ended = @ \cup {d}]
  <2>1. visit[s] \in Visits
    BY DEF SceneInv, Typed
  <2>2. v \in Visits /\ v.state = visit[s].state /\ v.revoked = visit[s].revoked
    BY <2>1, Fields
  <2>3. Checkpointed(s, v)
    BY <1>2 DEF Ended
  <2>4. clean' \in [Scenes -> Cleans] /\ \A r \in Scenes \ {s} : clean'[r] = clean[r]
    BY <1>2 DEF Ended, SceneInv, Typed, Cleans
  <2> HIDE DEF v
  <2>5. /\ visit' \in [Scenes -> Visits] /\ disk' \in [Scenes -> Visits]
        /\ visit'[s] = v /\ disk'[s] \in {disk[s], v}
        /\ \A r \in Scenes \ {s} : visit'[r] = visit[r] /\ disk'[r] = disk[r]
    BY <2>2, <2>3, Written DEF SceneInv
  <2> QED
    BY <1>1, <2>2, <2>4, <2>5, CleanMoves DEF SceneInv, Typed, CloserGoesOn
<1>3. CASE EndUnconfirmed(s, d)
  <2>1. clean' \in [Scenes -> Cleans] /\ \A r \in Scenes \ {s} : clean'[r] = clean[r]
    <3> DEFINE k == [clean[s] EXCEPT !.waiting = clean[s].waiting \ {d}]
    <3>1. k \in Cleans /\ [k EXCEPT !.bad = TRUE] \in Cleans
      BY DEF SceneInv, Typed, Cleans
    <3>2. clean' = [clean EXCEPT ![s] = [k EXCEPT !.bad = TRUE]]
      BY <1>3 DEF EndUnconfirmed, SceneInv, Typed
    <3> HIDE DEF k
    <3> QED
      BY <3>1, <3>2 DEF SceneInv, Typed
  <2> QED
    BY <1>1, <1>3, <2>1, CleanMoves DEF EndUnconfirmed, SceneInv, Typed, CloserGoesOn
<1> QED
  BY <1>2, <1>3

\* A close transaction that fails leaves the task done, or goes back to its closer.
LEMMA CleanFailsInv ==
    ASSUME SceneInv, NEW s \in Scenes, up, CleanFails(s, visit[s]), UNCHANGED <<up, held, worker>>
    PROVE  SceneInv'
<1> DEFINE failed == [visit[s] EXCEPT !.state = "failed"]
           by == clean[s].by
<1>1. /\ failed \in Visits /\ failed.state # "none" /\ failed.revoked = visit[s].revoked
  BY Fields DEF SceneInv, Typed
<1>2. /\ clean' \in [Scenes -> Cleans] /\ clean'[s].stage = "none"
      /\ \A r \in Scenes \ {s} : clean'[r] = clean[r]
  BY DEF CleanFails, SceneInv, Typed, NoClean, Cleans
<1>3. ASSUME NEW v \in Visits, v.state # "none", v.revoked = visit[s].revoked, Checkpointed(s, v),
             task' \in [Scenes -> Tasks], task'[s].pc \in {task[s].pc, "done"},
             \A r \in Scenes \ {s} : task'[r] = task[r],
             closer' \in [Closers -> Closes], \A c \in Closers : CloserGoesOn(c)
      PROVE  SceneInv'
  <2>1. /\ visit' \in [Scenes -> Visits] /\ disk' \in [Scenes -> Visits]
        /\ visit'[s] = v /\ disk'[s] \in {disk[s], v}
        /\ \A r \in Scenes \ {s} : visit'[r] = visit[r] /\ disk'[r] = disk[r]
    BY <1>3, Written DEF SceneInv
  <2>2. Typed'
    BY <1>2, <1>3, <2>1 DEF SceneInv, Typed
  <2>3. SceneGoesOn(s)
    BY <1>2, <1>3, <2>1 DEF SceneGoesOn, Early
  <2>4. \A r \in Scenes \ {s} : SceneGoesOn(r)
    BY <1>2, <1>3, <2>1 DEF SceneInv, ClosesAfterRun, SceneGoesOn, Early
  <2> QED
    BY <1>3, <2>2, <2>3, <2>4, GoesOnInv
<1>4. CASE by = "task"
  <2>1. /\ task' = [task EXCEPT ![s].pc = "done", ![s].broke = ~task[s].cancelling]
        /\ Checkpointed(s, failed) /\ UNCHANGED closer
    BY <1>4 DEF CleanFails
  <2>2. /\ task' \in [Scenes -> Tasks] /\ task'[s].pc = "done"
        /\ \A r \in Scenes \ {s} : task'[r] = task[r]
    <3> DEFINE k == [task[s] EXCEPT !.pc = "done"]
    <3>1. (~task[s].cancelling) \in BOOLEAN
      OBVIOUS
    <3>2. k \in Tasks /\ k.pc = "done"
      BY DEF SceneInv, Typed, Tasks
    <3>3. [k EXCEPT !.broke = ~task[s].cancelling] \in Tasks
          /\ [k EXCEPT !.broke = ~task[s].cancelling].pc = "done"
      BY <3>1, <3>2 DEF Tasks
    <3>4. task' = [task EXCEPT ![s] = [k EXCEPT !.broke = ~task[s].cancelling]]
      BY <2>1 DEF SceneInv, Typed
    <3> HIDE DEF k
    <3> QED
      BY <3>3, <3>4 DEF SceneInv, Typed
  <2>3. closer' \in [Closers -> Closes] /\ \A c \in Closers : CloserGoesOn(c)
    BY <2>1 DEF SceneInv, Typed, CloserGoesOn
  <2> HIDE DEF failed
  <2> QED
    BY <1>1, <1>3, <2>1, <2>2, <2>3
<1>5. CASE by # "task"
  <2>1. Checkpointed(s, Refused(by, failed)) /\ GivesUp(by) /\ UNCHANGED task
    BY <1>5 DEF CleanFails
  <2> HIDE DEF failed
  <2>2. /\ Refused(by, failed) \in Visits /\ Refused(by, failed).state # "none"
        /\ Refused(by, failed).revoked = visit[s].revoked
    BY <1>1, RefusedTyped
  <2>3. closer' \in [Closers -> Closes] /\ \A c \in Closers : CloserGoesOn(c)
    BY <2>1, GivesUpMoves DEF SceneInv
  <2>4. task' \in [Scenes -> Tasks]
    BY <2>1 DEF SceneInv, Typed
  <2> QED
    BY <1>3, <2>1, <2>2, <2>3, <2>4
<1> QED
  BY <1>4, <1>5

\* The failures of run() and of a close transaction.
LEMMA FailuresInv ==
    ASSUME SceneInv, NEW s \in Scenes,
           QuiesceFails(s) \/ EndsFail(s) \/ FinalCheckpointFails(s) \/ CleanInterrupted(s)
    PROVE  SceneInv'
<1>1. up /\ CleanFails(s, visit[s]) /\ UNCHANGED <<up, held, worker>>
  BY DEF QuiesceFails, EndsFail, FinalCheckpointFails, CleanInterrupted, AllAnswered, InStage
<1> QED
  BY <1>1, CleanFailsInv

\* The close is complete: the reservation goes with the last record.
LEMMA CompletesInv == ASSUME SceneInv, NEW s \in Scenes, Completes(s) PROVE SceneInv'
<1> DEFINE v == [visit[s] EXCEPT !.state = "closed", !.complete = TRUE]
<1>1. up /\ clean[s].stage = "ends" /\ UNCHANGED <<up, worker>>
  BY DEF Completes, AllAnswered, InStage
<1>2. v \in Visits /\ v.state # "none" /\ v.revoked = visit[s].revoked
  <2> DEFINE k == [visit[s] EXCEPT !.state = "closed"]
  <2>1. k \in Visits /\ k.state # "none" /\ k.revoked = visit[s].revoked
    BY Fields DEF SceneInv, Typed
  <2>2. v = [k EXCEPT !.complete = TRUE]
    BY DEF SceneInv, Typed, Visits
  <2> HIDE DEF k, v
  <2> QED
    BY <2>1, <2>2 DEF Visits
<1>3. Checkpointed(s, v)
  BY DEF Completes
<1> HIDE DEF v
<1>4. /\ visit' \in [Scenes -> Visits] /\ disk' \in [Scenes -> Visits]
      /\ visit'[s] = v /\ disk'[s] \in {disk[s], v}
      /\ \A r \in Scenes \ {s} : visit'[r] = visit[r] /\ disk'[r] = disk[r]
  BY <1>2, <1>3, Written DEF SceneInv
<1>5. /\ clean' \in [Scenes -> Cleans] /\ clean'[s].stage = "none"
      /\ \A r \in Scenes \ {s} : clean'[r] = clean[r]
  BY DEF Completes, SceneInv, Typed, NoClean, Cleans
<1>6. held' \in [Devices -> Scenes \cup {NoScene}]
  BY DEF Completes, Released, SceneInv, Typed
<1>7. /\ task' \in [Scenes -> Tasks] /\ task'[s].pc \in {task[s].pc, "done"}
      /\ \A r \in Scenes \ {s} : task'[r] = task[r]
  BY DEF Completes, At, SceneInv, Typed, Tasks
<1>8. closer' \in [Closers -> Closes] /\ \A c \in Closers : CloserGoesOn(c)
  BY CloserMoves DEF Completes, Onward, SceneInv, Typed, CloserGoesOn
<1>9. Typed'
  BY <1>1, <1>4, <1>5, <1>6, <1>7, <1>8 DEF SceneInv, Typed
<1>10. \A r \in Scenes : SceneGoesOn(r)
  <2>1. SceneGoesOn(s)
    BY <1>1, <1>2, <1>4, <1>5, <1>7 DEF SceneGoesOn, Early
  <2>2. \A r \in Scenes \ {s} : SceneGoesOn(r)
    BY <1>1, <1>4, <1>5, <1>7 DEF SceneInv, ClosesAfterRun, SceneGoesOn, Early
  <2> QED
    BY <2>1, <2>2
<1> QED
  BY <1>1, <1>8, <1>9, <1>10, GoesOnInv

-----------------------------------------------------------------------------
\* Memory is lost and records stay; no transaction and no closer is left.
LEMMA CrashesInv == ASSUME SceneInv, Crashes PROVE SceneInv'
<1>1. Typed'
  BY DEF Crashes, SceneInv, Typed, NoVisit, NoTask, NoClean, NoClose, Visits, Tasks, Cleans,
         Closes, Early
<1>2. ProducersGoFirst' /\ RecordedLate' /\ ClosesAfterRun'
  BY DEF Crashes, SceneInv, ProducersGoFirst, RecordedLate, ClosesAfterRun, NoVisit, NoTask,
         NoClean, NoClose
<1> QED
  BY <1>1, <1>2 DEF SceneInv

\* A scene with a record is in recovery or done, and is not run again.
LEMMA RestartsInv == ASSUME SceneInv, Restarts PROVE SceneInv'
<1> DEFINE V == [s \in Scenes |->
                   IF Known(s)
                   THEN [disk[s] EXCEPT !.state = IF disk[s].complete THEN "closed" ELSE "closing"]
                   ELSE NoVisit]
           T == [s \in Scenes |->
                   [NoTask EXCEPT !.pc = IF Unfinished(s) THEN "recover"
                                         ELSE IF Known(s) THEN "done" ELSE "none"]]
<1>1. /\ up' = TRUE /\ visit' = V /\ disk' = V /\ task' = T /\ held' = Restored
      /\ ~up /\ UNCHANGED <<clean, closer, worker>>
  BY DEF Restarts
<1>2. \A s \in Scenes : /\ V[s] \in Visits /\ (V[s].revoked => disk[s].revoked)
                        /\ (V[s].state = "none" <=> ~Known(s)) /\ (~Known(s) => ~V[s].revoked)
  <2> SUFFICES ASSUME NEW s \in Scenes
               PROVE  /\ V[s] \in Visits /\ (V[s].revoked => disk[s].revoked)
                      /\ (V[s].state = "none" <=> ~Known(s)) /\ (~Known(s) => ~V[s].revoked)
    OBVIOUS
  <2>1. disk[s] \in Visits
    BY DEF SceneInv, Typed
  <2>2. \A x \in {"closed", "closing"} :
           /\ [disk[s] EXCEPT !.state = x] \in Visits
           /\ [disk[s] EXCEPT !.state = x].state # "none"
           /\ [disk[s] EXCEPT !.state = x].revoked = disk[s].revoked
    BY <2>1 DEF Visits
  <2>3. NoVisit \in Visits /\ NoVisit.state = "none" /\ NoVisit.revoked = FALSE
    BY DEF NoVisit, Visits
  <2>4. CASE Known(s)
    <3>1. PICK x \in {"closed", "closing"} : V[s] = [disk[s] EXCEPT !.state = x]
      BY <2>4
    <3> QED
      BY <2>2, <2>4, <3>1
  <2>5. CASE ~Known(s)
    <3>1. V[s] = NoVisit
      BY <2>5
    <3> QED
      BY <2>3, <2>5, <3>1
  <2> QED
    BY <2>4, <2>5
<1>3. \A s \in Scenes : /\ T[s] \in Tasks /\ T[s].pc \in {"recover", "done", "none"}
                        /\ (T[s].pc = "none" <=> ~Known(s))
  BY DEF NoTask, Tasks, Early, Unfinished
<1>4. held' \in [Devices -> Scenes \cup {NoScene}]
  BY <1>1 DEF Restored
<1> HIDE DEF V, T
<1>5. Typed'
  <2>1. visit' \in [Scenes -> Visits] /\ disk' \in [Scenes -> Visits]
    BY <1>1, <1>2 DEF Restarts
  <2>2. task' \in [Scenes -> Tasks]
    BY <1>1, <1>3 DEF Restarts
  <2> QED
    BY <1>1, <1>4, <2>1, <2>2 DEF SceneInv, Typed
<1>6. ProducersGoFirst'
  BY <1>1, <1>2 DEF SceneInv, ProducersGoFirst
<1>7. RecordedLate'
  BY <1>1, <1>2, <1>3 DEF RecordedLate, Early
<1>8. ClosesAfterRun'
  <2>1. \A s \in Scenes : clean'[s].stage = "none"
    BY <1>1 DEF SceneInv, ClosesAfterRun
  <2>2. \A c \in Closers : closer'[c].pc = "lock" /\ closer'[c].scene \in Scenes
                              => task'[closer'[c].scene].pc = "done"
    BY <1>1, <1>3 DEF SceneInv, ClosesAfterRun
  <2> QED
    BY <1>1, <2>1, <2>2 DEF ClosesAfterRun
<1> QED
  BY <1>5, <1>6, <1>7, <1>8 DEF SceneInv

-----------------------------------------------------------------------------
\* Every step, and a stutter, preserves the argument.
LEMMA NextInv == ASSUME SceneInv, [Next]_vars PROVE SceneInv'
<1>1. CASE UNCHANGED vars
  BY <1>1, WritesNothing DEF vars, SceneInv, Typed, CloserGoesOn
<1>2. ASSUME NEW s \in Scenes, TaskStep(s) PROVE SceneInv'
  BY <1>2, RunsInv, RunFailsInv, LeavesInv, CancelledEarlyInv DEF TaskStep
<1>3. ASSUME NEW s \in Scenes, CleanStep(s) PROVE SceneInv'
  BY <1>3, WithdrawsInv, SilentInv, EndsInv, FailuresInv, CompletesInv DEF CleanStep
<1>4. ASSUME NEW s \in Scenes, SceneStep(s) PROVE SceneInv'
  BY <1>4, AsksInv, OpensInv, PollInv, WorkersInv DEF SceneStep
<1>5. ASSUME NEW c \in Closers, CloserStep(c) PROVE SceneInv'
  BY <1>5, RetiresInv, AwaitsInv, LocksInv, ClosersLeaveInv DEF CloserStep
<1>6. ASSUME NEW d \in Devices, DeviceStep(d) PROVE SceneInv'
  BY <1>6, DevicesInv, RequestsInv, AsksInv DEF DeviceStep
<1> QED
  BY <1>1, <1>2, <1>3, <1>4, <1>5, <1>6, CrashesInv, RestartsInv DEF Next

\* Once the producers of a scene were recorded as gone no worker of it exists, whoever closes it,
\* whatever fails and whenever the process dies.
THEOREM SceneProducersGoFirst == Spec => []ProducersGoFirst
<1>1. SceneInv => ProducersGoFirst
  BY DEF SceneInv
<1> QED
  BY <1>1, InitInv, NextInv, PTL DEF Spec

-----------------------------------------------------------------------------
(* What stands for a scene.  Who is reserved, who serves and what is on disk  *)
(* are kept in four places, and the argument is that they agree at every      *)
(* step: a device is reserved for the scene whose record on disk is           *)
(* unfinished, and for no other; memory holds that record up to its state; a  *)
(* device in the scene was commanded and has not confirmed its end; and a     *)
(* close that has heard no failure waits for every device that has not.       *)

\* The stages of run() in which joins may be in flight.
RunStages == {"waiting", "activating", "gathering", "ready"}

Bodied ==
    /\ body \in [Devices -> Scenes \cup {Idle}]
    /\ wake \in [Scenes -> [Devices -> {"none", "sent", "ok", "failed"}]]

\* A record on disk that a restart accepts, of devices of the scene.
RecordFits(s) ==
    /\ Restorable(disk[s])
    /\ disk[s].cmds \subseteq Endpoints[s] /\ disk[s].sess \subseteq disk[s].cmds
    /\ disk[s].state = "none" => disk[s].cmds = {} /\ ~disk[s].complete
    /\ disk[s].state = "closed" => disk[s].complete

\* Two records that differ in their state at most.
Alike(v, w) ==
    /\ v.cmds = w.cmds /\ v.sess = w.sess /\ v.ended = w.ended
    /\ v.complete = w.complete /\ v.revoked = w.revoked

\* Memory holds the record that is on disk.
Mirrored(s) ==
    /\ up => /\ Alike(visit[s], disk[s])
             /\ visit[s].state = "none" <=> disk[s].state = "none"
             /\ visit[s].state = "closed" => disk[s].complete
             /\ task[s].pc = "none" => visit[s].state = "none"
    /\ ~up => visit[s].state = "none"

\* A task in run() has ended nothing.
Fresh(s) == up /\ task[s].pc \in Early => disk[s].ended = {} /\ ~disk[s].complete

\* Devices are reserved for, serve in and are worked for an unfinished scene only.
Claimed(s) ==
    /\ up => \A d \in Devices : held[d] = s <=> d \in Endpoints[s] /\ Unfinished(s)
    /\ ~up => \A d \in Devices : held[d] # s
    /\ Unfinished(s) => Endpoints[s] \intersect gone = {}
    /\ worker[s] # "none" => Unfinished(s)
    /\ \A d \in Devices : body[d] = s => d \in disk[s].cmds /\ d \notin disk[s].ended

\* Joins are in flight in run() only, to the devices of the scene.
WakesInRun(s) ==
    \A d \in Devices :
        wake[s][d] # "none" =>
            up /\ task[s].pc \in RunStages /\ d \in Endpoints[s] /\ disk[s].cmds = Endpoints[s]

\* A close that heard no failure waits for every device that has not confirmed.
AccountsFor(k, v) ==
    k.stage # "none" =>
        /\ k.waiting \subseteq v.cmds
        /\ k.stage = "ends" => v.revoked
        /\ ~k.bad => v.cmds \subseteq v.ended \cup k.waiting

\* Who drives a close is in one of its stages; a client that drives one asked for a scene that
\* exists, as does one that waits.
Driven(k) ==
    /\ k.by # "none" => k.stage # "none"
    /\ k.by \in Closers /\ k.by \in Scenes => visit[k.by].state # "none"

OwnScene(c) == c \in Scenes /\ closer[c].pc # "off" => visit[c].state # "none"

Apart ==
    \A s, t \in Scenes :
        Unfinished(s) /\ Unfinished(t) /\ s # t => Endpoints[s] \intersect Endpoints[t] = {}

StandInv ==
    /\ Bodied /\ Apart
    /\ \A s \in Scenes : /\ RecordFits(s) /\ Mirrored(s) /\ Fresh(s) /\ Claimed(s)
                         /\ WakesInRun(s) /\ AccountsFor(clean[s], disk[s]) /\ Driven(clean[s])
    /\ \A c \in Closers : OwnScene(c)

-----------------------------------------------------------------------------
\* How most steps treat a scene's record: they leave it, or write what stands for no less and no
\* more than it did.
RecordSoft(s) ==
    \/ visit'[s] = visit[s] /\ disk'[s] = disk[s]
    \/ /\ up
       /\ disk'[s].cmds = disk[s].cmds /\ disk'[s].ended = disk[s].ended
       /\ disk'[s].complete = disk[s].complete
       /\ disk'[s].sess \subseteq disk'[s].cmds
       /\ disk[s].revoked => disk'[s].revoked
       /\ Alike(visit'[s], disk'[s])
       /\ visit'[s].state = "none" <=> disk'[s].state = "none"
       /\ disk'[s].state = "none" <=> disk[s].state = "none"
       /\ disk'[s].state = "closed" => disk[s].complete
       /\ visit'[s].state = "closed" => disk[s].complete

\* How they treat its task, joins, worker and close.
SceneSoft(s) ==
    /\ task'[s].pc \in Early => task[s].pc \in Early
    /\ task'[s].pc = "none" => task[s].pc = "none"
    /\ worker'[s] = "none" \/ worker[s] # "none" \/ (up /\ task[s].pc = "activating")
    /\ \A d \in Devices : wake'[s][d] # "none" => wake[s][d] # "none" /\ task'[s].pc \in RunStages
    /\ clean'[s] = clean[s] \/ (AccountsFor(clean'[s], disk'[s]) /\ Driven(clean'[s]))

\* How they treat a closer, and a device.
CloserSoft(c) ==
    \/ c \notin Scenes
    \/ closer'[c].pc = "off"
    \/ closer[c].pc # "off"
    \/ visit[c].state # "none"

DeviceSoft(d) == body'[d] = body[d] \/ body'[d] = Idle

\* A soft step keeps what stands.
LEMMA SoftInv ==
    ASSUME SceneInv, SceneInv', StandInv, Bodied', UNCHANGED <<up, held, gone>>,
           \A s \in Scenes : RecordSoft(s) /\ SceneSoft(s),
           \A c \in Closers : CloserSoft(c),
           \A d \in Devices : DeviceSoft(d)
    PROVE  StandInv'
<1>1. ASSUME NEW s \in Scenes
      PROVE  /\ disk'[s].cmds = disk[s].cmds /\ disk'[s].ended = disk[s].ended
             /\ disk'[s].complete = disk[s].complete
             /\ disk[s].revoked => disk'[s].revoked
             /\ Unfinished(s)' <=> Unfinished(s)
             /\ visit[s].state # "none" => visit'[s].state # "none"
  BY DEF RecordSoft, Unfinished, Known, StandInv, Mirrored
<1>2. Apart'
  BY <1>1 DEF StandInv, Apart
<1>3. ASSUME NEW s \in Scenes
      PROVE  RecordFits(s)'
  <2>1. RecordFits(s) /\ RecordSoft(s)
    BY DEF StandInv
  <2>2. CASE disk'[s] = disk[s]
    BY <2>1, <2>2 DEF RecordFits, Restorable
  <2>3. CASE disk'[s] # disk[s]
    <3>1. disk[s].complete => disk[s].sess \subseteq disk[s].cmds /\ disk[s].ended = disk[s].cmds
      BY <2>1 DEF RecordFits, Restorable
    <3> QED
      BY <2>1, <2>3, <3>1 DEF RecordFits, Restorable, RecordSoft
  <2> QED
    BY <2>2, <2>3
<1>4. ASSUME NEW s \in Scenes
      PROVE  Mirrored(s)'
  BY <1>1 DEF StandInv, Mirrored, RecordSoft, SceneSoft, Alike
<1>5. ASSUME NEW s \in Scenes
      PROVE  Fresh(s)'
  BY <1>1 DEF StandInv, Fresh, SceneSoft
<1>6. ASSUME NEW s \in Scenes
      PROVE  Claimed(s)'
  <2>1. Claimed(s) /\ Fresh(s) /\ Mirrored(s)
    BY DEF StandInv
  <2>2. worker'[s] # "none" => Unfinished(s)
    <3>1. up /\ task[s].pc = "activating" => Unfinished(s)
      BY <2>1 DEF Fresh, Early, Mirrored, Unfinished, Known, SceneInv, RecordedLate
    <3> QED
      BY <2>1, <3>1 DEF Claimed, SceneSoft
  <2>3. \A d \in Devices : body'[d] = s => body[d] = s
    BY SceneAssumption DEF DeviceSoft
  <2> QED
    BY <1>1, <2>1, <2>2, <2>3 DEF Claimed
<1>7. ASSUME NEW s \in Scenes
      PROVE  WakesInRun(s)'
  BY <1>1 DEF StandInv, WakesInRun, SceneSoft
<1>8. ASSUME NEW s \in Scenes
      PROVE  AccountsFor(clean[s], disk[s])' /\ Driven(clean[s])'
  <2>1. CASE clean'[s] = clean[s]
    BY <1>1, <2>1 DEF StandInv, AccountsFor, Driven
  <2>2. CASE clean'[s] # clean[s]
    BY <1>1, <2>2 DEF SceneSoft, AccountsFor, Driven
  <2> QED
    BY <2>1, <2>2
<1>9. ASSUME NEW c \in Closers
      PROVE  OwnScene(c)'
  BY <1>1 DEF StandInv, OwnScene, CloserSoft
<1> QED
  BY <1>2, <1>3, <1>4, <1>5, <1>6, <1>7, <1>8, <1>9 DEF StandInv

\* Bodies and joins keep their types.
LEMMA NextBodied == ASSUME SceneInv, Bodied, [Next]_vars PROVE Bodied'
<1>1. CASE UNCHANGED <<body, wake>>
  BY <1>1 DEF Bodied
<1>2. ASSUME NEW s \in Scenes, TaskStep(s) PROVE Bodied'
  BY <1>2 DEF Bodied, TaskStep, Starts, Wakes, CheckFails, Activates, PreparationFails, Placed,
              PlacingFails, BecomesReady, ReceiptsFail, Stops, Recovers, CancelledEarly,
              CancelLands, Fails, LeavesRun
<1>3. ASSUME NEW s \in Scenes, CleanStep(s) PROVE Bodied'
  BY <1>3 DEF Bodied, CleanStep, Withdraws, Silent, QuiesceFails, Ended, EndUnconfirmed, LeftBy,
              EndsFail, FinalCheckpointFails, Completes, CleanInterrupted
<1>4. ASSUME NEW s \in Scenes, SceneStep(s) PROVE Bodied'
  BY <1>4 DEF Bodied, SceneStep, Opens, CloseAsked, PollFindsAbsent, WorkerPresents, WorkerEnds
<1>5. ASSUME NEW c \in Closers, CloserStep(c) PROVE Bodied'
  BY <1>5 DEF Bodied, CloserStep, Retires, Awaits, Locks, TriesAgain, ClientDone, HubDone
<1>6. ASSUME NEW d \in Devices, DeviceStep(d) PROVE Bodied'
  <2>1. CASE Leaves(d) \/ StartArrives(d) \/ HubAsks(d)
    BY <2>1 DEF Bodied, Leaves, StartArrives, HubAsks
  <2>2. ASSUME NEW s \in Scenes, JoinReaches(s, d) \/ StopArrives(s, d)
        PROVE  Bodied'
    BY <2>2 DEF Bodied, JoinReaches, StopArrives
  <2>3. ASSUME NEW s \in Scenes, NEW w \in {"ok", "failed"}, wake' = [wake EXCEPT ![s][d] = w],
               UNCHANGED body
        PROVE  Bodied'
    BY <2>3 DEF Bodied
  <2> QED
    BY <1>6, <2>1, <2>2, <2>3 DEF DeviceStep, JoinConfirmed, JoinFails
<1>7. CASE Crashes \/ Restarts
  BY <1>7 DEF Bodied, Crashes, Restarts
<1> QED
  BY <1>1, <1>2, <1>3, <1>4, <1>5, <1>6, <1>7 DEF Next, vars

-----------------------------------------------------------------------------
\* Only the state of a record changes, and the others are as they were.
LEMMA StateAlike ==
    ASSUME NEW v \in Visits, NEW x \in {"preparing", "ready", "failed", "closing", "closed"}
    PROVE  /\ [v EXCEPT !.state = x] \in Visits
           /\ [v EXCEPT !.state = x].state = x
           /\ Alike([v EXCEPT !.state = x], v)
BY DEF Visits, Alike

\* A step that writes a record like the one in memory, of a scene that exists.
LEMMA StateSoft ==
    ASSUME SceneInv, StandInv, up, NEW s \in Scenes, NEW w \in Visits,
           Noted(s, w) \/ Checkpointed(s, w),
           Alike(w, visit[s]), visit[s].state # "none", w.state # "none",
           w.state = "closed" => w.complete
    PROVE  \A r \in Scenes : RecordSoft(r)
<1>1. /\ visit'[s] = w /\ disk'[s] \in {disk[s], w}
      /\ \A r \in Scenes \ {s} : visit'[r] = visit[r] /\ disk'[r] = disk[r]
  BY Written DEF SceneInv
<1>2. RecordFits(s) /\ Mirrored(s)
  BY DEF StandInv
<1>3. RecordSoft(s)
  BY <1>1, <1>2 DEF RecordFits, Mirrored, RecordSoft, Alike
<1> QED
  BY <1>1, <1>3 DEF RecordSoft

\* A task that exists is of a scene that exists; so is a close.
LEMMA Exists ==
    ASSUME SceneInv, up, NEW s \in Scenes, task[s].pc # "none" \/ clean[s].stage # "none"
    PROVE  visit[s].state # "none"
BY DEF SceneInv, RecordedLate, ClosesAfterRun

\* A close begins with all that is still to be confirmed.
LEMMA BegunAccounts ==
    ASSUME StandInv, up, NEW s \in Scenes, NEW v, Alike(v, visit[s]), NEW by,
           Alike(disk'[s], v), by \in Closers /\ by \in Scenes => visit[by].state # "none"
    PROVE  AccountsFor(Begun(v, by), disk'[s]) /\ Driven(Begun(v, by))
<1>1. RecordFits(s) /\ Mirrored(s)
  BY DEF StandInv
<1>2. v.sess \subseteq v.cmds
  BY <1>1 DEF RecordFits, Mirrored, Alike
<1> QED
  BY <1>2 DEF Begun, AccountsFor, Alike, Driven

-----------------------------------------------------------------------------
\* Steps that leave the records, the joins, the closes and the devices.
LEMMA QuietSoft ==
    ASSUME UNCHANGED <<visit, disk, wake, clean>>,
           StandInv, \A s \in Scenes :
              /\ task'[s].pc = task[s].pc
              /\ worker'[s] = "none" \/ worker[s] # "none"
    PROVE  \A s \in Scenes : RecordSoft(s) /\ SceneSoft(s)
BY DEF RecordSoft, SceneSoft, StandInv, WakesInRun

\* The steps of run() but for the one that wakes the devices.
LEMMA RunStands ==
    ASSUME SceneInv, SceneInv', StandInv, Bodied', NEW s \in Scenes,
           Starts(s) \/ Activates(s) \/ Placed(s) \/ BecomesReady(s)
    PROVE  StandInv'
<1>1. /\ up /\ task[s].pc \in {"new", "waiting", "activating", "gathering"}
      /\ UNCHANGED <<up, wake, held, clean, closer, gone, body>>
  BY DEF Starts, Activates, Placed, BecomesReady, TaskGoes
<1>2. \A r \in Scenes : RecordSoft(r)
  <2>1. CASE BecomesReady(s)
    <3>1. visit[s] \in Visits /\ visit[s].state # "none"
      BY <1>1, Exists DEF SceneInv, Typed
    <3>2. /\ [visit[s] EXCEPT !.state = "ready"] \in Visits
          /\ [visit[s] EXCEPT !.state = "ready"].state = "ready"
          /\ Alike([visit[s] EXCEPT !.state = "ready"], visit[s])
      BY <3>1, StateAlike
    <3>3. Checkpointed(s, [visit[s] EXCEPT !.state = "ready"])
      BY <2>1 DEF BecomesReady
    <3> QED
      BY <1>1, <3>1, <3>2, <3>3, StateSoft
  <2>2. CASE ~BecomesReady(s)
    BY <2>2 DEF Starts, Activates, Placed, RecordSoft
  <2> QED
    BY <2>1, <2>2
<1>3. /\ \A r \in Scenes \ {s} : task'[r] = task[r] /\ worker'[r] = worker[r]
      /\ task'[s].pc \in Early \ {"none"}
      /\ task[s].pc \in RunStages => task'[s].pc \in RunStages
      /\ worker'[s] = worker[s] \/ task[s].pc = "activating"
  BY DEF Starts, Activates, Placed, BecomesReady, TaskGoes, At, SceneInv, Typed, Tasks, Early,
         RunStages
<1>4. \A r \in Scenes : SceneSoft(r)
  <2>1. SceneSoft(s)
    BY <1>1, <1>3 DEF SceneSoft, Early, StandInv, WakesInRun
  <2>2. \A r \in Scenes \ {s} : SceneSoft(r)
    BY <1>1, <1>3 DEF SceneSoft, StandInv, WakesInRun
  <2> QED
    BY <2>1, <2>2
<1> QED
  BY <1>1, <1>2, <1>4, SoftInv DEF CloserSoft, DeviceSoft

\* run() is left for the cleanup: no join is in flight any more.
LEMMA LeavesStands ==
    ASSUME SceneInv, SceneInv', StandInv, Bodied', NEW s \in Scenes, up, NEW w \in Visits, NEW v,
           Noted(s, w), Alike(w, visit[s]), visit[s].state # "none", w.state # "none",
           w.state # "closed", Alike(v, visit[s]),
           clean' = [clean EXCEPT ![s] = Begun(v, "task")],
           \A r \in Scenes : wake'[r] = wake[r] \/ (r = s /\ \A d \in Devices : wake'[r][d] = "none"),
           wake'[s] = wake[s] => task[s].pc = "recover",
           task'[s].pc = "clean", \A r \in Scenes \ {s} : task'[r] = task[r],
           \A r \in Scenes : worker'[r] = worker[r] \/ (r = s /\ task[s].pc = "activating"),
           UNCHANGED <<up, held, closer, gone, body>>
    PROVE  StandInv'
<1>1. \A r \in Scenes : RecordSoft(r)
  BY StateSoft
<1>2. Alike(disk'[s], v)
  BY DEF Noted, StandInv, Mirrored, Alike
<1>3. /\ AccountsFor(clean'[s], disk'[s]) /\ Driven(clean'[s])
      /\ \A r \in Scenes \ {s} : clean'[r] = clean[r]
  BY <1>2, BegunAccounts, SceneAssumption DEF SceneInv, Typed
<1>4. SceneSoft(s)
  BY <1>3 DEF SceneSoft, Early, RunStages, StandInv, WakesInRun
<1>5. \A r \in Scenes \ {s} : SceneSoft(r)
  BY <1>3 DEF SceneSoft, StandInv, WakesInRun
<1> QED
  BY <1>1, <1>4, <1>5, SoftInv DEF CloserSoft, DeviceSoft

\* What LeavesRun does, whoever it is for.
LEMMA LeavesRunStands ==
    ASSUME SceneInv, SceneInv', StandInv, Bodied', NEW s \in Scenes, up, NEW w \in Visits, NEW ws,
           LeavesRun(s, w, ws), Alike(w, visit[s]), task[s].pc # "none",
           w.state # "none", w.state # "closed",
           task'[s].pc = "clean", \A r \in Scenes \ {s} : task'[r] = task[r],
           ws = worker[s] \/ task[s].pc = "activating"
    PROVE  StandInv'
<1>1. /\ Noted(s, w) /\ clean' = [clean EXCEPT ![s] = Begun(w, "task")]
      /\ wake' = [wake EXCEPT ![s] = [d \in Devices |-> "none"]]
      /\ worker' = [worker EXCEPT ![s] = ws]
      /\ UNCHANGED <<up, held, closer, gone, body>>
  BY DEF LeavesRun
<1>2. \A r \in Scenes : wake'[r] = wake[r] \/ (r = s /\ \A d \in Devices : wake'[r][d] = "none")
  BY <1>1 DEF StandInv, Bodied
<1>3. \A r \in Scenes : worker'[r] = worker[r] \/ (r = s /\ task[s].pc = "activating")
  BY <1>1 DEF SceneInv, Typed
<1>4. visit[s].state # "none"
  BY Exists
<1>5. /\ clean'[s] = Begun(w, "task") /\ \A r \in Scenes \ {s} : clean'[r] = clean[r]
      /\ \A d \in Devices : wake'[s][d] = "none"
  BY <1>1 DEF SceneInv, Typed, StandInv, Bodied
<1>6. \A r \in Scenes : RecordSoft(r)
  BY <1>1, <1>4, StateSoft
<1>7. Alike(disk'[s], w)
  BY <1>1 DEF Noted, StandInv, Mirrored, Alike
<1>8. AccountsFor(clean'[s], disk'[s]) /\ Driven(clean'[s])
  BY <1>5, <1>7, BegunAccounts, SceneAssumption
<1>9. SceneSoft(s)
  BY <1>3, <1>5, <1>8 DEF SceneSoft, Early
<1>10. \A r \in Scenes \ {s} : SceneSoft(r)
  BY <1>2, <1>3, <1>5 DEF SceneSoft, StandInv, WakesInRun
<1> QED
  BY <1>1, <1>6, <1>9, <1>10, SoftInv DEF CloserSoft, DeviceSoft

\* run() fails, is stopped or is cancelled.
LEMMA RunEndsStand ==
    ASSUME SceneInv, SceneInv', StandInv, Bodied', NEW s \in Scenes,
           \/ CheckFails(s) \/ PreparationFails(s) \/ PlacingFails(s) \/ ReceiptsFail(s)
           \/ Stops(s) \/ CancelLands(s)
    PROVE  StandInv'
<1>1. visit[s] \in Visits
  BY DEF SceneInv, Typed
<1>2. \A x \in {"failed", "closing"} :
         /\ [visit[s] EXCEPT !.state = x] \in Visits
         /\ [visit[s] EXCEPT !.state = x].state = x
         /\ Alike([visit[s] EXCEPT !.state = x], visit[s])
  BY <1>1, StateAlike
<1>3. ASSUME NEW ws, Fails(s, ws), up, task[s].pc # "none",
             ws = worker[s] \/ task[s].pc = "activating"
      PROVE  StandInv'
  <2>1. LeavesRun(s, [visit[s] EXCEPT !.state = "failed"], ws)
    BY <1>3 DEF Fails
  <2>2. task'[s].pc = "clean" /\ \A r \in Scenes \ {s} : task'[r] = task[r]
    BY <1>3 DEF Fails, At, SceneInv, Typed, Tasks
  <2> QED
    BY <1>2, <1>3, <2>1, <2>2, LeavesRunStands
<1>4. CASE CheckFails(s) \/ PreparationFails(s) \/ PlacingFails(s) \/ ReceiptsFail(s)
  BY <1>3, <1>4 DEF CheckFails, PreparationFails, PlacingFails, ReceiptsFail, TaskGoes
<1>5. /\ Closing(visit[s]) \in Visits /\ Closing(visit[s]).state \in {"failed", "closing"}
      /\ Alike(Closing(visit[s]), visit[s])
  BY <1>1, <1>2 DEF Closing, Alike
<1>6. CASE Stops(s)
  <2>1. /\ up /\ task[s].pc = "ready" /\ LeavesRun(s, Closing(visit[s]), worker[s])
        /\ task'[s].pc = "clean" /\ \A r \in Scenes \ {s} : task'[r] = task[r]
    BY <1>6 DEF Stops, TaskGoes, At, SceneInv, Typed, Tasks
  <2> QED
    BY <1>5, <2>1, LeavesRunStands
<1>7. CASE CancelLands(s)
  <2>1. task'[s].pc = "clean" /\ \A r \in Scenes \ {s} : task'[r] = task[r]
    <3>1. task' = [task EXCEPT ![s] = [[task[s] EXCEPT !.pc = "clean"] EXCEPT !.cancelling = FALSE]]
      BY <1>7 DEF CancelLands, SceneInv, Typed
    <3>2. [[task[s] EXCEPT !.pc = "clean"] EXCEPT !.cancelling = FALSE].pc = "clean"
      BY DEF SceneInv, Typed, Tasks
    <3> QED
      BY <3>1, <3>2 DEF SceneInv, Typed
  <2>2. up /\ task[s].pc \in {"check", "waiting", "activating", "gathering", "ready"}
    BY <1>7 DEF CancelLands
  <2>3. PICK ws \in IF task[s].pc = "activating" THEN {"none", "starting"} ELSE {worker[s]} :
           LeavesRun(s, Closing(visit[s]), ws)
    BY <1>7 DEF CancelLands
  <2>4. ws = worker[s] \/ task[s].pc = "activating"
    BY <2>3
  <2> QED
    BY <1>5, <2>1, <2>2, <2>3, <2>4, LeavesRunStands
<1> QED
  BY <1>4, <1>6, <1>7

\* A recovered scene goes straight to its cleanup, unless it is cancelled first.
LEMMA RecoveryStands ==
    ASSUME SceneInv, SceneInv', StandInv, Bodied', NEW s \in Scenes,
           Recovers(s) \/ CancelledEarly(s)
    PROVE  StandInv'
<1>1. CASE Recovers(s)
  <2> DEFINE w == [visit[s] EXCEPT !.state = "closing"]
  <2>1. /\ up /\ task[s].pc = "recover" /\ visit[s] \in Visits
        /\ Noted(s, w) /\ clean' = [clean EXCEPT ![s] = Begun(visit[s], "task")]
        /\ UNCHANGED <<up, wake, held, closer, gone, body, worker>>
    BY <1>1 DEF Recovers, TaskGoes, SceneInv, Typed
  <2>2. w \in Visits /\ w.state = "closing" /\ Alike(w, visit[s])
    BY <2>1, StateAlike
  <2>3. visit[s].state # "none"
    BY <2>1, Exists
  <2>4. task'[s].pc = "clean" /\ \A r \in Scenes \ {s} : task'[r] = task[r]
    BY <1>1 DEF Recovers, At, SceneInv, Typed, Tasks
  <2>5. Alike(visit[s], visit[s])
    BY DEF Alike
  <2> HIDE DEF w
  <2> QED
    BY <2>1, <2>2, <2>3, <2>4, <2>5, LeavesStands
<1>2. CASE CancelledEarly(s)
  <2>1. /\ task'[s].pc = "done" /\ task[s].pc \in {"new", "recover"}
        /\ \A r \in Scenes \ {s} : task'[r] = task[r]
        /\ UNCHANGED <<up, visit, wake, held, clean, closer, disk, gone, body, worker>>
    BY <1>2 DEF CancelledEarly, At, SceneInv, Typed, Tasks
  <2>2. \A r \in Scenes : RecordSoft(r) /\ SceneSoft(r)
    BY <2>1 DEF RecordSoft, SceneSoft, StandInv, WakesInRun, RunStages, Early
  <2> QED
    BY <2>1, <2>2, SoftInv DEF CloserSoft, DeviceSoft
<1> QED
  BY <1>1, <1>2

-----------------------------------------------------------------------------
\* The close transaction, but for what it confirms of a device and for its end.

\* A step of a close on a scene whose task and joins stay as they are.
LEMMA CleanSoft ==
    ASSUME SceneInv, StandInv, NEW s \in Scenes,
           \A r \in Scenes : worker'[r] = "none" \/ worker[r] # "none",
           \A r \in Scenes \ {s} : clean'[r] = clean[r],
           AccountsFor(clean'[s], disk'[s]), Driven(clean'[s]),
           UNCHANGED wake, \A r \in Scenes \ {s} : task'[r] = task[r],
           task'[s].pc \in {task[s].pc, "done"}, task[s].pc \in {"clean", "done"}
    PROVE  \A r \in Scenes : SceneSoft(r)
BY DEF SceneSoft, StandInv, WakesInRun, RunStages, Early

\* The dispatch is withdrawn, and then its silence is confirmed.
LEMMA QuiesceStands ==
    ASSUME SceneInv, SceneInv', StandInv, Bodied', NEW s \in Scenes, Withdraws(s) \/ Silent(s)
    PROVE  StandInv'
<1>1. /\ up /\ clean[s].stage \in {"withdraw", "silence"}
      /\ UNCHANGED <<up, task, wake, held, closer, gone, body>>
  BY DEF Withdraws, Silent, InStage
<1>2. task[s].pc \in {"clean", "done"} /\ visit[s].state # "none"
  BY <1>1, Exists DEF SceneInv, ClosesAfterRun
<1>3. RecordFits(s) /\ Mirrored(s) /\ AccountsFor(clean[s], disk[s]) /\ Driven(clean[s])
  BY DEF StandInv
<1>4. CASE Withdraws(s)
  <2>1. /\ clean'[s].stage = "silence" /\ clean'[s].waiting = clean[s].waiting
        /\ clean'[s].bad = clean[s].bad /\ clean'[s].by = clean[s].by
        /\ UNCHANGED <<visit, disk>>
        /\ \A r \in Scenes \ {s} : clean'[r] = clean[r]
        /\ \A r \in Scenes : worker'[r] = "none" \/ worker[r] # "none"
    BY <1>4 DEF Withdraws, SceneInv, Typed, Cleans
  <2>2. AccountsFor(clean'[s], disk'[s]) /\ Driven(clean'[s])
    BY <1>1, <1>3, <2>1 DEF AccountsFor, Driven
  <2>3. \A r \in Scenes : RecordSoft(r) /\ SceneSoft(r)
    BY <1>1, <1>2, <2>1, <2>2, CleanSoft DEF RecordSoft
  <2> QED
    BY <1>1, <2>3, SoftInv DEF CloserSoft, DeviceSoft
<1>5. CASE Silent(s)
  <2> DEFINE v == [visit[s] EXCEPT !.revoked = TRUE]
  <2>0. visit[s] \in Visits
    BY DEF SceneInv, Typed
  <2>1. /\ v \in Visits /\ v.revoked = TRUE /\ v.state = visit[s].state /\ v.cmds = visit[s].cmds
        /\ v.sess = visit[s].sess /\ v.ended = visit[s].ended /\ v.complete = visit[s].complete
    BY <2>0 DEF Visits
  <2>2. Checkpointed(s, v) /\ UNCHANGED worker
    BY <1>5 DEF Silent
  <2> HIDE DEF v
  <2>3. /\ visit'[s] = v /\ disk'[s] = v
        /\ \A r \in Scenes \ {s} : visit'[r] = visit[r] /\ disk'[r] = disk[r]
    BY <2>1, <2>2 DEF Checkpointed, SceneInv, Typed
  <2>4. \A r \in Scenes : RecordSoft(r)
    <3>1. RecordSoft(s)
      BY <1>1, <1>2, <1>3, <2>1, <2>3 DEF RecordSoft, RecordFits, Mirrored, Alike
    <3> QED
      BY <2>3, <3>1 DEF RecordSoft
  <2>5. /\ clean'[s].stage = "ends" /\ clean'[s].waiting = clean[s].waiting
        /\ clean'[s].bad = clean[s].bad /\ clean'[s].by = clean[s].by
        /\ \A r \in Scenes \ {s} : clean'[r] = clean[r]
    BY <1>5 DEF Silent, SceneInv, Typed, Cleans
  <2>6. AccountsFor(clean'[s], disk'[s]) /\ Driven(clean'[s])
    BY <1>1, <1>3, <2>1, <2>3, <2>5 DEF AccountsFor, Mirrored, Alike, Driven
  <2> QED
    BY <1>1, <1>2, <2>2, <2>4, <2>5, <2>6, CleanSoft, SoftInv DEF CloserSoft, DeviceSoft
<1> QED
  BY <1>4, <1>5

\* A device does not confirm: the close has heard a failure.
LEMMA UnconfirmedStands ==
    ASSUME SceneInv, SceneInv', StandInv, Bodied', NEW s \in Scenes, NEW d \in Devices,
           EndUnconfirmed(s, d)
    PROVE  StandInv'
<1>1. /\ up /\ clean[s].stage = "ends"
      /\ UNCHANGED <<up, visit, disk, task, wake, held, closer, gone, worker>>
  BY DEF EndUnconfirmed, InStage
<1>2. /\ clean'[s].stage = "ends" /\ clean'[s].waiting \subseteq clean[s].waiting
      /\ clean'[s].bad /\ clean'[s].by = clean[s].by
      /\ \A r \in Scenes \ {s} : clean'[r] = clean[r]
  <2> DEFINE k == [clean[s] EXCEPT !.waiting = clean[s].waiting \ {d}]
  <2>1. /\ k \in Cleans /\ k.stage = clean[s].stage /\ k.by = clean[s].by
        /\ k.waiting \subseteq clean[s].waiting
    BY DEF SceneInv, Typed, Cleans
  <2>2. clean' = [clean EXCEPT ![s] = [k EXCEPT !.bad = TRUE]]
    BY DEF EndUnconfirmed, SceneInv, Typed
  <2>3. /\ [k EXCEPT !.bad = TRUE].stage = k.stage /\ [k EXCEPT !.bad = TRUE].waiting = k.waiting
        /\ [k EXCEPT !.bad = TRUE].bad /\ [k EXCEPT !.bad = TRUE].by = k.by
    BY <2>1 DEF Cleans
  <2> HIDE DEF k
  <2> QED
    BY <1>1, <2>1, <2>2, <2>3 DEF SceneInv, Typed
<1>3. AccountsFor(clean'[s], disk'[s]) /\ Driven(clean'[s])
  BY <1>1, <1>2 DEF AccountsFor, StandInv, Driven
<1>4. \A e \in Devices : DeviceSoft(e)
  BY DEF EndUnconfirmed, LeftBy, DeviceSoft, StandInv, Bodied
<1>5. task[s].pc \in {"clean", "done"}
  BY <1>1 DEF SceneInv, ClosesAfterRun
<1>6. \A r \in Scenes : SceneSoft(r)
  BY <1>1, <1>2, <1>3, <1>5, CleanSoft
<1> QED
  BY <1>1, <1>4, <1>6, SoftInv DEF CloserSoft, RecordSoft

\* A closer that gives up asked for a scene that exists.
LEMMA GivesUpSoft ==
    ASSUME SceneInv, NEW c, GivesUp(c),
           c \in Closers /\ c \in Scenes => visit[c].state # "none"
    PROVE  \A b \in Closers : CloserSoft(b)
<1>1. \A b \in Closers : b # c => closer'[b] = closer[b]
  BY DEF GivesUp, SceneInv, Typed
<1> QED
  BY <1>1 DEF CloserSoft

\* A close that fails records so, and is retried or given up.
LEMMA CleanFailsStand ==
    ASSUME SceneInv, SceneInv', StandInv, Bodied', NEW s \in Scenes, up,
           clean[s].stage # "none" \/ clean[s].by = "task",
           CleanFails(s, visit[s]), UNCHANGED <<up, wake, held, gone, body, worker>>
    PROVE  StandInv'
<1> DEFINE failed == [visit[s] EXCEPT !.state = "failed"]
           by == clean[s].by
<1>1. clean[s].stage # "none" /\ Driven(clean[s])
  BY DEF StandInv, Driven
<1>2. task[s].pc \in {"clean", "done"} /\ visit[s].state # "none"
  BY <1>1, Exists DEF SceneInv, ClosesAfterRun
<1>3. visit[s] \in Visits
  BY DEF SceneInv, Typed
<1>4. failed \in Visits /\ failed.state = "failed" /\ Alike(failed, visit[s])
  BY <1>3, StateAlike
<1>5. clean' = [clean EXCEPT ![s] = NoClean]
  BY DEF CleanFails
<1>6. /\ AccountsFor(clean'[s], disk'[s]) /\ Driven(clean'[s])
      /\ \A r \in Scenes \ {s} : clean'[r] = clean[r]
  BY <1>5, SceneAssumption DEF NoClean, AccountsFor, Driven, SceneInv, Typed
<1>7. CASE by = "task"
  <2>1. /\ Checkpointed(s, failed) /\ UNCHANGED closer
        /\ task' = [task EXCEPT ![s].pc = "done", ![s].broke = ~task[s].cancelling]
    BY <1>7 DEF CleanFails
  <2>2. task'[s].pc = "done" /\ \A r \in Scenes \ {s} : task'[r] = task[r]
    <3> DEFINE k == [task[s] EXCEPT !.pc = "done"]
    <3>1. k \in Tasks /\ k.pc = "done"
      BY DEF SceneInv, Typed, Tasks
    <3>2. task' = [task EXCEPT ![s] = [k EXCEPT !.broke = ~task[s].cancelling]]
      BY <2>1 DEF SceneInv, Typed
    <3>3. [k EXCEPT !.broke = ~task[s].cancelling].pc = "done"
      BY <3>1 DEF Tasks
    <3> HIDE DEF k
    <3> QED
      BY <3>2, <3>3 DEF SceneInv, Typed
  <2> HIDE DEF failed
  <2>3. \A r \in Scenes : RecordSoft(r)
    BY <1>2, <1>4, <2>1, StateSoft
  <2>4. \A r \in Scenes : SceneSoft(r)
    BY <1>2, <1>6, <2>2, CleanSoft
  <2> QED
    BY <2>1, <2>3, <2>4, SoftInv DEF CloserSoft, DeviceSoft
<1>8. CASE by # "task"
  <2>1. Checkpointed(s, Refused(by, failed)) /\ GivesUp(by) /\ UNCHANGED task
    BY <1>8 DEF CleanFails
  <2> HIDE DEF failed
  <2>2. /\ Refused(by, failed) \in Visits /\ Refused(by, failed).state \in {"failed", "closing"}
        /\ Alike(Refused(by, failed), visit[s])
    <3>1. /\ [failed EXCEPT !.state = "closing"] \in Visits
          /\ [failed EXCEPT !.state = "closing"].state = "closing"
          /\ Alike([failed EXCEPT !.state = "closing"], failed)
      BY <1>4, StateAlike
    <3>2. Alike([failed EXCEPT !.state = "closing"], visit[s])
      BY <1>4, <3>1 DEF Alike
    <3> QED
      BY <1>4, <3>1, <3>2 DEF Refused
  <2> HIDE DEF by
  <2>3. \A r \in Scenes : RecordSoft(r)
    BY <1>2, <2>1, <2>2, StateSoft
  <2>4. \A r \in Scenes : SceneSoft(r)
    BY <1>2, <1>6, <2>1, CleanSoft
  <2>5. \A c \in Closers : CloserSoft(c)
    BY <1>1, <2>1, GivesUpSoft DEF Driven, by
  <2> QED
    BY <2>3, <2>4, <2>5, SoftInv DEF DeviceSoft
<1> QED
  BY <1>7, <1>8

\* The ways in which a close fails.
LEMMA FailuresStand ==
    ASSUME SceneInv, SceneInv', StandInv, Bodied', NEW s \in Scenes,
           QuiesceFails(s) \/ EndsFail(s) \/ FinalCheckpointFails(s) \/ CleanInterrupted(s)
    PROVE  StandInv'
<1>1. /\ up /\ CleanFails(s, visit[s]) /\ UNCHANGED <<up, wake, held, gone, body, worker>>
      /\ clean[s].stage # "none" \/ clean[s].by = "task"
  BY DEF QuiesceFails, EndsFail, FinalCheckpointFails, CleanInterrupted, AllAnswered, InStage
<1> QED
  BY <1>1, CleanFailsStand

-----------------------------------------------------------------------------
\* Those who have a scene closed.  A scene with nothing reserved is complete.
LEMMA NothingReserved ==
    ASSUME StandInv, up, NEW s \in Scenes, visit[s].state # "none", ~Reserves(s)
    PROVE  disk[s].complete
<1>1. Claimed(s) /\ Mirrored(s)
  BY DEF StandInv
<1>2. PICK d \in Endpoints[s] : TRUE
  BY SceneAssumption
<1>3. d \in Devices /\ held[d] # s
  BY <1>2, SceneAssumption DEF Reserves
<1> QED
  BY <1>1, <1>2, <1>3 DEF Claimed, Mirrored, Unfinished, Known

\* A step of a closer that leaves the closes, the joins, the workers and the devices.
LEMMA CloserSteps ==
    ASSUME SceneInv, SceneInv', StandInv, Bodied',
           \A s \in Scenes : RecordSoft(s), \A s \in Scenes : task'[s].pc = task[s].pc,
           \A c \in Closers : CloserSoft(c),
           UNCHANGED <<up, wake, clean, held, gone, worker>>, \A d \in Devices : DeviceSoft(d)
    PROVE  StandInv'
<1>1. \A s \in Scenes : SceneSoft(s)
  BY DEF SceneSoft, StandInv, WakesInRun
<1> QED
  BY <1>1, SoftInv

\* A record gets another state, and nothing is left out of what else it was.
LEMMA Restated ==
    ASSUME SceneInv, StandInv, up, NEW s \in Scenes, visit[s].state # "none",
           NEW x \in {"preparing", "ready", "failed", "closing", "closed"},
           Checkpointed(s, [visit[s] EXCEPT !.state = x]), x = "closed" => disk[s].complete
    PROVE  \A r \in Scenes : RecordSoft(r)
<1> DEFINE w == [visit[s] EXCEPT !.state = x]
<1>1. visit[s] \in Visits /\ Mirrored(s)
  BY DEF SceneInv, Typed, StandInv
<1>2. w \in Visits /\ w.state = x /\ Alike(w, visit[s])
  BY <1>1, StateAlike
<1>3. Checkpointed(s, w)
  OBVIOUS
<1> HIDE DEF w
<1>4. w.state = "closed" => w.complete
  BY <1>1, <1>2 DEF Mirrored, Alike
<1> QED
  BY <1>2, <1>3, <1>4, StateSoft

\* Closes are asked for, of a scene by its client and of a device by the Hub.
LEMMA AsksStand ==
    ASSUME SceneInv, SceneInv', StandInv, Bodied', NEW s, NEW d,
           (s \in Scenes /\ CloseAsked(s)) \/ (d \in Devices /\ HubAsks(d))
    PROVE  StandInv'
<1>1. CASE s \in Scenes /\ CloseAsked(s)
  <2>1. up /\ visit[s].state # "none" /\ UNCHANGED <<up, task, wake, held, clean, gone, body, worker>>
    BY <1>1 DEF CloseAsked
  <2>2. \A r \in Scenes : RecordSoft(r)
    <3>1. CASE s \in Teams
      BY <1>1, <2>1, <3>1, Restated DEF CloseAsked
    <3>2. CASE s \notin Teams
      BY <1>1, <3>2 DEF CloseAsked, RecordSoft
    <3> QED
      BY <3>1, <3>2
  <2>3. \A c \in Closers : CloserSoft(c)
    <3>1. \A c \in Closers : c # s => closer'[c] = closer[c]
      BY <1>1 DEF CloseAsked, SceneInv, Typed
    <3> QED
      BY <2>1, <3>1 DEF CloserSoft
  <2> QED
    BY <2>1, <2>2, <2>3, CloserSteps DEF DeviceSoft
<1>2. CASE d \in Devices /\ HubAsks(d)
  <2>1. UNCHANGED <<up, visit, disk, task, wake, held, clean, gone, body, worker>>
    BY <1>2 DEF HubAsks
  <2>2. \A c \in Closers : c # d => closer'[c] = closer[c]
    BY <1>2 DEF HubAsks, SceneInv, Typed
  <2>3. \A c \in Closers : CloserSoft(c)
    BY <1>2, <2>2, SceneAssumption DEF CloserSoft
  <2> QED
    BY <2>1, <2>3, CloserSteps DEF DeviceSoft, RecordSoft
<1> QED
  BY <1>1, <1>2

\* A closer that moves on is one that was there.
LEMMA MovesOnSoft ==
    ASSUME SceneInv, StandInv, NEW c \in Closers, NEW pc, CloserAt(c, pc), closer[c].pc # "off"
    PROVE  \A b \in Closers : CloserSoft(b)
<1>1. \A b \in Closers : b # c => closer'[b] = closer[b]
  BY DEF CloserAt, SceneInv, Typed
<1> QED
  BY <1>1 DEF CloserSoft

\* The retirement: the task is cancelled, awaited and judged.
LEMMA RetirementStands ==
    ASSUME SceneInv, SceneInv', StandInv, Bodied', NEW c \in Closers,
           Retires(c) \/ Awaits(c) \/ TriesAgain(c)
    PROVE  StandInv'
<1>1. /\ up /\ closer[c].pc \in {"retire", "await", "sleep"}
      /\ UNCHANGED <<up, wake, held, clean, gone, body, worker>>
  BY DEF Retires, Awaits, TriesAgain
<1>2. \A s \in Scenes : task'[s].pc = task[s].pc
  BY DEF Retires, Awaits, TriesAgain, SceneInv, Typed, Tasks
<1>3. ASSUME UNCHANGED <<visit, disk>>, NEW pc, CloserAt(c, pc)
      PROVE  StandInv'
  BY <1>1, <1>2, <1>3, MovesOnSoft, CloserSteps DEF RecordSoft, DeviceSoft
<1>4. CASE Awaits(c) /\ task[closer[c].scene].broke
  <2> DEFINE s == closer[c].scene
  <2>1. \A b \in Closers : CloserSoft(b)
    BY <1>1, <1>4, GivesUpSoft DEF Awaits, StandInv, OwnScene
  <2>2. \A r \in Scenes : RecordSoft(r)
    <3>1. CASE ~Retries(c)
      BY <1>4, <3>1 DEF Awaits, RecordSoft
    <3>2. CASE Retries(c) /\ s \notin Scenes
      BY <1>4, <3>2 DEF Awaits, RecordSoft, Checkpointed, SceneInv, Typed
    <3>3. CASE Retries(c) /\ s \in Scenes
      <4>1. Checkpointed(s, [visit[s] EXCEPT !.state = "closing"]) /\ task[s].pc = "done"
        BY <1>4, <3>3 DEF Awaits, Refused
      <4>2. visit[s].state # "none"
        BY <1>1, <3>3, <4>1, Exists
      <4> QED
        BY <1>1, <3>3, <4>1, <4>2, Restated
    <3> QED
      BY <3>1, <3>2, <3>3
  <2> QED
    BY <1>1, <1>2, <2>1, <2>2, CloserSteps DEF DeviceSoft
<1>5. CASE Retires(c)
  <2>1. UNCHANGED <<visit, disk>> /\ (CloserAt(c, "lock") \/ CloserAt(c, "await"))
    BY <1>5 DEF Retires
  <2> QED
    BY <1>3, <2>1
<1>6. CASE Awaits(c) /\ ~task[closer[c].scene].broke
  <2>1. UNCHANGED <<visit, disk>> /\ CloserAt(c, IF Stands(c) THEN "lock" ELSE Onward(c))
    BY <1>6 DEF Awaits
  <2> QED
    BY <1>3, <2>1
<1>7. CASE TriesAgain(c)
  <2>1. UNCHANGED <<visit, disk>> /\ CloserAt(c, "retire")
    BY <1>7 DEF TriesAgain
  <2> QED
    BY <1>3, <2>1
<1> QED
  BY <1>4, <1>5, <1>6, <1>7

\* A closer takes the lock, and begins with all that is still to be confirmed.
LEMMA LocksStand ==
    ASSUME SceneInv, SceneInv', StandInv, Bodied', NEW c \in Closers, Locks(c)
    PROVE  StandInv'
<1> DEFINE s == closer[c].scene
<1>1. /\ up /\ closer[c].pc = "lock" /\ CloserAt(c, "clean")
      /\ clean' = [clean EXCEPT ![s] = Begun(visit[s], c)]
      /\ UNCHANGED <<up, visit, disk, task, wake, held, gone, body, worker>>
  BY DEF Locks
<1>2. \A b \in Closers : CloserSoft(b)
  BY <1>1, MovesOnSoft
<1>3. CASE s \notin Scenes
  <2>1. clean' = clean
    BY <1>1, <1>3 DEF SceneInv, Typed
  <2> QED
    BY <1>1, <1>2, <2>1, CloserSteps DEF DeviceSoft, RecordSoft
<1>4. CASE s \in Scenes
  <2>1. task[s].pc = "done"
    BY <1>1, <1>4 DEF SceneInv, ClosesAfterRun
  <2>2. clean'[s] = Begun(visit[s], c) /\ \A r \in Scenes \ {s} : clean'[r] = clean[r]
    BY <1>1, <1>4 DEF SceneInv, Typed
  <2>3. c \in Scenes => visit[c].state # "none"
    BY <1>1 DEF StandInv, OwnScene
  <2>4. Alike(visit[s], visit[s]) /\ Alike(disk'[s], visit[s])
    BY <1>1, <1>4 DEF StandInv, Mirrored, Alike
  <2>5. AccountsFor(clean'[s], disk'[s]) /\ Driven(clean'[s])
    BY <1>1, <1>4, <2>2, <2>3, <2>4, BegunAccounts
  <2> HIDE DEF s
  <2>6. \A r \in Scenes : SceneSoft(r)
    BY <1>1, <1>4, <2>1, <2>2, <2>5, CleanSoft
  <2> QED
    BY <1>1, <1>2, <2>6, SoftInv DEF DeviceSoft, RecordSoft
<1> QED
  BY <1>3, <1>4

\* The client's close is done when nothing of the scene is reserved.
LEMMA ClientStands ==
    ASSUME SceneInv, SceneInv', StandInv, Bodied', NEW s \in Closers, s \in Scenes, ClientDone(s)
    PROVE  StandInv'
<1>1. /\ up /\ closer[s].pc = "retire" /\ ~Stands(s)
      /\ Checkpointed(s, [visit[s] EXCEPT !.state = "closed"])
      /\ closer' = [closer EXCEPT ![s] = NoClose]
      /\ UNCHANGED <<up, task, wake, held, clean, gone, body, worker>>
  BY DEF ClientDone
<1>2. visit[s].state # "none"
  BY <1>1 DEF StandInv, OwnScene
<1>3. disk[s].complete
  BY <1>1, <1>2, NothingReserved, SceneAssumption DEF Stands
<1>4. \A r \in Scenes : RecordSoft(r)
  BY <1>1, <1>2, <1>3, Restated
<1>5. \A c \in Closers : CloserSoft(c)
  BY <1>1 DEF NoClose, CloserSoft, SceneInv, Typed
<1> QED
  BY <1>1, <1>4, <1>5, CloserSteps DEF DeviceSoft

\* The Hub's operation on a device that nothing reserves any more.
LEMMA HubStands ==
    ASSUME SceneInv, SceneInv', StandInv, Bodied', NEW d \in Closers, d \in Devices, HubDone(d)
    PROVE  StandInv'
<1>1. /\ up /\ closer' = [closer EXCEPT ![d] = NoClose]
      /\ UNCHANGED <<up, visit, task, wake, held, clean, disk, worker>>
  BY DEF HubDone
<1>2. \A c \in Closers : CloserSoft(c)
  BY <1>1 DEF NoClose, CloserSoft, SceneInv, Typed
<1>3. CASE held[d] # NoScene
  <2>1. UNCHANGED <<gone, body>>
    BY <1>3 DEF HubDone
  <2> QED
    BY <1>1, <1>2, <2>1, CloserSteps DEF DeviceSoft, RecordSoft
<1>4. CASE held[d] = NoScene
  <2>1. gone' = gone \cup {d} /\ body' = [body EXCEPT ![d] = Idle]
    BY <1>4 DEF HubDone
  <2>2. \A s \in Scenes : Unfinished(s) => d \notin Endpoints[s]
    BY <1>1, <1>4, SceneAssumption DEF StandInv, Claimed
  <2>3. \A s \in Scenes : Claimed(s)'
    BY <1>1, <2>1, <2>2, SceneAssumption DEF StandInv, Claimed, Bodied, Unfinished, Known
  <2>4. Apart'
    BY <1>1 DEF StandInv, Apart, Unfinished, Known
  <2>5. \A s \in Scenes : RecordFits(s)' /\ Mirrored(s)' /\ Fresh(s)' /\ WakesInRun(s)'
    BY <1>1 DEF StandInv, RecordFits, Restorable, Mirrored, Fresh, WakesInRun
  <2>6. \A s \in Scenes : AccountsFor(clean[s], disk[s])' /\ Driven(clean[s])'
    BY <1>1 DEF StandInv, AccountsFor, Driven
  <2>7. \A c \in Closers : OwnScene(c)'
    BY <1>1, <1>2 DEF StandInv, OwnScene, CloserSoft
  <2> QED
    BY <2>3, <2>4, <2>5, <2>6, <2>7 DEF StandInv
<1> QED
  BY <1>3, <1>4

\* A client that reads the scene has it closed when a device is off its channel.
LEMMA PollStands ==
    ASSUME SceneInv, SceneInv', StandInv, Bodied', NEW s \in Scenes, PollFindsAbsent(s)
    PROVE  StandInv'
<1>1. /\ up /\ visit[s].state = "ready"
      /\ Checkpointed(s, [visit[s] EXCEPT !.state = "closing"])
      /\ UNCHANGED <<up, wake, held, clean, closer, gone, body, worker>>
  BY DEF PollFindsAbsent
<1>2. \A r \in Scenes : task'[r].pc = task[r].pc
  BY DEF PollFindsAbsent, SceneInv, Typed, Tasks
<1>3. \A r \in Scenes : RecordSoft(r)
  BY <1>1, Restated
<1> QED
  BY <1>1, <1>2, <1>3, CloserSteps DEF CloserSoft, DeviceSoft

-----------------------------------------------------------------------------
\* Devices and workers.  A start that is admitted is of a device that was commanded.
LEMMA StartStands ==
    ASSUME SceneInv, SceneInv', StandInv, Bodied', NEW d \in Devices, StartArrives(d)
    PROVE  StandInv'
<1> DEFINE s == asked[d]
           w == [visit[s] EXCEPT !.sess = @ \cup {d}]
<1>1. up /\ s # NoScene /\ UNCHANGED <<up, task, wake, held, clean, closer, gone, body, worker>>
  BY DEF StartArrives
<1>2. \A r \in Scenes : RecordSoft(r)
  <2>1. CASE UNCHANGED <<visit, disk>>
    BY <2>1 DEF RecordSoft
  <2>2. CASE held[d] = s /\ d \in visit[s].cmds /\ visit[s].state = "preparing" /\ Checkpointed(s, w)
    <3>1. s \in Scenes /\ visit[s] \in Visits
      BY <1>1, <2>2 DEF SceneInv, Typed
    <3>2. /\ w \in Visits /\ w.sess = visit[s].sess \cup {d} /\ w.cmds = visit[s].cmds
          /\ w.state = visit[s].state /\ w.ended = visit[s].ended /\ w.revoked = visit[s].revoked
          /\ w.complete = visit[s].complete
      BY <3>1 DEF Visits
    <3>3. Checkpointed(s, w)
      BY <2>2
    <3>4. RecordFits(s) /\ Mirrored(s)
      BY <3>1 DEF StandInv
    <3> HIDE DEF w, s
    <3>5. /\ visit'[s] = w /\ disk'[s] = w
          /\ \A r \in Scenes \ {s} : visit'[r] = visit[r] /\ disk'[r] = disk[r]
      BY <3>1, <3>2, <3>3 DEF Checkpointed, SceneInv, Typed
    <3>6. RecordSoft(s)
      BY <1>1, <2>2, <3>2, <3>4, <3>5 DEF RecordSoft, RecordFits, Mirrored, Alike
    <3> QED
      BY <3>5, <3>6 DEF RecordSoft
  <2> QED
    BY <2>1, <2>2 DEF StartArrives
<1> QED
  BY <1>1, <1>2, CloserSteps DEF CloserSoft, DeviceSoft

\* Devices leave, ask to stop, and receipts come in or not.
LEMMA DevicesStand ==
    ASSUME SceneInv, SceneInv', StandInv, Bodied', NEW d \in Devices,
           \/ Leaves(d)
           \/ \E s \in Scenes : StopArrives(s, d) \/ JoinConfirmed(s, d) \/ JoinFails(s, d)
    PROVE  StandInv'
<1>1. UNCHANGED <<up, visit, held, clean, closer, disk, gone, worker>>
  BY DEF Leaves, StopArrives, JoinConfirmed, JoinFails
<1>2. \A e \in Devices : DeviceSoft(e)
  BY DEF Leaves, StopArrives, JoinConfirmed, JoinFails, DeviceSoft, StandInv, Bodied
<1>3. \A r \in Scenes : task'[r].pc = task[r].pc
  BY DEF Leaves, StopArrives, JoinConfirmed, JoinFails, SceneInv, Typed, Tasks
<1>4. \A r \in Scenes : \A e \in Devices : wake'[r][e] # "none" => wake[r][e] # "none"
  <2>1. CASE UNCHANGED wake
    BY <2>1
  <2>2. ASSUME NEW s \in Scenes, NEW x, wake[s][d] = "sent", wake' = [wake EXCEPT ![s][d] = x]
        PROVE  \A r \in Scenes : \A e \in Devices : wake'[r][e] # "none" => wake[r][e] # "none"
    BY <2>2 DEF StandInv, Bodied
  <2> QED
    BY <2>1, <2>2 DEF Leaves, StopArrives, JoinConfirmed, JoinFails
<1>5. \A r \in Scenes : SceneSoft(r)
  BY <1>1, <1>3, <1>4 DEF SceneSoft, StandInv, WakesInRun
<1> QED
  BY <1>1, <1>2, <1>5, SoftInv DEF RecordSoft, CloserSoft

\* A worker that was placed presents, and ends.
LEMMA WorkersStand ==
    ASSUME SceneInv, SceneInv', StandInv, Bodied', NEW s \in Scenes,
           WorkerPresents(s) \/ WorkerEnds(s)
    PROVE  StandInv'
<1>1. UNCHANGED <<up, visit, wake, held, clean, closer, disk, gone, body>>
  BY DEF WorkerPresents, WorkerEnds
<1>2. \A r \in Scenes : task'[r].pc = task[r].pc
  BY DEF WorkerPresents, WorkerEnds, SceneInv, Typed, Tasks
<1>3. \A r \in Scenes : worker'[r] = "none" \/ worker[r] # "none"
  BY DEF WorkerPresents, WorkerEnds, SceneInv, Typed
<1>4. \A r \in Scenes : RecordSoft(r) /\ SceneSoft(r)
  BY <1>1, <1>2, <1>3, QuietSoft
<1> QED
  BY <1>1, <1>4, SoftInv DEF CloserSoft, DeviceSoft

-----------------------------------------------------------------------------
(* The steps that change what stands for a scene: it is opened, its devices   *)
(* are woken, join, and confirm their end; it is complete; the process dies   *)
(* and recovers.                                                              *)

\* What a scene keeps when a step is about another.
Untouched(r) ==
    /\ visit'[r] = visit[r] /\ disk'[r] = disk[r] /\ task'[r] = task[r]
    /\ wake'[r] = wake[r] /\ clean'[r] = clean[r] /\ worker'[r] = worker[r]

StandsFor(s) ==
    /\ RecordFits(s) /\ Mirrored(s) /\ Fresh(s) /\ WakesInRun(s)
    /\ AccountsFor(clean[s], disk[s])

\* All but its claim on devices stands for it as before.
LEMMA OthersStand ==
    ASSUME StandInv, UNCHANGED up, NEW r \in Scenes, Untouched(r)
    PROVE  StandsFor(r)' /\ (Unfinished(r)' <=> Unfinished(r))
<1>1. StandsFor(r)
  BY DEF StandInv, StandsFor
<1>2. RecordFits(r)' /\ Mirrored(r)' /\ Fresh(r)'
  BY <1>1 DEF StandsFor, Untouched, RecordFits, Restorable, Mirrored, Fresh
<1>3. WakesInRun(r)' /\ AccountsFor(clean[r], disk[r])'
  BY <1>1 DEF StandsFor, Untouched, WakesInRun, AccountsFor
<1> QED
  BY <1>2, <1>3 DEF StandsFor, Untouched, Unfinished, Known

\* Drivers and clients go on, as long as no scene ceases to exist.
LEMMA DriversStand ==
    ASSUME StandInv, \A s \in Scenes : visit[s].state # "none" => visit'[s].state # "none",
           \A s \in Scenes : Driven(clean'[s]), \A c \in Closers : CloserSoft(c)
    PROVE  /\ \A s \in Scenes : Driven(clean[s])'
           /\ \A c \in Closers : OwnScene(c)'
<1>1. \A s \in Scenes : Driven(clean[s])'
  BY DEF Driven
<1>2. \A c \in Closers : OwnScene(c)'
  BY DEF StandInv, OwnScene, CloserSoft
<1> QED
  BY <1>1, <1>2

\* A scene is opened: its devices are reserved and its record is written.
LEMMA OpensStand ==
    ASSUME SceneInv, SceneInv', StandInv, Bodied', NEW s \in Scenes, Opens(s)
    PROVE  StandInv'
<1> DEFINE v == [NoVisit EXCEPT !.state = "preparing"]
<1>1. /\ up /\ task[s].pc = "none" /\ \A d \in Endpoints[s] : held[d] = NoScene /\ d \notin gone
      /\ Checkpointed(s, v)
      /\ held' = [d \in Devices |-> IF d \in Endpoints[s] THEN s ELSE held[d]]
      /\ UNCHANGED <<up, wake, clean, closer, gone, body, worker>>
  BY DEF Opens
<1>2. /\ v.state = "preparing" /\ v.cmds = {} /\ v.sess = {} /\ v.revoked = FALSE
      /\ v.ended = {} /\ v.complete = FALSE
  BY DEF NoVisit
<1>3. /\ visit'[s] = v /\ disk'[s] = v /\ task'[s].pc = "new"
      /\ \A r \in Scenes \ {s} : Untouched(r)
  BY <1>1 DEF Opens, Checkpointed, At, Untouched, SceneInv, Typed, Tasks
<1> HIDE DEF v
<1>4. visit[s].state = "none" /\ disk[s].state = "none" /\ ~Unfinished(s) /\ Unfinished(s)'
  BY <1>1, <1>2, <1>3 DEF StandInv, Mirrored, Unfinished, Known
<1>5. clean[s].stage = "none" /\ \A d \in Devices : wake[s][d] = "none" /\ held[d] # s /\ body[d] # s
  <2>1. clean[s].stage = "none"
    BY <1>1 DEF SceneInv, ClosesAfterRun
  <2>2. disk[s].cmds = {} /\ Claimed(s) /\ WakesInRun(s)
    BY <1>4 DEF StandInv, RecordFits
  <2> QED
    BY <1>1, <1>4, <2>1, <2>2 DEF Claimed, WakesInRun, RunStages
<1>6. StandsFor(s)'
  <2>1. RecordFits(s)' /\ Mirrored(s)' /\ Fresh(s)'
    BY <1>1, <1>2, <1>3 DEF RecordFits, Restorable, Mirrored, Alike, Fresh
  <2>2. WakesInRun(s)' /\ AccountsFor(clean[s], disk[s])'
    BY <1>1, <1>5 DEF WakesInRun, AccountsFor
  <2> QED
    BY <2>1, <2>2 DEF StandsFor
<1>7. \A r \in Scenes \ {s} : StandsFor(r)' /\ (Unfinished(r)' <=> Unfinished(r))
  BY <1>1, <1>3, OthersStand
<1>8. \A r \in Scenes \ {s} : Unfinished(r) => Endpoints[r] \intersect Endpoints[s] = {}
  BY <1>1, SceneAssumption DEF StandInv, Claimed
<1>9. Apart'
  BY <1>7, <1>8 DEF StandInv, Apart
<1>10. Claimed(s)'
  <2>1. worker'[s] = "none"
    BY <1>1, <1>4 DEF StandInv, Claimed
  <2>2. \A d \in Devices : held'[d] = s <=> d \in Endpoints[s]
    BY <1>1, <1>5
  <2> QED
    BY <1>1, <1>4, <1>5, <2>1, <2>2 DEF Claimed
<1>11. \A r \in Scenes \ {s} : Claimed(r)'
  <2> SUFFICES ASSUME NEW r \in Scenes \ {s} PROVE Claimed(r)'
    OBVIOUS
  <2>1. Claimed(r)
    BY DEF StandInv
  <2>2. \A d \in Devices : held'[d] = r <=> held[d] = r
    BY <1>1, SceneAssumption
  <2> QED
    BY <1>1, <1>3, <1>7, <2>1, <2>2 DEF Claimed, Untouched
<1>12. /\ \A r \in Scenes : Driven(clean[r])'
       /\ \A c \in Closers : OwnScene(c)'
  <2>1. \A r \in Scenes : visit[r].state # "none" => visit'[r].state # "none"
    BY <1>3, <1>4 DEF Untouched
  <2>2. \A r \in Scenes : Driven(clean'[r])
    BY <1>1 DEF StandInv
  <2> QED
    BY <1>1, <2>1, <2>2, DriversStand DEF CloserSoft
<1> QED
  BY <1>6, <1>7, <1>9, <1>10, <1>11, <1>12 DEF StandInv, StandsFor

\* The devices of a scene that has ended nothing are all commanded.
LEMMA WakesStand ==
    ASSUME SceneInv, SceneInv', StandInv, Bodied', NEW s \in Scenes, Wakes(s)
    PROVE  StandInv'
<1> DEFINE v == [visit[s] EXCEPT !.cmds = Endpoints[s]]
<1>1. /\ up /\ task[s].pc = "check" /\ Checkpointed(s, v)
      /\ wake' = [wake EXCEPT ![s] = [d \in Devices |-> IF d \in Endpoints[s] THEN "sent" ELSE "none"]]
      /\ UNCHANGED <<up, held, clean, closer, gone, body, worker>>
  BY DEF Wakes, TaskGoes
<1>2. visit[s] \in Visits /\ Endpoints[s] \in SUBSET Devices /\ visit[s].state # "none"
  BY <1>1, Exists, SceneAssumption DEF SceneInv, Typed
<1>3. /\ v \in Visits /\ v.cmds = Endpoints[s] /\ v.state = visit[s].state /\ v.sess = visit[s].sess
      /\ v.revoked = visit[s].revoked /\ v.ended = visit[s].ended
      /\ v.complete = visit[s].complete
  BY <1>2 DEF Visits
<1> HIDE DEF v
<1>4. /\ visit'[s] = v /\ disk'[s] = v /\ task'[s].pc = "waiting"
      /\ \A r \in Scenes \ {s} : Untouched(r)
      /\ \A d \in Devices : wake'[s][d] # "none" => d \in Endpoints[s]
  BY <1>1 DEF Wakes, Checkpointed, At, Untouched, SceneInv, Typed, Tasks, StandInv, Bodied
<1>5. StandsFor(s) /\ Claimed(s) /\ disk[s].ended = {} /\ ~disk[s].complete
  BY <1>1 DEF StandInv, StandsFor, Fresh, Early
<1>6. visit[s].ended = {} /\ ~visit[s].complete /\ visit[s].sess \subseteq Endpoints[s]
      /\ (visit[s].state = "none" <=> disk[s].state = "none") /\ visit[s].state # "closed"
  BY <1>1, <1>5 DEF StandsFor, Mirrored, Alike, RecordFits
<1>7. Unfinished(s)' /\ Unfinished(s)
  BY <1>2, <1>3, <1>4, <1>5, <1>6 DEF Unfinished, Known
<1>8. StandsFor(s)'
  <2>1. RecordFits(s)'
    BY <1>2, <1>3, <1>4, <1>6 DEF RecordFits, Restorable
  <2>2. Mirrored(s)' /\ Fresh(s)'
    BY <1>1, <1>2, <1>3, <1>4, <1>6 DEF Mirrored, Alike, Fresh
  <2>3. WakesInRun(s)'
    BY <1>1, <1>3, <1>4 DEF WakesInRun, RunStages
  <2>4. clean'[s].stage = "none"
    BY <1>1 DEF SceneInv, ClosesAfterRun
  <2>5. AccountsFor(clean[s], disk[s])'
    BY <2>4 DEF AccountsFor
  <2> QED
    BY <2>1, <2>2, <2>3, <2>5 DEF StandsFor
<1>9. \A r \in Scenes \ {s} : StandsFor(r)' /\ (Unfinished(r)' <=> Unfinished(r))
  BY <1>1, <1>4, OthersStand
<1>10. Apart'
  BY <1>7, <1>9 DEF StandInv, Apart
<1>11. Claimed(s)'
  <2>1. disk[s].cmds \subseteq Endpoints[s]
    BY <1>5 DEF StandsFor, RecordFits
  <2> QED
    BY <1>1, <1>3, <1>4, <1>5, <1>6, <1>7, <2>1 DEF Claimed
<1>12. \A r \in Scenes \ {s} : Claimed(r)'
  BY <1>1, <1>4, <1>9 DEF StandInv, Claimed, Untouched
<1>13. /\ \A r \in Scenes : Driven(clean[r])'
       /\ \A c \in Closers : OwnScene(c)'
  <2>1. \A r \in Scenes : visit[r].state # "none" => visit'[r].state # "none"
    BY <1>3, <1>4 DEF Untouched
  <2>2. \A r \in Scenes : Driven(clean'[r])
    BY <1>1 DEF StandInv
  <2> QED
    BY <1>1, <2>1, <2>2, DriversStand DEF CloserSoft
<1> QED
  BY <1>8, <1>9, <1>10, <1>11, <1>12, <1>13 DEF StandInv, StandsFor

\* A device joins while the scene has it commanded and not ended.
LEMMA JoinStands ==
    ASSUME SceneInv, SceneInv', StandInv, Bodied', NEW s \in Scenes, NEW d \in Devices,
           JoinReaches(s, d)
    PROVE  StandInv'
<1>1. /\ wake[s][d] = "sent" /\ body' = [body EXCEPT ![d] = s]
      /\ UNCHANGED <<up, visit, task, wake, held, clean, closer, disk, gone, worker>>
  BY DEF JoinReaches
<1>2. d \in disk[s].cmds /\ d \notin disk[s].ended
  BY <1>1 DEF StandInv, WakesInRun, Fresh, RunStages, Early
<1>3. \A r \in Scenes : Claimed(r)'
  <2> SUFFICES ASSUME NEW r \in Scenes PROVE Claimed(r)'
    OBVIOUS
  <2>1. Claimed(r)
    BY DEF StandInv
  <2>2. \A e \in Devices : body'[e] = r => e \in disk[r].cmds /\ e \notin disk[r].ended
    BY <1>1, <1>2, <2>1 DEF Claimed, StandInv, Bodied
  <2> QED
    BY <1>1, <2>1, <2>2 DEF Claimed, Unfinished, Known
<1>4. \A r \in Scenes : StandsFor(r)' /\ (Unfinished(r)' <=> Unfinished(r))
  BY <1>1, OthersStand DEF Untouched
<1>5. /\ \A r \in Scenes : Driven(clean[r])'
      /\ \A c \in Closers : OwnScene(c)'
  <2>1. \A r \in Scenes : Driven(clean'[r])
    BY <1>1 DEF StandInv
  <2> QED
    BY <1>1, <2>1, DriversStand DEF CloserSoft
<1>6. Apart'
  BY <1>4 DEF StandInv, Apart
<1> QED
  BY <1>3, <1>4, <1>5, <1>6 DEF StandInv, StandsFor

\* A device confirms its end, and is in the scene no more.
LEMMA EndedStands ==
    ASSUME SceneInv, SceneInv', StandInv, Bodied', NEW s \in Scenes, NEW d \in Devices, Ended(s, d)
    PROVE  StandInv'
<1> DEFINE v == [visit[s] EXCEPT !.ended = @ \cup {d}]
<1>1. /\ up /\ clean[s].stage = "ends" /\ d \in clean[s].waiting /\ body' = LeftBy(s, d)
      /\ Checkpointed(s, v)
      /\ clean' = [clean EXCEPT ![s].waiting = @ \ {d}]
      /\ UNCHANGED <<up, task, wake, held, closer, gone, worker>>
  BY DEF Ended, InStage
<1>2. visit[s] \in Visits /\ visit[s].state # "none" /\ task[s].pc \in {"clean", "done"}
  BY <1>1, Exists DEF SceneInv, Typed, ClosesAfterRun
<1>3. /\ v.ended = visit[s].ended \cup {d} /\ v.cmds = visit[s].cmds /\ v.sess = visit[s].sess
      /\ v.state = visit[s].state /\ v.revoked = visit[s].revoked
      /\ v.complete = visit[s].complete
  BY <1>2 DEF Visits
<1> HIDE DEF v
<1>4. /\ visit'[s] = v /\ disk'[s] = v
      /\ clean'[s].stage = "ends" /\ clean'[s].waiting = clean[s].waiting \ {d}
      /\ clean'[s].bad = clean[s].bad /\ clean'[s].by = clean[s].by
      /\ \A r \in Scenes \ {s} : Untouched(r)
  BY <1>1 DEF Checkpointed, Untouched, SceneInv, Typed, Cleans
<1>5. StandsFor(s) /\ Claimed(s) /\ Driven(clean[s])
  BY DEF StandInv, StandsFor
<1>6. AccountsFor(clean[s], disk[s]) /\ Mirrored(s) /\ RecordFits(s)
  BY <1>5 DEF StandsFor
<1>7. /\ Alike(visit[s], disk[s]) /\ (visit[s].state = "none" <=> disk[s].state = "none")
      /\ d \in disk[s].cmds /\ disk[s].revoked
  BY <1>1, <1>6 DEF Mirrored, AccountsFor
<1>8. StandsFor(s)'
  <2>1. RecordFits(s)'
    <3>1. visit[s].state = "closed" => disk[s].complete
      BY <1>1, <1>6 DEF Mirrored
    <3>2. /\ disk'[s].cmds = disk[s].cmds /\ disk'[s].sess = disk[s].sess
          /\ disk'[s].complete = disk[s].complete /\ disk'[s].revoked = disk[s].revoked
          /\ disk'[s].ended = disk[s].ended \cup {d}
      BY <1>3, <1>4, <1>7 DEF Alike
    <3>3. Restorable(disk'[s])
      <4>1. disk[s].complete => disk[s].ended = disk[s].ended \cup {d}
        BY <1>6, <1>7 DEF RecordFits, Restorable
      <4> QED
        BY <1>6, <1>7, <3>2, <4>1 DEF RecordFits, Restorable
    <3> QED
      BY <1>2, <1>3, <1>4, <1>6, <3>1, <3>2, <3>3 DEF RecordFits
  <2>2. Mirrored(s)' /\ Fresh(s)'
    BY <1>1, <1>2, <1>3, <1>4, <1>6 DEF Mirrored, Alike, Fresh, Early
  <2>3. WakesInRun(s)'
    BY <1>1, <1>2, <1>5 DEF StandsFor, WakesInRun, RunStages
  <2>4. AccountsFor(clean[s], disk[s])'
    BY <1>1, <1>3, <1>4, <1>6, <1>7 DEF AccountsFor, Alike
  <2> QED
    BY <2>1, <2>2, <2>3, <2>4 DEF StandsFor
<1>9. \A r \in Scenes \ {s} : StandsFor(r)' /\ (Unfinished(r)' <=> Unfinished(r))
  BY <1>1, <1>4, OthersStand
<1>10. Unfinished(s)' <=> Unfinished(s)
  BY <1>3, <1>4, <1>7 DEF Unfinished, Known, Alike
<1>11. Apart'
  BY <1>9, <1>10 DEF StandInv, Apart
<1>12. \A e \in Devices : /\ body'[e] = body[e] \/ body'[e] = Idle
                         /\ body'[d] # s
  BY <1>1, SceneAssumption DEF LeftBy, StandInv, Bodied
<1>13. Claimed(s)'
  <2>1. \A e \in Devices : body'[e] = s => e # d /\ body[e] = s
    BY <1>12, SceneAssumption
  <2>2. \A e \in Devices : body'[e] = s => e \in disk'[s].cmds /\ e \notin disk'[s].ended
    BY <1>3, <1>4, <1>5, <1>7, <2>1 DEF Claimed, Alike
  <2> QED
    BY <1>1, <1>5, <1>10, <2>2 DEF Claimed
<1>14. \A r \in Scenes \ {s} : Claimed(r)'
  <2> SUFFICES ASSUME NEW r \in Scenes \ {s} PROVE Claimed(r)'
    OBVIOUS
  <2>1. Claimed(r) /\ \A e \in Devices : body'[e] = r => body[e] = r
    BY <1>12, SceneAssumption DEF StandInv
  <2> QED
    BY <1>1, <1>4, <1>9, <2>1 DEF Claimed, Untouched
<1>15. /\ \A r \in Scenes : Driven(clean[r])'
       /\ \A c \in Closers : OwnScene(c)'
  <2>1. \A r \in Scenes : visit[r].state # "none" => visit'[r].state # "none"
    BY <1>3, <1>4 DEF Untouched
  <2>2. \A r \in Scenes : Driven(clean'[r])
    BY <1>4 DEF StandInv, Driven, Untouched
  <2> QED
    BY <1>1, <2>1, <2>2, DriversStand DEF CloserSoft
<1> QED
  BY <1>8, <1>9, <1>11, <1>13, <1>14, <1>15 DEF StandInv, StandsFor

\* A scene is complete when its worker and every commanded device confirmed their end: nothing of
\* it is left when its reservations go.
LEMMA CompletesStand ==
    ASSUME SceneInv, SceneInv', StandInv, Bodied', NEW s \in Scenes, Completes(s)
    PROVE  StandInv'
<1> DEFINE k == [visit[s] EXCEPT !.state = "closed"]
           v == [visit[s] EXCEPT !.state = "closed", !.complete = TRUE]
<1>1. /\ up /\ clean[s].stage = "ends" /\ clean[s].waiting = {} /\ ~clean[s].bad
      /\ Checkpointed(s, v) /\ held' = Released(s)
      /\ clean' = [clean EXCEPT ![s] = NoClean]
      /\ UNCHANGED <<up, wake, gone, body, worker>>
  BY DEF Completes, AllAnswered, InStage
<1>2. visit[s] \in Visits /\ visit[s].state # "none" /\ task[s].pc \in {"clean", "done"}
  BY <1>1, Exists DEF SceneInv, Typed, ClosesAfterRun
<1>3. /\ v.state = "closed" /\ v.complete = TRUE /\ v.cmds = visit[s].cmds
      /\ v.sess = visit[s].sess /\ v.ended = visit[s].ended /\ v.revoked = visit[s].revoked
  <2>1. k \in Visits /\ k.state = "closed" /\ Alike(k, visit[s])
    BY <1>2, StateAlike
  <2>2. v = [k EXCEPT !.complete = TRUE]
    BY <1>2 DEF Visits
  <2> HIDE DEF k, v
  <2> QED
    BY <2>1, <2>2 DEF Visits, Alike
<1> HIDE DEF v, k
<1>4. /\ visit'[s] = v /\ disk'[s] = v /\ clean'[s] = NoClean /\ task'[s].pc \in {task[s].pc, "done"}
      /\ \A r \in Scenes \ {s} : Untouched(r)
  <2>1. task'[s].pc \in {task[s].pc, "done"} /\ \A r \in Scenes \ {s} : task'[r] = task[r]
    BY DEF Completes, At, SceneInv, Typed, Tasks
  <2> QED
    BY <1>1, <2>1 DEF Checkpointed, Untouched, SceneInv, Typed
<1>5. StandsFor(s) /\ Claimed(s) /\ Driven(clean[s])
  BY DEF StandInv, StandsFor
<1>6. AccountsFor(clean[s], disk[s]) /\ Mirrored(s) /\ RecordFits(s)
  BY <1>5 DEF StandsFor
<1>7. Alike(visit[s], disk[s])
  BY <1>1, <1>6 DEF Mirrored
<1>8. /\ disk[s].revoked /\ disk[s].ended = disk[s].cmds /\ disk[s].sess \subseteq disk[s].cmds
      /\ disk[s].cmds \subseteq Endpoints[s]
  <2>1. disk[s].sess \subseteq disk[s].cmds /\ disk[s].ended \subseteq disk[s].cmds
    BY <1>6 DEF RecordFits, Restorable
  <2>2. disk[s].cmds \subseteq disk[s].ended
    BY <1>1, <1>6 DEF AccountsFor
  <2> QED
    BY <1>1, <1>6, <2>1, <2>2 DEF AccountsFor, RecordFits
<1>9. worker[s] = "none" /\ \A d \in Devices : body[d] # s
  BY <1>5, <1>8 DEF Claimed, SceneInv, ProducersGoFirst
<1>10. StandsFor(s)'
  <2>1. RecordFits(s)'
    BY <1>3, <1>4, <1>7, <1>8 DEF RecordFits, Restorable, Alike
  <2>2. Mirrored(s)' /\ Fresh(s)'
    BY <1>1, <1>2, <1>3, <1>4 DEF Mirrored, Alike, Fresh, Early
  <2>3. WakesInRun(s)'
    BY <1>1, <1>2, <1>4, <1>5 DEF StandsFor, WakesInRun, RunStages
  <2>4. AccountsFor(clean[s], disk[s])'
    BY <1>4 DEF AccountsFor, NoClean
  <2> QED
    BY <2>1, <2>2, <2>3, <2>4 DEF StandsFor
<1>11. \A r \in Scenes \ {s} : StandsFor(r)' /\ (Unfinished(r)' <=> Unfinished(r))
  BY <1>1, <1>4, OthersStand
<1>12. ~Unfinished(s)'
  BY <1>3, <1>4 DEF Unfinished
<1>13. Apart'
  BY <1>11, <1>12 DEF StandInv, Apart
<1>14. Claimed(s)'
  <2>1. \A d \in Devices : held'[d] # s
    BY <1>1, SceneAssumption DEF Released
  <2> QED
    BY <1>1, <1>9, <1>12, <2>1 DEF Claimed
<1>15. \A r \in Scenes \ {s} : Claimed(r)'
  <2> SUFFICES ASSUME NEW r \in Scenes \ {s} PROVE Claimed(r)'
    OBVIOUS
  <2>1. Claimed(r) /\ \A d \in Devices : held'[d] = r <=> held[d] = r
    BY <1>1, SceneAssumption DEF Released, StandInv
  <2> QED
    BY <1>1, <1>4, <1>11, <2>1 DEF Claimed, Untouched
<1>16. /\ \A r \in Scenes : Driven(clean[r])'
       /\ \A c \in Closers : OwnScene(c)'
  <2>1. \A r \in Scenes : visit[r].state # "none" => visit'[r].state # "none"
    BY <1>3, <1>4 DEF Untouched
  <2>2. \A r \in Scenes : Driven(clean'[r])
    BY <1>4, SceneAssumption DEF StandInv, Driven, NoClean, Untouched
  <2>3. \A c \in Closers : CloserSoft(c)
    <3>1. \A c \in Closers : c # clean[s].by => closer'[c] = closer[c]
      BY DEF Completes, CloserAt, SceneInv, Typed
    <3>2. clean[s].by \in Closers => CloserSoft(clean[s].by)
      BY <1>5 DEF Driven, CloserSoft
    <3> QED
      BY <3>1, <3>2 DEF CloserSoft
  <2> QED
    BY <2>1, <2>2, <2>3, DriversStand
<1> QED
  BY <1>10, <1>11, <1>13, <1>14, <1>15, <1>16 DEF StandInv, StandsFor

\* Memory is lost; what is on disk, in the rooms and on the devices stays.
LEMMA CrashesStand ==
    ASSUME SceneInv, SceneInv', StandInv, Bodied', Crashes
    PROVE  StandInv'
<1>1. /\ up' = FALSE /\ UNCHANGED <<disk, gone, body, worker>>
      /\ \A s \in Scenes : visit'[s].state = "none" /\ clean'[s] = NoClean
      /\ \A s \in Scenes : \A d \in Devices : wake'[s][d] = "none"
      /\ \A d \in Devices : held'[d] = NoScene
      /\ \A c \in Closers : closer'[c].pc = "off"
  BY DEF Crashes, NoVisit, NoClose
<1>2. ASSUME NEW s \in Scenes
      PROVE  RecordFits(s)' /\ Mirrored(s)' /\ Fresh(s)' /\ WakesInRun(s)'
  BY <1>1 DEF StandInv, RecordFits, Restorable, Mirrored, Fresh, WakesInRun
<1>3. ASSUME NEW s \in Scenes
      PROVE  AccountsFor(clean[s], disk[s])' /\ Driven(clean[s])'
  BY <1>1, SceneAssumption DEF AccountsFor, Driven, NoClean
<1>4. ASSUME NEW s \in Scenes
      PROVE  Claimed(s)'
  BY <1>1, SceneAssumption DEF StandInv, Claimed, Unfinished, Known
<1>5. Apart'
  BY <1>1 DEF StandInv, Apart, Unfinished, Known
<1>6. \A c \in Closers : OwnScene(c)'
  BY <1>1 DEF OwnScene
<1> QED
  BY <1>2, <1>3, <1>4, <1>5, <1>6 DEF StandInv

\* The restart reads every record back; no two unfinished ones name a device.
LEMMA RestartsStand ==
    ASSUME SceneInv, SceneInv', StandInv, Bodied', Restarts
    PROVE  StandInv'
<1>1. /\ ~up /\ up' /\ held' = Restored /\ disk' = visit'
      /\ UNCHANGED <<wake, clean, closer, gone, body, worker>>
  BY DEF Restarts
<1>2. ASSUME NEW s \in Scenes
      PROVE  /\ disk'[s].cmds = disk[s].cmds /\ disk'[s].complete = disk[s].complete
             /\ Known(s) => /\ disk'[s].sess = disk[s].sess /\ disk'[s].ended = disk[s].ended
                            /\ disk'[s].revoked = disk[s].revoked
                            /\ disk'[s].state \in {"closing", "closed"}
                            /\ disk'[s].state = "closed" => disk[s].complete
             /\ ~Known(s) => /\ disk'[s].sess = {} /\ disk'[s].ended = {}
                             /\ disk'[s].state = "none" /\ ~disk'[s].complete
             /\ task'[s].pc \in {"recover", "done", "none"}
             /\ task'[s].pc = "none" => ~Known(s)
  <2>1. disk[s] \in Visits /\ RecordFits(s)
    BY DEF SceneInv, Typed, StandInv
  <2>2. /\ task'[s].pc \in {"recover", "done", "none"}
        /\ task'[s].pc = "none" => ~Known(s)
    BY DEF Restarts, NoTask, Unfinished
  <2>3. CASE Known(s)
    <3> DEFINE x == IF disk[s].complete THEN "closed" ELSE "closing"
    <3>1. /\ x \in {"closing", "closed"} /\ (x = "closed" => disk[s].complete)
          /\ disk'[s] = [disk[s] EXCEPT !.state = x]
      BY <1>1, <2>3 DEF Restarts
    <3> HIDE DEF x
    <3>2. /\ [disk[s] EXCEPT !.state = x].state = x
          /\ Alike([disk[s] EXCEPT !.state = x], disk[s])
      BY <2>1 DEF Visits, Alike
    <3>3. /\ disk'[s].cmds = disk[s].cmds /\ disk'[s].complete = disk[s].complete
          /\ disk'[s].sess = disk[s].sess /\ disk'[s].ended = disk[s].ended
          /\ disk'[s].revoked = disk[s].revoked
      BY <3>1, <3>2 DEF Alike
    <3>4. disk'[s].state = x
      BY <3>1, <3>2
    <3> QED
      BY <2>2, <2>3, <3>1, <3>3, <3>4
  <2>4. CASE ~Known(s)
    <3>1. disk'[s] = NoVisit
      BY <1>1, <2>4 DEF Restarts
    <3>2. disk[s].cmds = {} /\ ~disk[s].complete
      BY <2>1, <2>4 DEF RecordFits, Known
    <3>3. disk[s].complete = FALSE
      BY <2>1, <3>2 DEF Visits
    <3>4. /\ disk'[s].cmds = {} /\ disk'[s].sess = {} /\ disk'[s].ended = {}
          /\ disk'[s].state = "none" /\ disk'[s].complete = FALSE
      BY <3>1 DEF NoVisit
    <3> QED
      BY <2>2, <2>4, <3>2, <3>3, <3>4
  <2> QED
    BY <2>3, <2>4
<1>3. ASSUME NEW s \in Scenes
      PROVE  Unfinished(s)' <=> Unfinished(s)
  BY <1>2 DEF Unfinished, Known
<1>4. ASSUME NEW s \in Scenes
      PROVE  RecordFits(s)'
  <2>1. RecordFits(s)
    BY DEF StandInv
  <2> QED
    BY <1>2, <2>1 DEF RecordFits, Restorable, Known
<1>5. ASSUME NEW s \in Scenes
      PROVE  Mirrored(s)' /\ Fresh(s)'
  BY <1>1, <1>2 DEF Mirrored, Alike, Fresh, Early, Known
<1>6. ASSUME NEW s \in Scenes
      PROVE  WakesInRun(s)' /\ AccountsFor(clean[s], disk[s])' /\ Driven(clean[s])'
  <2>1. clean[s].stage = "none" /\ \A d \in Devices : wake[s][d] = "none"
    BY <1>1 DEF StandInv, WakesInRun, SceneInv, ClosesAfterRun
  <2>2. clean[s].by = "none"
    BY <2>1 DEF StandInv, Driven
  <2> QED
    BY <1>1, <2>1, <2>2, SceneAssumption DEF WakesInRun, AccountsFor, Driven
<1>7. Apart'
  BY <1>3 DEF StandInv, Apart
<1>8. ASSUME NEW s \in Scenes, NEW d \in Devices
      PROVE  held'[d] = s <=> d \in Endpoints[s] /\ Unfinished(s)
  <2>1. CASE \E r \in Scenes : Unfinished(r) /\ d \in Endpoints[r]
    <3> DEFINE t == CHOOSE r \in Scenes : Unfinished(r) /\ d \in Endpoints[r]
    <3>1. t \in Scenes /\ Unfinished(t) /\ d \in Endpoints[t]
      BY <2>1
    <3>2. held'[d] = t
      BY <1>1, <2>1 DEF Restored
    <3> HIDE DEF t
    <3>3. Unfinished(s) /\ d \in Endpoints[s] => s = t
      BY <3>1 DEF StandInv, Apart
    <3> QED
      BY <3>1, <3>2, <3>3
  <2>2. CASE ~\E r \in Scenes : Unfinished(r) /\ d \in Endpoints[r]
    BY <1>1, <2>2, SceneAssumption DEF Restored
  <2> QED
    BY <2>1, <2>2
<1>9. ASSUME NEW s \in Scenes
      PROVE  Claimed(s)'
  <2>1. Claimed(s) /\ RecordFits(s)
    BY DEF StandInv
  <2>2. \A d \in Devices : body'[d] = s => d \in disk'[s].cmds /\ d \notin disk'[s].ended
    BY <1>1, <1>2, <2>1 DEF Claimed
  <2> QED
    BY <1>1, <1>3, <1>8, <2>1, <2>2 DEF Claimed
<1>10. \A c \in Closers : OwnScene(c)'
  BY <1>1 DEF StandInv, OwnScene, Mirrored
<1> QED
  BY <1>4, <1>5, <1>6, <1>7, <1>9, <1>10 DEF StandInv

-----------------------------------------------------------------------------
\* Nothing is on record, reserved or at work.
LEMMA InitStand == Init => StandInv
<1> SUFFICES ASSUME Init PROVE StandInv
  OBVIOUS
<1>1. Bodied /\ Apart /\ \A c \in Closers : OwnScene(c)
  BY DEF Init, Bodied, Apart, Unfinished, Known, NoVisit, OwnScene, NoClose
<1>2. ASSUME NEW s \in Scenes
      PROVE  RecordFits(s) /\ Mirrored(s) /\ Fresh(s) /\ WakesInRun(s)
  BY DEF Init, RecordFits, Restorable, Mirrored, Alike, Fresh, WakesInRun, NoVisit
<1>3. ASSUME NEW s \in Scenes
      PROVE  Claimed(s) /\ AccountsFor(clean[s], disk[s]) /\ Driven(clean[s])
  BY SceneAssumption DEF Init, Claimed, Unfinished, Known, AccountsFor, Driven, NoVisit, NoClean
<1> QED
  BY <1>1, <1>2, <1>3 DEF StandInv

\* Every step, and a stutter, keeps what stands.
LEMMA NextStand == ASSUME SceneInv, SceneInv', StandInv, [Next]_vars PROVE StandInv'
<1>1. Bodied'
  BY NextBodied DEF StandInv
<1>2. CASE UNCHANGED vars
  <2>1. \A s \in Scenes : RecordSoft(s) /\ SceneSoft(s)
    BY <1>2, QuietSoft DEF vars
  <2> QED
    BY <1>1, <1>2, <2>1, SoftInv DEF vars, CloserSoft, DeviceSoft
<1>3. ASSUME NEW s \in Scenes, TaskStep(s) PROVE StandInv'
  BY <1>1, <1>3, RunStands, WakesStand, RunEndsStand, RecoveryStands DEF TaskStep
<1>4. ASSUME NEW s \in Scenes, CleanStep(s) PROVE StandInv'
  BY <1>1, <1>4, QuiesceStands, EndedStands, UnconfirmedStands, FailuresStand, CompletesStand
     DEF CleanStep
<1>5. ASSUME NEW s \in Scenes, SceneStep(s) PROVE StandInv'
  BY <1>1, <1>5, OpensStand, AsksStand, PollStands, WorkersStand DEF SceneStep
<1>6. ASSUME NEW c \in Closers, CloserStep(c) PROVE StandInv'
  BY <1>1, <1>6, RetirementStands, LocksStand, ClientStands, HubStands DEF CloserStep
<1>7. ASSUME NEW d \in Devices, DeviceStep(d) PROVE StandInv'
  BY <1>1, <1>7, DevicesStand, StartStands, AsksStand, JoinStands DEF DeviceStep
<1> QED
  BY <1>1, <1>2, <1>3, <1>4, <1>5, <1>6, <1>7, CrashesStand, RestartsStand DEF Next

\* Both invariants hold at every step.
THEOREM SceneStands == Spec => [](SceneInv /\ StandInv)
<1>1. SceneInv /\ StandInv /\ [Next]_vars => (SceneInv /\ StandInv)'
  BY NextInv, NextStand
<1> QED
  BY <1>1, InitInv, InitStand, PTL DEF Spec

\* A device serves, and a worker runs, only for the scene that reserves what it uses: no close,
\* crash or revocation leaves one behind.
THEOREM SceneReservedServe == Spec => []OnlyTheReservedServe
<1>1. StandInv => OnlyTheReservedServe
  <2> SUFFICES ASSUME StandInv, up PROVE OnlyTheReservedServe
    BY DEF OnlyTheReservedServe
  <2>1. ASSUME NEW d \in Devices, body[d] \in Scenes
        PROVE  held[d] = body[d] /\ d \notin gone
    <3>1. Claimed(body[d]) /\ RecordFits(body[d])
      BY <2>1 DEF StandInv
    <3>2. d \in disk[body[d]].cmds /\ d \notin disk[body[d]].ended /\ d \in Endpoints[body[d]]
      BY <3>1 DEF Claimed, RecordFits
    <3>3. Unfinished(body[d])
      BY <3>1, <3>2 DEF RecordFits, Restorable, Unfinished, Known
    <3> QED
      BY <3>1, <3>2, <3>3 DEF Claimed
  <2>2. ASSUME NEW s \in Scenes, NEW d \in Devices, worker[s] # "none", d \in Endpoints[s]
        PROVE  held[d] = s
    BY <2>2 DEF StandInv, Claimed
  <2> QED
    BY <2>1, <2>2 DEF OnlyTheReservedServe
<1> QED
  BY <1>1, SceneStands, PTL

\* The process can start again whenever it dies: its records are ones a restart accepts.
THEOREM SceneRecoverable == Spec => []AlwaysRecoverable
<1>1. StandInv => AlwaysRecoverable
  BY DEF StandInv, AlwaysRecoverable, Apart, RecordFits
<1> QED
  BY <1>1, SceneStands, PTL

\* What is called closed is complete, whoever wrote it, and nothing of it is left.
THEOREM SceneClosedIsProved == Spec => []ClosedIsProved
<1>1. SceneInv /\ StandInv => ClosedIsProved
  <2> SUFFICES ASSUME SceneInv, StandInv, NEW s \in Scenes,
                      visit[s].state = "closed" \/ disk[s].state = "closed"
               PROVE  /\ disk[s].complete /\ worker[s] = "none"
                      /\ \A d \in Devices : body[d] # s /\ held[d] # s
    BY DEF ClosedIsProved
  <2>1. Claimed(s) /\ RecordFits(s) /\ Mirrored(s)
    BY DEF StandInv
  <2>2. up \in BOOLEAN /\ disk[s].complete
    BY <2>1 DEF RecordFits, Mirrored, SceneInv, Typed
  <2>3. disk[s].ended = disk[s].cmds \cup disk[s].sess /\ ~Unfinished(s)
    BY <2>1, <2>2 DEF RecordFits, Restorable, Unfinished
  <2> QED
    BY <2>1, <2>2, <2>3 DEF Claimed
<1> QED
  BY <1>1, SceneStands, PTL
===============================================================================
