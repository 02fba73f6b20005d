# Eidolon Channel: specifications

TLA+ models of `eidolon_channel`, model-checked with TLC, and theorems about them
checked by TLAPS. Paths are relative to the repository; `CP/` stands for
`src/eidolon/channel_provider/` and `AG/` for `src/eidolon/livekit/agent/`.

## 1. The system

Two kinds of process share LiveKit rooms.

The **Channel Provider** (`CP/`) is one asyncio process. A Hub asks it over HTTP to
provision, refresh and revoke the media channel of a device, and to open and close
scenes of several devices; a device asks it, over the channel itself, to start and
stop conversations. It keeps a SQLite ledger and, for every channel the ledger holds,
a listener connection in the device's room.

An **agent worker** (`AG/`) is started by LiveKit for every dispatch the Provider
places in a room. It runs a pipeline, push-to-talk or streaming, that turns the
device's audio and buttons into committed user turns and the agent's replies into
audio; speech plugins, the brain behind a gRPC client and the smart-home runtime
are services it calls. The worker of a team runs a role group instead: several
devices, one stream to the Agent.

| Component | State | Operations | Module |
|---|---|---|---|
| Ledger `CP/store.py` | table `provider_operations`; journal of prepared scenes | create_provision, complete_revocation, expire; reserve and complete of a scene | ChannelLedger, PreparedScene |
| Service `CP/service.py` | one asyncio lock; the ledger; scenes and their reservations | provision, refresh, revoke, start (recovery), open and close of sessions, presence, prepared scenes | ChannelProvider, PreparedScene |
| LiveKit adapter `CP/adapters/livekit/adapter.py` | `_listeners` per room, rejoin and confirmation tasks, receipts | ensure and close room, accept_requests, stop_accepting, open_session, close_session, confirmation; preparing, placing, quiescing and ending of scenes | ChannelProvider, SessionDispatch, PreparedScene |
| Scenes and team conversations `CP/endpoint_preparation.py`, `CP/team_conversation.py` | visit, task, close transaction and journal of each scene | prepare, activate, close, restore | PreparedScene |
| Shared transport `CP/shared_*.py` | admissions, invitations | admit, release | none |
| HTTP, contracts, config | none that outlives a request | validation, wiring | none |
| Push-to-talk pipeline `AG/half_duplex/` | button, controller state and generation, tasks, timelines | press, release, transcription, commit, reject, preempt, shutdown | PttTurn |
| Interruption owner `AG/session/interruption_orchestrator.py` and its effects | one candidate, the verdicts given, deadlines | start, evidence, decisions, resolve, wait, close | Interruption |
| User-turn coordinator `AG/session/user_turn_coordinator.py` and the completion gate | the turn with its segments, hypotheses, leases | speech, transcript, withdrawal, settlement, commit, rejection | UserTurn |
| Streaming pipeline `AG/full_duplex/` | evidence, transcripts, timelines | VAD, STT and framework callbacks | Interruption, UserTurn |
| Output `AG/output/`, `AG/session/duck_timeout.py` | mode, buffer, segment, generation of the audio sink | capture, suspend, drain, cancel, flush | OutputGate; deadlines in Interruption |
| Coordination `AG/coordination/`, `AG/shared/ptt_destination.py` | capture, epoch, replies, stops in line | press, release, deliver, receive, present, stop, close | RoleGroup |
| Brain client `AG/eidolon_agent_rpc/` | the Chat call, its reader, inbox of turns, warm turn, tools | start, retry, cancel, warm, discard, tool call, close | BrainSession |
| TTS connection pool `src/eidolon/livekit/plugins/tts/_pool.py` | ready connections, refill tasks | warmup, acquire, mark_dirty, shutdown | SpeechPool |
| Other speech plugins, avatar, smart-home runtime, observability, configuration | see PROJECT.json | | none |

How they interact: a Hub's request reaches the ledger through the service's lock; the
adapter calls the service back for what devices ask. A dispatch becomes a worker.
Inside a worker, voice activity, transcripts and framework hooks drive the
interruption owner and the user turn, which suspend, cancel or resume the output gate
and commit turns to the brain client; its reply comes back through the TTS pool and
the output gate.

### What is hard, and what makes each part correct

* **Ledger.** Requests of several generations of a device arrive in any order and
  are retried. Correct: one held row per device, of the newest generation known; a
  revocation is final; an output policy never goes back.
* **Service.** Decides on a row, awaits the adapter, then commits; the adapter may
  fail half way and the process may die anywhere. Correct: a held channel has its
  room and its listener; nothing starts a conversation on a channel being withdrawn;
  only ledger transactions write the ledger; after a loss a held channel is heard
  again (unless the connection is lost while its join still reconciles: a
  disagreement, below).
* **Adapter.** Dispatches are placed and deleted call by call against a LiveKit that
  moves meanwhile, with confirmation tasks outside the lock. Correct: one dispatch
  in a room; a conversation is ended only by those entitled to; a dispatch nobody
  serves does not occupy the room for good.
* **Scenes.** Four parties may close a scene, each suspended between checkpoints, and
  the process may die between two of them. Correct: a device serves only the scene
  that reserves it, every checkpoint can be restored, "closed" is said on proof,
  producers go before devices, a close that was asked for comes to its end.
* **Push to talk.** Presses race late transcriptions. Correct: the newest hold owns
  the recorder, only it commits or is answered, and every hold ends.
* **Interruption owner.** Late evidence, model answers, timers and framework callbacks
  race. Correct: one verdict per acoustic generation and for itself alone; every
  suspension has a deadline; every waiter is released; refused words go nowhere.
* **User turn.** The completion hook suspends twice while the turn goes on changing.
  Correct: what was decided stands, a commit carries the words that stand and no
  others, and a hook that sleeps has a reason to.
* **Output gate.** Two tasks write to one sink and are cut off at their awaits.
  Correct: order, no loss but on order, no sound from before a cancellation, every
  playout sealed.
* **Role group.** Presses, epochs, stops and replies cross. Correct: one capture is
  heard, a clean scene is a silent one, crossing frames are not protocol errors, what
  was revoked is not confirmed as played.
* **Brain client.** The call ends at any await of anybody. Correct: whoever waits is
  told, no utterance is worked on twice, what was given up stops.
* **TTS pool.** Acquirers, refills, a warm-up and a shutdown each decide on how much
  is pooled or under way and act after an await. Correct: no connection serves two
  turns, refills fit the target, no caller waits for what nobody opens, and every
  connection taken is closed.

PROJECT.json lists every hazard with its line and the properties that cover it.

## 2. Modules

`ChannelGrant` (abstract) <- `ChannelLedger` <- `ChannelProvider`. The others stand by
themselves and name their neighbours' effects as actions of an environment:
`Interruption`, `UserTurn` and `OutputGate` abstract each other, `RoleGroup` relates
to `PttTurn` by its press and release, `PreparedScene` to `ChannelProvider` by the
revocations of devices. `MC*` modules give TLC its constants; `*Proofs` hold the
theorems. `ChannelProviderProofs` has those of the ledger and of the service around it,
since the service extends the ledger; `TurnProofs` those of the way into the Agent
(`UserTurn`, `BrainSession`), `OutputProofs` those of the way out (`OutputGate`,
`SpeechPool`); the others those of the module they are named after. Definitions of
`UserTurn` and `OutputGate` that every module has are named for theirs (`TurnSpec`,
`GateSpec`), so that one module can extend two.

Everywhere a step is the code between two awaits, since every component runs on one
asyncio loop; several tasks interleave at their awaits and nowhere else.

### ChannelGrant
What the ledger promises without rows: each generation of a device starts once, never
behind a newer one, may lapse and be renewed, and is over for good. It is the
abstract specification `ChannelLedger` implements.

### ChannelLedger (`CP/store.py`)
`rows` is the table, indexed by its primary key; a row keeps its status, what it
declares (manifest and output policy) and its handle. Each transaction is one
action: `CreateProvision` (both kinds), `CompleteRevocation`, `ExpireCredentials`.
Every writing transaction sweeps expired rows first; `due`, any set of active rows,
stands for the deadlines that have passed. A transaction that raises is no step.
Generations are compared field by field as the Python tuples are. Credentials and
result payloads are not kept; requests have the same fingerprint when they declare
the same. The refinement mapping `PhaseOf` reads a generation's phase off its rows.

### ChannelProvider (`CP/service.py`, listener part of the adapter)
Extends the ledger with the service lock (`op` is the operation, `asked` the session
request that awaits the adapter under it), the device's `room`, the listener `watch`
(the generation and policy revision it serves, and its connection), joins whose
listener is gone (`adrift`), a conversation (`talk`), and the revocations that the
Hub asked for and were not answered (`revoking`, bookkeeping for the properties).
Provision is a start, under the lock up to the adapter's await, and a commit, a
refusal by the ledger or a failure of the adapter; revocation likewise, and so are
sessions: `Opens` and `Closes` check the row, `SessionDone` or `SessionFailed` is what
the adapter makes of it. `_join` is two steps: `Joins` connects ("entered": packets are
served from then on), `Settles` stores the connection after the policies are
reconciled; one that is lost in between ("cut") is stored all the same ("deaf"). A
crash loses process memory and leaves the adapter's last call done or not; `Restart`
sweeps and listens to every held row. Left out: the policies that are reconciled once
more where a listener is re-stated, which does not touch its connection.

### SessionDispatch (`open_session`, `close_session`, `_confirm_serving_later` of the adapter)
One device room and its dispatches, one LiveKit call per action: list, delete, place,
with calls that fail, fail after taking effect, or are interrupted by a crash; agents
that join, leave or crash; and the confirmation of each placed dispatch, which looks
ten seconds later, again at thirty, and withdraws. `Tick` is ten seconds.

### PreparedScene (`CP/service.py`, `CP/endpoint_preparation.py`, scene part of the adapter)
`visit` is a scene's lifecycle in memory and `disk` its last checkpoint; `task` says at
which await its task is, `wake` what became of the join commands, `held` is
`_transport_scopes`, `clean` the close transaction (who drives it, how far it is) and
`closer` the closes that a client asks of a scene, or a Hub of a device. `body`,
`asked` and `worker` are the devices and the worker in LiveKit. `Opens` to
`BecomesReady` are `run()`; `Withdraws`, `Silent`, `Ended`, `EndUnconfirmed`,
`AllAnswered` and `Completes` are `cleanup()`, one per await; `CloseAsked`/`HubAsks`
to `ClientDone`/`HubDone` the request, which cancels the task, awaits it, takes the
lock and tries three times; `Crashes` and `Restarts` lose memory and restore it from
`disk`. Left out: a checkpoint that fails other than the last, a disk error in the
middle of a close, a cancelled HTTP request, shutdown, the device's own conversation
(it appears as `CheckFails`) and a change of configuration (it appears as a
revocation in `HubDone`). A worker whose dispatch was withdrawn before it joined is
taken never to come (adapter.py:1504): LiveKit's part, not the code's.

### PttTurn (`AG/half_duplex/`)
The button, the controller (`state`, `generation`, `asr`), one finalizing task per
release (`final`), the recognizer's `answer`, the timeline of each hold (`turn`) and
the agent's `reply` to it. The model starts when the session is bound and does not
look at packets that arrive after the shutdown began. A press between
`generate_reply` and the agent's report that it thinks sees no output to preempt
(pipeline.py:865), as in the code.

### Interruption (`AG/session/interruption_orchestrator.py` and what shares its lifecycle)
`cand` is the candidate with its evidence, `verdicts` the resolved ones, `timers` the
runs of the suspension deadline (several may be asleep) and `armed` the one the output
knows of, `endp` the endpointing task in its barrier. Handlers: `SpeechStarts`,
`SpeechStops`, `TranscriptArrives`, `IntentIsKnown` (the model answers),
`DeadlineFires`, `RecheckFires`, the `Endpoint*` steps, `Complete`, `ReplyStarts`,
`ReplyEnds`, `ExplicitPreempt`, `Close`. A transcript is what it counts for as
evidence; what the scorer and the model say are choices (the Boolean arguments).
Left out: that the owner keeps its newest 16 verdicts and forgets the others
(interruption_orchestrator.py:739). `verdicts` has them all, so that JudgedOnce speaks
of a memory without bound: of the code, while a verdict is among the last 16.
Time is counted in ticks; a timer fires at its time or later.

### UserTurn (`AG/session/user_turn_coordinator.py`, completion gate of `AG/full_duplex/`)
`cand` is the turn with its segments (text, revision, covered or not), `hyps` the
streams of the hypothesis reconciler, `queue` the completed turns whose hook is due,
`gate` the hook that runs (`voice`: in the voiceprint check, `settle`: waiting for
transcripts). Words are model data: `Join`, `Matches` and `Selected` are what
`_merge_text`, `transcript_revision` and the choice of a revision do to them; `Selected`
is a recursive function of the number of segments, as a proof needs it. Left
out: the echo gate, the limits of 128 retired sentences and 64 buffered results
(no run comes near), and time: whether the continuation grace is over is a choice. A hook
that is due runs before the next event (`NoHookDue`). Words refused by the voiceprint
but recorded after the completion are not cleared (framework_completed_turn.py:437),
as in the code.

### OutputGate (`AG/output/controller.py`)
The caller of `capture_frame` and the task that drains the buffer, the lock between
them, and the sink with its current write. A frame is one unit of audio; a fade that
ends inside one splits it. The SDK (`SpeechStarts`, `SpeechEnds`,
`SpeechInterrupted`) and the sink (`WriteStarts`, `WriteAccepted`) are external.
`pausing` chooses, once, between a suspension that pauses the sink (the default) and
one that fades.

### RoleGroup (`AG/coordination/client.py`, with its worker and presenter)
One team, its captures and rounds (`epoch`), the replies this side knows, the stops in
line per device, and what each device may still be sounding. `Accept*` is one action
per frame of the Agent; `Press`, `Release`, `Delivers` come from the devices. The
Agent is external and keeps to its protocol in any order the protocol allows: it may start replies
before the receipts of its stops have come. Frames to the Agent arrive at once, those
from it are a sequence in flight. Left out: states for the display, text of replies
and their queue of 64, queue limits (128 frames, 64 tasks, 256 captures, 8192 turns),
the barriers of captures other than the newest. A media control that fails is
`StreamFails`. A stop by epoch queued behind that of a newer capture is not
superseded until the Agent has confirmed the capture (client.py:177), as in the code.

### BrainSession (`AG/eidolon_agent_rpc/`)
The session's `Chat` call (`cur`, `alive`, `reader`), its lock, and per turn: `phase`
(where its starter, then its consumer, is), the end in its `inbox`, its `cancel` task
and its `tool`. `Chat` and `Warm` begin turns; `Discards` to `StartTimesOut` are
`start_turn` with the discard of the warm-up before it and the framework's retry after
it (a start that is cancelled while it awaits the old reader passes the cancellation on
to that reader and goes on: `CancelPassesOn`); `GiveUp`, `Interrupted`, `DeadlinePasses` end the consumer; `CancelRuns` to `CancelWritten` are
`cancel_turn`; `ReaderLeaves`, `ReaderSettles` the end of the reader; `Close*` is
`aclose`. The brain and `grpc.aio` are external: a cancelled read or write ends its
call. Payloads count as signs of life. Left out: ACKs, motion and presentation
feedback, the proactive subscriber, retryable error payloads (the brain has ended that
turn), and the warmer's own discard just before `aclose`.

### SpeechPool (`plugins/tts/_pool.py`, and the Bailian and SenseTime plugins on it)
`conn` says where each connection is: being opened by a refill or the warm-up, pooled,
in use, being closed; `stream` and `out` are the callers and what they hold. `inline`
chooses, once, between the SenseTime configuration (an empty pool opens a connection
inline; idle time unlimited) and the Bailian one (callers wait; connections idle for
too long are evicted; a task is started on the connection before it is used).
`Refills` is `_maybe_refill`, part of every action that calls it. Identities of closed
connections are reused. The plugins' lock, which admits one stream at a time, is left
out: the pool documents itself as safe for concurrent callers.

## 3. Runs

| Run | Shows | Bounds |
|---|---|---|
| `provider` | OneHeldPerDevice, RevocationIsFinal, PolicyNeverRegresses, ImplementsGrant; HeldChannelIsReachable, NoOpeningWhileWithdrawn, UsesLedger, HeldIsHeard | 1 device, 2 generations that a field-by-field comparison misorders, 2 policies, one crash |
| `dispatch` | OneDispatch, WithdrawnWithStanding, FreedUnlessServed | 2 dispatches, 2 conversations, one fault: a failed call, a failed read or a crash |
| `scene` | OnlyTheReservedServe, AlwaysRecoverable, ClosedIsProved, ProducersGoFirst, TeamCloseConverges | a team of 2 devices, closed by its task, a client and a Hub; 2 failed steps, one crash |
| `ptt` | NewestHoldOwns, OnlyNewestCommits, EveryHoldConcludes | 4 holds |
| `interruption` | SuspensionIsWatched, RefusedIsDisposedOf, JudgedOnce | 2 acoustic generations, 2 deadlines asleep, budgets of one tick |
| `interruption_deadlines` | NothingWaitsForGood | 1 generation, budgets that differ |
| `user_turn` | SleepsForAReason, DecidedForGood, CommitIsWhole | a sentence of two words and one of one, 3 acoustic generations, 2 commits, one completion in the queue |
| `gate` | HeldBackIsHeard, CancelledIsSilent, PlayoutsFinish | 3 frames, 2 suspensions, 4 generations, room for one frame |
| `role_group` | OneCaptureIsHeard, CleanupMeansSilence, StreamSurvives, RevokedIsNotConfirmed | 2 devices, 2 captures, 2 replies, one stop of the Agent, 3 frames in flight |
| `brain` | NoTurnIsStranded, RepliesOnce, AbandonedTurnsStop | 2 turns, 3 calls, a tool in one turn |
| `pool` | TurnsAreSeparate, WaitersAreProvidedFor, PoolKeepsToTarget, EveryTurnDiscards | pool of 1, 2 callers, 4 connections alive at a time, one failed factory call, one aborted handshake |
| `provider_revoke_lapsed` | the code does other than the document says (below) | as `provider`, no crash |

The bounds and why they are enough:

* Rows of different devices do not interact, and the lock makes their operations
  commute: one device. A generation relates to another only by order, hence two; the
  theorems cover any number. One crash reaches every point of every operation, and
  what a second one finds is a state the first already leaves.
* Two dispatches are a conversation and what supersedes it; a third is placed only
  when one of them is gone.
* Two failed steps are one fewer than the attempts of a close; two devices are a
  partial confirmation.
* Four holds let a hold be superseded while two tasks of earlier holds are to run.
* Two generations are a stretch of speech and the one that follows it while its
  verdict is late; two deadlines are the armed one and one that was overwritten.
* A sentence of two words has a revision, the second sentence makes several segments;
  the third generation continues a turn after its completion was announced.
* Three frames are one heard, one held back, one that finds the buffer full.
* Two captures are a press and the one that abandons it; three frames in flight are
  a round that is stale when it arrives.
* Two turns are a warm-up and the real turn, an attempt and its retry, or a turn and
  the one that finds its call gone; three calls are one that was over, and one for each.
* In a pool of one, two callers already make it empty, contended and oversubscribed;
  four connections cover one per caller, one pooled and one being closed (a refill is
  ordered when an identity is free).

Deadlock is checked in `provider` and `dispatch`. The other systems end: by their
shutdown or close, or because the session's bound of turns, frames, or
captures is used up.

Further configurations, kept beside the runs for larger or narrower questions.
They hold:
`MCChannelLedger` (two devices, isolation), `MCChannelLedger_policies` (two contents
under one revision), `MCPreparedScene_rivals` (two scenes that compete for a device),
`MCRoleGroup_close` (a scene asked to close is closed).
The rest state what the code does not promise; see the disagreements.

### Fairness
* `ChannelProvider`: a crashed process is restarted (docs/channel-provider.md deploys
  it under a supervisor and `start` recovers); the rejoin loop tries for as long as
  the listener is registered (`WF` on `Joins`: a room that exists can be joined), and
  the calls with which a join reconciles end (`WF` on `Settles`: the LiveKit API client
  gives up a request in the end).
* `SessionDispatch`: a sleeping confirmation wakes (`WF` on `Tick` and on its steps);
  LiveKit removes the agent of a withdrawn dispatch. None on failures, requests,
  or on an agent ever joining.
* `PreparedScene`: tasks, close transactions and closers that can run do, a worker
  whose dispatch is gone leaves, a crashed process is restarted. None on devices,
  which may never confirm (the adapter's time-outs answer for them), nor on requests.
* `PttTurn`: a runnable task runs; the recognizer answers, perhaps with an error (its
  streams time out). None on buttons, replies or shutdown.
* `Interruption`: time passes, timers fire, the endpointing task runs when it may. None
  on speech, transcripts, the model or replies.
* `OutputGate`: tasks run when they can; a sink that is not paused takes what it is
  given; the SDK clears after an interruption; a suspension comes to its end, for each
  arms a deadline (SuspensionIsWatched and NothingWaitsForGood of `Interruption`).
* `RoleGroup`: the close, and the stops, which have deadlines; used by
  `MCRoleGroup_close` alone.
* `BrainSession`: `cancel_turn` runs; a tool answers, for its requests time out. None on the
  brain or the connection.
* `SpeechPool`: factories and disposers answer (both have time-outs), woken waiters run,
  the warm-up and the shutdown go on, and a turn that holds a connection ends (stall
  watchdog of Bailian, 30 s safety net of SenseTime). None on acquiring, giving up,
  failing, or on starting a shutdown.
* `UserTurn` states safety only. No lease is assumed to be woken: that is what
  SleepsForAReason says.

### Disagreements
`provider_revoke_lapsed`, a run and a finding of PROJECT.json that quotes both sides: a
revocation of a channel whose credential has lapsed closes neither listener nor room.

The following are properties of their modules that a configuration shows not to hold.
Each says what a comment, a test or a document leads a reader to expect; the passing
runs state what is true instead, with the exception named.

| Property | Configuration | What happens |
|---|---|---|
| HeldIsHeardAgain | `MCChannelProvider_deaf` | `_join` connects, awaits two reconciliations and only then stores the connection (adapter.py:801-811); one lost in between is ignored by `_dropped` (793), stored dead and ends the retry loop, so the channel is deaf until its listener is dropped or the process restarts, though getting back in is "this adapter's job for as long as it has said it is carrying the channel" (788). HeldIsHeard names this exception (`Deaf`) |
| DeviceCanStop | `MCChannelProvider_stop` | a refresh with an older input revision leaves the listener speaking for an older generation; the device's stop is then refused |
| NobodyListensAdrift | `MCChannelProvider_adrift` | a listener dropped while its first join is in flight joins all the same, and nobody closes it; nor the connection of a retry that is cancelled between its connect and the end of `_join` |
| ReclaimIsDue | `MCSessionDispatch_early` | a confirmation finds its dispatch by the conversation's name and withdraws a later one placed moments ago |
| FreedWhateverIsRead | `MCSessionDispatch_unread` | one failed read ends a confirmation for good |
| ConfirmedCancelStands | `MCInterruption_stray` | the deadline run inline by the endpointing task overwrites the one just armed; the forgotten one reclassifies a confirmed cancellation |
| JudgedOnce, SuspensionIsWatched | `MCInterruption` with `Typed = TRUE` | a reply to typed text begins in a turn whose cancellation already claimed its playback stop (pipeline.py:487-504), so the stop of a second cancellation is skipped |
| EveryTurnIsCommittedOnce | `MCUserTurn_again` | once a reply is over and its timeline flushed, a late completion commits the concluded turn again |
| FadingKeepsOrder | `MCOutputGate_fading` | under a fading suspension the faded part of a frame may overtake one that is held back |
| OneSpeculation | `MCBrainSession_more` | two `warm` overlap, each past the discard of the other |
| NoTurnIsEverStranded | `MCBrainSession_more` | a reader cancelled again while it waits for the tools tells nobody |
| EndedByOwnCall | `MCBrainSession_more` | `start_turn` registers before it reopens the call; the old call's reader ends the new turn |
| CancelledToolStops | `MCBrainSession_more` | a second cancellation cuts off a tool's handler of the first |
| NoneIsLost | `MCSpeechPool_lost` | a turn cancelled while `_acquire_started_conn` starts its task never discards its connection; EveryTurnDiscards makes exception for it |

Noticed while modelling, and present in the modules without a property of their own:
an explicit preempt of a generation that is still silent leaves the candidate live
without a deadline (interruption_effects.py:455-476), which is harmless while nothing is suspended;
a cancelled start leaves its inbox entry, an `aclose` that races a
start leaves a call open, a discard cancelled while it waits for the write lock never sends
its CancelTurn, and a cancelled write ends the whole call (AG/eidolon_agent_rpc/session.py);
a warm-up of the pool puts its connections without looking at what refills put
meanwhile, and a refill that proves surplus counts as under way until it is closed, so
`WaitersAreProvidedFor` is stated of a pool that was not warmed up; a scene's
lifecycle may say "closing" for a moment after another party completed it.

## 4. Proofs

Every theorem holds for all values of the constants that satisfy the module's named
ASSUMEs; nothing else is assumed, save `~Typed` in the two theorems of Interruption that
say so, and `DistinctSentences` in one of UserTurn. The ASSUMEs say that bounds are
naturals, that what the recogniser hears are sequences of at least one word, that
generations are records of naturals and revision 0 stands for one policy, that a scene has
a device and a team one at all, that the pool has finitely many connections, that one
duration of Interruption is no longer than another, and that the values which stand for
nobody (`Idle`, `NoWatch`, `NoScene`, `NoHandle`, ...) are not also devices, scenes or
operations. Bounds are arbitrary, so that no theorem depends on one.

| Theorem | States | Inductive invariant |
|---|---|---|
| LedgerTypeCorrect, LedgerOneHeld, LedgerRevocationFinal, LedgerPolicyNeverRegresses (from LedgerCorrect) | the ledger's invariants | `LedgerInv` |
| LedgerImplementsGrant | `Spec => Grant!GrantSpec` | `LedgerInv`, and one step of the grant per transaction |
| ProviderTypeCorrect, ProviderKeepsReachable (from ProviderCorrect) | ServiceTypeOK, HeldChannelIsReachable | `ProviderInv` |
| ProviderUsesLedger | UsesLedger | `ProviderInv` |
| ProviderKeepsLedger, ProviderImplementsGrant | the ledger's invariant and its refinement, of the running service | from UsesLedger |
| ProviderOpensOnActive | NoOpeningWhileWithdrawn: about openings, not ends, of conversations | `ProviderInv` |
| DispatchStandsAlone | OneDispatch | `DispatchInv` |
| DispatchEndsWithStanding | WithdrawnWithStanding | `DispatchInv`, `Entitled` |
| SceneProducersGoFirst | ProducersGoFirst | `SceneInv` |
| SceneReservedServe, SceneRecoverable, SceneClosedIsProved (from SceneStands) | OnlyTheReservedServe, AlwaysRecoverable, ClosedIsProved | `SceneInv`, `StandInv` |
| PttNewestHoldOwns, PttOnlyNewestCommits | NewestHoldOwns, OnlyNewestCommits | `PttInv` |
| InterruptionRefuses (from InterruptionOwner) | RefusedIsDisposedOf | `OwnerInv` |
| InterruptionWatched, InterruptionJudgesOnce (`~Typed`) | SuspensionIsWatched, JudgedOnce | `OwnerInv`, `UntypedInv` |
| GroupHeardOnce, GroupCleanup, GroupReceipts (from GroupCorrect) | OneCaptureIsHeard, CleanupMeansSilence, RevokedIsNotConfirmed | `GroupInv` |
| GroupStreamSurvives (from GroupInOrder) | StreamSurvives | `GroupInv`, `StreamInv` |
| TurnTypeCorrect | TurnTypeOK | `TurnInv`, `Revised`, `Timed` |
| TurnSleepsForAReason (from TurnCorrect), TurnDecidedForGood | SleepsForAReason, DecidedForGood | `TurnInv` |
| TurnNothingLeftOut, TurnCommitIsWhole (`DistinctSentences`) | CommitIsWhole: its half about commits alone, and all of it | `TurnInv`, `Standing` |
| TurnWordsStand | `Standing`: whose words are about to be committed | `TurnInv`, `Standing` |
| GateTypeCorrect, GateHeldBackIsHeard (from GateCorrect) | GateTypeOK, HeldBackIsHeard | `GateInv` |
| GateCancelledIsSilent | CancelledIsSilent | `GateInv` |
| GateSinkIsSealedToo | the sink has no segment open that the controller has closed | `GateInv`, `Sealed` |
| BrainRepliesOnce | RepliesOnce | `BrainInv` |
| BrainStrandsNone | NoTurnIsStranded | `StrandInv` |
| PoolSeparatesTurns | TurnsAreSeparate | `PoolInv` |
| PoolProvides, PoolKeeps (from PoolTarget) | WaitersAreProvidedFor, PoolKeepsToTarget | `PoolInv`, `TargetInv` |

Most proofs go through an account of what a step may do (`Forward`, `Still`, `Effect`,
`CallSoft`, `SoftInv` and their like) which preserves the invariant once and for all; the
actions are then shown to be such steps, and the few that are not are argued one by one.

* **Ledger.** `OneHeldPerDevice` is not inductive: a refresh fences the held row of its
  own generation only, so it needs to be known that the held row is of the newest
  generation, that no revocation of that generation is stored, and that the policies of
  stored rows are ordered. `LedgerInv` conjoins exactly these. The steps are proved
  per writer (`Expired`, `Granted`, `Revoked`) as lemmas about the functions they
  return, then per transaction.
* **Refinement.** Each sweep maps to `Lapse`, a grant to `Start` or `Renew`, a
  revocation to `Revoke`, a replay to a `Lapse` of what was due.
* **Provider service.** The ledger checks and writes in one transaction, the service in
  two: it checks, awaits the adapter under the lock, and commits. `LockedOp` says that
  what was checked still holds at the commit (the generation is not stale, the operation
  not stored, a revoked row still active), so that the commit is a step of the ledger
  (`UsesLedger`); this carries the ledger's theorems and the refinement over to the
  running service. HeldChannelIsReachable is inductive with it: a room is deleted, or a
  listener dropped, only for a device that holds nothing or the generation whose
  revocation the Hub still awaits, and that revocation is what `LockedOp` remembers.
  `LockedSession` says the same of a session request: its row was active when it was
  checked and still is when the adapter has placed the conversation, for no expiry,
  revocation or replacement takes the lock meanwhile; NoOpeningWhileWithdrawn follows.
* **SessionDispatch.** An open lists the room, deletes what it listed and only then
  places. `PlacesLast` says that as long as it is to place one, whatever stands in the
  room is still on its list, so that nothing stands when the list is empty. `Standing`
  is OneDispatch without cardinalities. Confirmations, jobs and crashes only take away.
  `Entitled`: what is on a list may be ended by who listed it, and goes on being so
  across the awaits of the deletions.
* **PreparedScene.** That producers are gone is written by the close transaction, long
  before the scene is closed, and must survive crashes and other parties' closes.
  `RecordedLate`: whatever records it does so for a scene whose task can place no
  worker any more; `ClosesAfterRun`: close transactions and lock holders exist only
  when `run()` has been left. Restored tasks begin in recovery and never in `run()`.
  `StandInv` relates the record in memory, the record on disk (`Mirrored`), the devices a
  close has accounted for (`AccountsFor`) and who claims which device (`Claimed`,
  `Apart`): a scene is complete only when nothing of it is left, and what a restart
  reads back is all of it.
* **PttTurn.** A task of an earlier hold may resume at any time, and whether it disturbs
  the newest is decided by comparing generations. `PttInv` adds to NewestHoldOwns what the
  task of each hold implies of the controller (`Tasks`), that only the newest timeline
  is open (`Timelines`) and how holds are numbered (`Numbering`). OnlyNewestCommits
  follows: the only step that commits is the end of the task of the current generation.
* **Interruption.** Every operation is an `Effect` on the candidate, the turn and the
  output it begins with. `KnownKeys`: generations only grow, so a new stretch of speech
  has no verdict. `JudgedHasClaimed`: a verdict that leaves its turn open has claimed the
  stop of the playback, or the turn has ended. `ClaimStands`: while that claim stands
  nothing is suspended, so that a cancellation ignored as a duplicate leaves no output
  waiting, and no second candidate begins in a judged stretch. A reply to typed text that
  begins in a turn with a claim breaks `ClaimStands`, and the properties with it (see
  Disagreements), hence `~Typed`.
* **UserTurn.** A step does one of four things to the turn (`Form`): it goes on (`Stays`),
  makes room for another (`Opens`), its completion begins to be waited for (`Begins`), or
  is decided (`Decided`). `TurnInv` is inductive over these: the timelines of the
  pipeline and of the voiceprint are the newest turn's or none (`Belongs`), the
  completion that waits is of that turn, or of one before it that can no longer be
  committed (`Fits`), and what was committed is closed and has words (`Recorded`).
  SleepsForAReason is inductive by itself over the forms: what goes on either tells the
  lease or leaves everything its outcome reads. `Standing` is where words come from:
  buffer, queue, gate and segments of the open turn hold words of sentences left behind
  and not withdrawn, and only a segment of the running sentence holds the running one's
  hypothesis; so a withdrawal, which empties the segments of its revision, takes back all.
  CommitIsWhole looks for the first word of a withdrawn sentence in what is committed,
  which proves its point if that word is not also said by another: `DistinctSentences`, which
  the words of the run satisfy. TurnWordsStand needs no such thing. What the recursive
  function `Selected` computes is proved by the least number of segments at which it
  would fail (`LeastNumber`, from well-founded order), since the induction theorems
  cannot be instantiated; `SelectedHolds`, `SelectedAppends` and `SelectedSame` are
  what the steps then cite. `Timed`: the reply that plays is to an earlier turn than the
  open one, so that its end does not flush the open turn's timeline.
* **OutputGate.** Two writers share the lock, and each may be voided, blocked or cut off
  in its write. `GateInv` says who holds the lock and what may be under way then
  (`Locks`), how frames are numbered (`Counted`), that what is live is of this generation
  (`Generations`), that a frame is somewhere or was dropped for a reason (`NothingLost`)
  and, where a suspension pauses the sink, that what is heard, under way and held back is
  in line (`InLine`). HeldBackIsHeard follows from the last two; CancelledIsSilent from
  `Generations`, since a cancellation voids the write under way before it counts the
  generation. `Sealed`: what is under way, held back or being captured keeps the
  controller's segment open. The steps go by what they do to the frames: none
  (`RestsInv`), one is taken, written, held back or accepted, or all are given up
  (`InvalidatedInv`).
* **RoleGroup.** That two captures are not heard at once is not inductive: `MediaInv` adds
  that what is about to sound is of the newest capture (`Playing`), and that a device
  which has answered its stop has since sounded for that capture only (`Heard`).
  `CleanupInv`: the last stop of a device is the last thing it does.
  `StreamInv` is about the frames in flight, at every position of the stream: epochs rise
  and rise strictly with each capture (`Ordered`), there is one round at most that this
  side is in or is about to enter (`OneRound`), the Agent leaves a round with a stop before
  it speaks in the next (`LeftByStop`), in a round one turn is under way, on the stream or
  in play (`OneTurn`), and whatever ends has begun, or its presentation failed
  (`EndsMatch`, `Once`). A frame that is neither late nor dropped is then one that is
  accepted. The steps are an `Append`, a `Tail`, or neither (`Quiet`).
* **BrainSession.** `NotBegun`: a turn that has not been written is unknown to the
  brain; `GivenUp`: what was given up for a retry is over, and the brain does not run
  it. The steps go by how they may move one turn (`Forward`). `StrandInv`: there is one
  open call and one that opens it, a running turn is on a call its reader reads, and a
  turn whose reader is gone has been told, or its call is one whose reader was itself
  cancelled while it told.
* **SpeechPool.** Typing and TurnsAreSeparate are inductive together; the work is in
  showing that a refill, which picks any set of free identities of the right size,
  picks none that a caller holds (`SubsetOfSize`, `FreshIsFree`). `TargetInv`: until a
  warm-up comes in between, what is pooled and on its way fits the target (`Fits`), so
  that a refill is never surplus and nothing that waiters count on is thrown away;
  `Drains`: after shutdown nobody is left who could put a connection.

Model-checked only:
* the liveness properties (HeldIsHeard, FreedUnlessServed, TeamCloseConverges,
  EveryHoldConcludes, NothingWaitsForGood, PlayoutsFinish, AbandonedTurnsStop,
  EveryTurnDiscards), for TLAPS proves none under fairness, nor ENABLED; every
  invariant and action property that a passing run checks is a theorem;
* what holds only of a configuration (`Typed = TRUE`, a pool warmed up late).

## 5. Not modelled, and what is left

* Streaming display: the client state machine of `AG/full_duplex/state_machine.py` and
  the presentation handshake follow the owners modelled here and decide nothing of
  them; the devices' side is in other repositories.
* Shared transport and its admission (`open_shared_session` to `shared_transport` of
  `CP/service.py`, `CP/shared_admission.py`): the next module. A visit reserves its
  devices in the same table as a scene (`_transport_scopes`) and is closed by a client, a
  Hub or its own deadline; to state are that a temporary room never outlives its
  reservation, that a reservation can be found by an explicit close, and that every
  open is answered.
* Idle watchdog: timers over two predicates of the session, which only ever end it; the
  pipelines see that as the shutdown or close their modules have at any time.
* STT and TTS streams, VAD, speaker verification, avatar: clients of services and
  signal processing; how a turn takes and leaves a connection is in SpeechPool.
* Turn policy: scores and thresholds over audio and text, whose outcomes are choices
  of Interruption and UserTurn.
* HTTP, configuration, contracts, worker set-up, smart-home runtime, observability:
  request and reply, wiring, or records nobody reads back.
* The v1 migration of the ledger.

Left to compose: Interruption with OutputGate, whose fairness on the end of a
suspension is what Interruption shows; RoleGroup with PttTurn.
