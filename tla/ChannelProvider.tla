--------------------------- MODULE ChannelProvider ---------------------------
(***************************************************************************)
(* The Channel Provider service (channel_provider/service.py) over its     *)
(* ledger and its LiveKit adapter: what provision, refresh, revoke, the    *)
(* session requests and a restart do to the ledger row, to the room of the *)
(* device and to the listener the Provider keeps in that room.             *)
(*                                                                         *)
(* One asyncio lock serializes the operations: `op`, or `asked` for a      *)
(* session, is what holds it across an await of the adapter.  Joining the  *)
(* room as a listener happens outside the lock.  A device's room is derived *)
(* from its stable identity, so all generations of a device share one room. *)
(* Wall-clock expiry is the sweep of ChannelLedger.  Shared transports and *)
(* scenes, which reserve a device, are not in this module.                 *)
(***************************************************************************)
EXTENDS ChannelLedger

CONSTANTS
    Idle,        \* nobody holds the service lock
    NoWatch,     \* the adapter keeps no listener for the room
    MaxCrashes   \* bound on process crashes

VARIABLES
    up,        \* the Provider process is running
    crashes,
    op,        \* the operation awaiting the adapter under the lock
    asked,     \* the session request doing the same
    room,      \* room[d]: the device's LiveKit room exists
    watch,     \* watch[d]: `_listeners[room]`, bound to a DeviceRef generation
    adrift,    \* adrift[d]: a join whose listener was dropped meanwhile
    talk,      \* talk[d]: a dispatch holds a conversation in the room
    revoking   \* revocations the Hub asked for and has no answer to yet

serviceVars == <<up, crashes, op, asked, room, watch, adrift, talk, revoking>>
providerVars == <<rows, serviceVars>>

\* The listener's connection.  "entered": connected, while `_join` still awaits
\* the reconciliation of policies; "cut": lost during those awaits; "deaf": such
\* a connection, stored all the same.
Connection == {"joining", "entered", "cut", "joined", "deaf", "retrying"}

Watch == [gen : Generations, rev : Nat, conn : Connection]

\* An operation under the lock: a room being opened for a grant, or closed.
Operation == [what : {"open", "close"}, key : Keys, decl : Declarations \cup {NoDecl}]

\* A session request under the lock: to open a conversation, or to end one.
Request == [dev : Devices, gen : Generations, on : BOOLEAN]

ASSUME ProviderAssumption ==
    /\ MaxCrashes \in Nat
    /\ NoWatch \notin Watch
    /\ Idle \notin Operation \cup Request

ProviderInit ==
    /\ Init
    /\ up = TRUE
    /\ crashes = 0
    /\ op = Idle
    /\ asked = Idle
    /\ room = [d \in Devices |-> FALSE]
    /\ watch = [d \in Devices |-> NoWatch]
    /\ adrift = [d \in Devices |-> "none"]
    /\ talk = [d \in Devices |-> FALSE]
    /\ revoking = {}

HeldOf(rs, d) == {k \in Keys : k.dev = d /\ Held(rs, k)}

\* `active_device`: the active row of exactly this DeviceRef.
ActiveOf(rs, d, g) == {k \in Keys : k.dev = d /\ k.gen = g /\ rs[k].status = "active"}

\* Mutant: the lock is not taken.
ReadyUnlocked == up

\* The service lock is free, and the process that owns it runs.
Ready == up /\ op = Idle /\ asked = Idle

\* An operation holds it, awaiting the adapter.
Holding(what) == up /\ op # Idle /\ op.what = what

-----------------------------------------------------------------------------
\* The adapter

\* accept_requests: an existing listener is re-stated in place, unless the
\* handle carries an older input revision than the one it already serves.
Accepted(d, g, rev) ==
    IF watch[d] = NoWatch
    THEN [watch EXCEPT ![d] = [gen |-> g, rev |-> rev, conn |-> "joining"]]
    ELSE IF rev >= watch[d].rev
    THEN [watch EXCEPT ![d] = [gen |-> g, rev |-> rev, conn |-> watch[d].conn]]
    ELSE watch

\* What a join that has not stored its connection is without its listener: on
\* its way, or an open connection, be the join cancelled with its retry or not.
Unstored == [joining |-> "joining", entered |-> "joined"]

\* stop_accepting: the listener is dropped first, its retry is cancelled and the
\* connection it has stored is closed.
StopAccepting(d) ==
    /\ watch' = [watch EXCEPT ![d] = NoWatch]
    /\ adrift' = [adrift EXCEPT ![d] =
                    IF watch[d] # NoWatch /\ watch[d].conn \in DOMAIN Unstored
                    THEN Unstored[watch[d].conn] ELSE adrift[d]]

\* `_dropped`: a lost connection is rejoined if it is the one the listener has
\* stored; before that the event is ignored.
Lost(conn) ==
    CASE conn = "joined" -> "retrying"
      [] conn = "entered" -> "cut"
      [] OTHER -> conn

\* What deleting a room does to everybody in it.
Dropped(w, d) ==
    IF w[d] = NoWatch THEN w ELSE [w EXCEPT ![d] = [w[d] EXCEPT !.conn = Lost(w[d].conn)]]

RoomGone(d) ==
    /\ room' = [room EXCEPT ![d] = FALSE]
    /\ talk' = [talk EXCEPT ![d] = FALSE]
    /\ adrift' = [adrift EXCEPT ![d] = IF @ = "joined" THEN "none" ELSE @]
    /\ watch' = Dropped(watch, d)

-----------------------------------------------------------------------------
\* Provision and refresh

\* Under the lock: expire, refuse stale requests and policy regressions, then
\* await the adapter's room.
ProvisionStart(k, decl, due) ==
    LET rs == Expired(rows, due) IN
    /\ Ready /\ Grants(k)
    /\ ~Stale(rs, k.dev, k.gen) /\ ~Stored(rs, k)
    /\ \A h \in HeldOf(rs, k.dev) :
          h.gen = k.gen => PolicyKept(rs[h].decl.policy, decl.policy)
    /\ rows' = rs
    /\ op' = [what |-> "open", key |-> k, decl |-> decl]
    /\ UNCHANGED <<up, crashes, asked, room, watch, adrift, talk, revoking>>

\* A known operation is answered from the ledger, and the channel the device
\* now has is listened to again.
ProvisionReplay(k, decl, due) ==
    LET rs == Expired(rows, due) IN
    /\ Ready /\ Grants(k)
    /\ ~Stale(rs, k.dev, k.gen)
    /\ Held(rs, k) /\ rs[k].decl = decl
    /\ rows' = rs
    /\ \/ /\ ActiveOf(rs, k.dev, k.gen) = {}
          /\ UNCHANGED watch
       \/ \E a \in ActiveOf(rs, k.dev, k.gen) :
             watch' = Accepted(a.dev, a.gen, rs[a].decl.policy.revision)
    /\ UNCHANGED <<up, crashes, op, asked, room, adrift, talk, revoking>>

\* The adapter's report on the runtime inputs of the current row.
ObservedBy(k) ==
    {{}} \cup {{[op |-> h.op, handle |-> rows[h].handle]} :
                  h \in IF k.kind = "refresh" THEN HeldOf(rows, k.dev) ELSE {}}

\* The room is open: commit the grant, release the lock and, in the same
\* scheduling step, register the listener.
ProvisionCommit(handle) ==
    /\ Holding("open")
    /\ \E seen \in ObservedBy(op.key) : Admissible(rows, op.key, op.decl, seen)
    /\ rows' = Granted(rows, op.key, op.decl, handle)
    /\ room' = [room EXCEPT ![op.key.dev] = TRUE]
    /\ watch' = Accepted(op.key.dev, op.key.gen, op.decl.policy.revision)
    /\ op' = Idle
    /\ UNCHANGED <<up, crashes, asked, adrift, talk, revoking>>

\* The ledger refused: the room is closed again, unless it is the resource of
\* the channel the device already has.
ProvisionRefused ==
    /\ Holding("open")
    /\ \E seen \in ObservedBy(op.key) : ~Admissible(rows, op.key, op.decl, seen)
    /\ \/ /\ HeldOf(rows, op.key.dev) = {}
          /\ RoomGone(op.key.dev)
       \/ /\ HeldOf(rows, op.key.dev) # {}
          /\ room' = [room EXCEPT ![op.key.dev] = TRUE]
          /\ UNCHANGED <<watch, adrift, talk>>
    /\ op' = Idle
    /\ UNCHANGED <<rows, up, crashes, asked, revoking>>

\* The adapter could not open the room, or answered after having created it.
ProvisionFailed ==
    /\ Holding("open")
    /\ \E exists \in {room[op.key.dev], TRUE} :
          room' = [room EXCEPT ![op.key.dev] = exists]
    /\ op' = Idle
    /\ UNCHANGED <<rows, up, crashes, asked, watch, adrift, talk, revoking>>

-----------------------------------------------------------------------------
\* Revocation

\* An active channel is stopped listening to, then its room is deleted.
RevokeStart(k, due) ==
    LET rs == Expired(rows, due) IN
    /\ Ready /\ k.kind = "revoke"
    /\ ~Stale(rs, k.dev, k.gen) /\ ~Stored(rs, k)
    /\ ActiveOf(rs, k.dev, k.gen) # {}
    /\ rows' = rs
    /\ StopAccepting(k.dev)
    /\ op' = [what |-> "close", key |-> k, decl |-> NoDecl]
    /\ revoking' = revoking \cup {k}
    /\ UNCHANGED <<up, crashes, asked, room, talk>>

\* Nothing active under this DeviceRef: only the ledger is told.
RevokeUnopened(k, due) ==
    LET rs == Expired(rows, due) IN
    /\ Ready /\ k.kind = "revoke"
    /\ ~Stale(rs, k.dev, k.gen) /\ ~Stored(rs, k)
    /\ ActiveOf(rs, k.dev, k.gen) = {}
    /\ rows' = Revoked(rs, k)
    /\ revoking' = revoking \ {k}
    /\ UNCHANGED <<up, crashes, op, asked, room, watch, adrift, talk>>

RevokeReplay(k, due) ==
    LET rs == Expired(rows, due) IN
    /\ Ready /\ k.kind = "revoke"
    /\ ~Stale(rs, k.dev, k.gen) /\ Stored(rs, k)
    /\ rows' = rs
    /\ revoking' = revoking \ {k}
    /\ UNCHANGED <<up, crashes, op, asked, room, watch, adrift, talk>>

RevokeCommit ==
    /\ Holding("close")
    /\ RoomGone(op.key.dev)
    /\ rows' = Revoked(rows, op.key)
    /\ revoking' = revoking \ {op.key}
    /\ op' = Idle
    /\ UNCHANGED <<up, crashes, asked>>

\* Mutant: the row is marked before the room is known to be gone.
RevokeFailedQuietly ==
    /\ Holding("close")
    /\ rows' = Ended(rows, HeldSame(rows, op.key.dev, op.key.gen), "revoked")
    /\ op' = Idle
    /\ UNCHANGED <<up, crashes, asked, room, talk, adrift, watch, revoking>>

\* The room could not be deleted, or the answer to its deletion was lost: the
\* request fails with the ledger untouched.
RevokeFailed ==
    /\ Holding("close")
    /\ \/ RoomGone(op.key.dev)
       \/ UNCHANGED <<room, talk, adrift, watch>>
    /\ op' = Idle
    /\ UNCHANGED <<rows, up, crashes, asked, revoking>>

-----------------------------------------------------------------------------
\* Sessions: a conversation starts on an active channel and ends on a current
\* one.  Both hold the lock while they await the adapter.

Opens(d, g, due) ==
    LET rs == Expired(rows, due) IN
    /\ Ready
    /\ ActiveOf(rs, d, g) # {}
    /\ rows' = rs
    /\ asked' = [dev |-> d, gen |-> g, on |-> TRUE]
    /\ UNCHANGED <<up, crashes, op, room, watch, adrift, talk, revoking>>

\* `active_device`, else the current channel when only its credential lapsed.
Closes(d, g, due) ==
    LET rs == Expired(rows, due) IN
    /\ Ready
    /\ \E k \in HeldOf(rs, d) : k.gen = g
    /\ rows' = rs
    /\ asked' = [dev |-> d, gen |-> g, on |-> FALSE]
    /\ UNCHANGED <<up, crashes, op, room, watch, adrift, talk, revoking>>

\* The adapter places the conversation's dispatch in the room, or withdraws what
\* stands there.
Served ==
    /\ asked # Idle
    /\ asked.on => room[asked.dev]
    /\ talk' = [talk EXCEPT ![asked.dev] = asked.on]

\* The adapter has done so; the lock is released.
SessionDone ==
    /\ up /\ Served
    /\ asked' = Idle
    /\ UNCHANGED <<rows, up, crashes, op, room, watch, adrift, revoking>>

\* The adapter refused, or could not be reached, or its answer was lost.
SessionFailed ==
    /\ up /\ asked # Idle
    /\ Served \/ UNCHANGED talk
    /\ asked' = Idle
    /\ UNCHANGED <<rows, up, crashes, op, room, watch, adrift, revoking>>

\* Packets are served from the moment of connecting, stored or not.
Hears(d) == watch[d] # NoWatch /\ watch[d].conn \in {"entered", "joined"}

\* The device asks over its own channel; the listener says which DeviceRef
\* the request is for.
DeviceAsks(d, due)  == Hears(d) /\ Opens(d, watch[d].gen, due)
DeviceStops(d, due) == Hears(d) /\ Closes(d, watch[d].gen, due)

\* The Hub asks over the control API, naming the DeviceRef itself.
HubOpens(d, g, due)  == Opens(d, g, due)
HubCloses(d, g, due) == Closes(d, g, due)

\* The reads that sweep: current and presence.
Read(due) ==
    /\ Ready
    /\ due # {}
    /\ ExpireCredentials(due)
    /\ UNCHANGED serviceVars

-----------------------------------------------------------------------------
\* The listener's connection

\* The join, or a retry of it, has connected; `_join` goes on to reconcile.
Joins(d) ==
    /\ watch[d] # NoWatch /\ watch[d].conn \in {"joining", "retrying"}
    /\ room[d]
    /\ watch' = [watch EXCEPT ![d].conn = "entered"]
    /\ UNCHANGED <<rows, up, crashes, op, asked, room, adrift, talk, revoking>>

\* The policies are reconciled and the connection is stored, lost or not; with
\* that the join is over, and its retry loop too.
Settles(d) ==
    /\ watch[d] # NoWatch /\ watch[d].conn \in {"entered", "cut"}
    /\ watch' = [watch EXCEPT ![d].conn = IF @ = "entered" THEN "joined" ELSE "deaf"]
    /\ UNCHANGED <<rows, up, crashes, op, asked, room, adrift, talk, revoking>>

\* Mutant: a failed join is final.
JoinFailsForGood(d) ==
    /\ watch[d] # NoWatch /\ watch[d].conn \in {"joining", "entered", "cut"}
    /\ watch' = [watch EXCEPT ![d] = NoWatch]
    /\ UNCHANGED <<rows, up, crashes, op, asked, room, adrift, talk, revoking>>

\* Connecting or reconciling failed: what was opened is closed, and the join is
\* retried, the first one too.
JoinFails(d) ==
    /\ watch[d] # NoWatch /\ watch[d].conn \in {"joining", "entered", "cut"}
    /\ watch' = [watch EXCEPT ![d].conn = "retrying"]
    /\ UNCHANGED <<rows, up, crashes, op, asked, room, adrift, talk, revoking>>

LosesConnection(d) ==
    /\ Hears(d)
    /\ watch' = [watch EXCEPT ![d].conn = Lost(@)]
    /\ UNCHANGED <<rows, up, crashes, op, asked, room, adrift, talk, revoking>>

\* The join that outlived its listener reaches a room, or fails; a connection
\* left open is lost.
AdriftEnds(d, how) ==
    /\ \/ adrift[d] = "joining" /\ (how = "joined" => room[d])
       \/ adrift[d] = "joined" /\ how = "none"
    /\ adrift' = [adrift EXCEPT ![d] = how]
    /\ UNCHANGED <<rows, up, crashes, op, asked, room, watch, talk, revoking>>

-----------------------------------------------------------------------------
\* Crash and restart

Crash ==
    /\ up /\ crashes < MaxCrashes
    /\ crashes' = crashes + 1
    /\ up' = FALSE
    /\ op' = Idle
    /\ asked' = Idle
    /\ watch' = [d \in Devices |-> NoWatch]
    /\ adrift' = [d \in Devices |-> "none"]
    /\ \/ UNCHANGED <<room, talk>>
       \/ /\ Holding("open")
          /\ room' = [room EXCEPT ![op.key.dev] = TRUE]
          /\ UNCHANGED talk
       \/ /\ Holding("close")
          /\ room' = [room EXCEPT ![op.key.dev] = FALSE]
          /\ talk' = [talk EXCEPT ![op.key.dev] = FALSE]
       \/ Served /\ UNCHANGED room
    /\ UNCHANGED <<rows, revoking>>

\* The listener of one row, as a restart registers it.
Rejoining(rs, k) ==
    [gen |-> k.gen, rev |-> rs[k].decl.policy.revision, conn |-> "retrying"]

\* Mutant: a lapsed channel is not listened to after a restart.
ResumedActiveOnly(rs) ==
    [d \in Devices |->
        LET live == {k \in ActiveRows(rs) : k.dev = d} IN
        IF live = {} THEN NoWatch ELSE Rejoining(rs, CHOOSE k \in live : TRUE)]

\* The listeners of every channel the ledger holds.
Resumed(rs) ==
    [d \in Devices |->
        IF HeldOf(rs, d) = {} THEN NoWatch
        ELSE Rejoining(rs, CHOOSE k \in HeldOf(rs, d) : TRUE)]

\* start: expire, then listen to every current channel, lapsed ones included.
\* Each join has succeeded or been left to retry before requests are served.
Restart(due) ==
    LET rs == Expired(rows, due) IN
    /\ ~up
    /\ up' = TRUE
    /\ rows' = rs
    /\ watch' = Resumed(rs)
    /\ UNCHANGED <<crashes, op, asked, room, adrift, talk, revoking>>

-----------------------------------------------------------------------------
SomeProvision(due) ==
    \E k \in Keys, decl \in Declarations :
        ProvisionStart(k, decl, due) \/ ProvisionReplay(k, decl, due)

SomeRevoke(due) ==
    \E k \in Keys : \/ RevokeStart(k, due)
                    \/ RevokeUnopened(k, due)
                    \/ RevokeReplay(k, due)

SomeSession(due) ==
    \E d \in Devices : \/ DeviceAsks(d, due)
                       \/ DeviceStops(d, due)
                       \/ \E g \in Generations : HubOpens(d, g, due) \/ HubCloses(d, g, due)

ProviderNext ==
    \/ \E due \in SUBSET ActiveRows(rows) :
          SomeProvision(due) \/ SomeRevoke(due) \/ SomeSession(due) \/ Read(due) \/ Restart(due)
    \/ \E handle \in Handles : ProvisionCommit(handle)
    \/ ProvisionRefused
    \/ ProvisionFailed
    \/ RevokeCommit
    \/ RevokeFailed
    \/ SessionDone
    \/ SessionFailed
    \/ \E d \in Devices : Joins(d) \/ Settles(d) \/ JoinFails(d) \/ LosesConnection(d)
    \/ \E d \in Devices, how \in {"joined", "none"} : AdriftEnds(d, how)
    \/ Crash

ProviderSpec == ProviderInit /\ [][ProviderNext]_providerVars

\* A crashed process is restarted by its supervisor, the rejoin loop tries for as
\* long as the listener is registered, and the calls of a reconciliation end.
ProviderFairness ==
    /\ WF_providerVars(\E due \in SUBSET ActiveRows(rows) : Restart(due))
    /\ \A d \in Devices : WF_providerVars(Joins(d)) /\ WF_providerVars(Settles(d))

FairProviderSpec == ProviderSpec /\ ProviderFairness

-----------------------------------------------------------------------------
ProviderTypeOK ==
    /\ TypeOK
    /\ up \in BOOLEAN /\ crashes \in 0 .. MaxCrashes
    /\ op \in Operation \cup {Idle} /\ asked \in Request \cup {Idle}
    /\ room \in [Devices -> BOOLEAN] /\ talk \in [Devices -> BOOLEAN]
    /\ watch \in [Devices -> Watch \cup {NoWatch}]
    /\ adrift \in [Devices -> {"none", "joining", "joined"}]
    /\ revoking \subseteq Keys

BeingRevoked(k) == \E r \in revoking : r.dev = k.dev /\ r.gen = k.gen

\* A channel the ledger holds, live or lapsed, has its room and is listened to
\* while the Provider runs, whatever failed or was refused before; only a
\* revocation of that very generation the Hub has no answer to may be in the
\* way.  (start, the accept after provision, `_same_transport_resource`.)
HeldChannelIsReachable ==
    \A k \in Keys :
        Held(rows, k) /\ ~BeingRevoked(k) =>
            room[k.dev] /\ (up => watch[k.dev] # NoWatch)

\* A conversation begins only on a channel that is active when it begins, of the
\* very DeviceRef the request was checked against before the adapter was awaited,
\* and that nothing is withdrawing: `_converge_serving` cannot straddle a
\* revocation, a replacement or an expiry.
NoOpeningWhileWithdrawn ==
    [][\A d \in Devices :
          ~talk[d] /\ talk'[d] =>
              /\ asked # Idle /\ ActiveOf(rows, d, asked.gen) # {}
              /\ ~(Holding("close") /\ op.key.dev = d)]_providerVars

\* The service writes the ledger by its transactions alone: every theorem about
\* ChannelLedger holds of the running Provider, through crashes and failures.
UsesLedger == Init /\ [][Next]_rows

\* A channel that is to be heard: the ledger holds it and nobody revokes it.
ToBeHeard(d) ==
    HeldOf(rows, d) # {} /\ \A k \in HeldOf(rows, d) : ~BeingRevoked(k)

\* A listener that has stored a lost connection: nothing is left to notice.
Deaf(d) == watch[d] # NoWatch /\ watch[d].conn = "deaf"

\* A channel the ledger holds is heard, in the end: whatever joins failed and
\* connections were lost, the listener is in the room again, unless the channel
\* is given up or being revoked.  The exception is the connection lost while
\* `_join` was still reconciling, which nobody rejoins.
HeldIsHeard ==
    \A d \in Devices : ToBeHeard(d) ~> Hears(d) \/ Deaf(d) \/ ~ToBeHeard(d)

-----------------------------------------------------------------------------
\* What the documents say and the code does not do

\* docs/channel-provider.md, "Revoke wire contract": the Provider first stops
\* listening to and deletes the current channel, then marks its credential
\* revoked.  A channel marked revoked is then no longer listened to.
RevokedChannelIsSilent ==
    \A k \in Keys :
        Ready /\ rows[k].status = "revoked" /\ HeldOf(rows, k.dev) = {}
            => watch[k.dev] = NoWatch

\* The same document, on idempotency and recovery: a stop the device sends on its
\* own channel is carried out on its current channel, active or expired.  The
\* listener must then speak for the current channel's DeviceRef.
DeviceCanStop ==
    \A d \in Devices, k \in Keys :
        Ready /\ talk[d] /\ k \in HeldOf(rows, d) /\ Hears(d) => watch[d].gen = k.gen

\* adapter.py, `_dropped`: getting back in is this adapter's job for as long as it
\* has said it is carrying the channel.  Then no channel is deaf for good.
HeldIsHeardAgain ==
    \A d \in Devices : ToBeHeard(d) ~> Hears(d) \/ ~ToBeHeard(d)

\* service.py, `_revoke_once`: listening stops before the channel goes.
NobodyListensAdrift == \A d \in Devices : adrift[d] # "joined"
=============================================================================
