----------------------------- MODULE SpeechPool -----------------------------
(***************************************************************************)
(* The pool of pre-warmed TTS connections (plugins/tts/_pool.py) and its   *)
(* two users.  A turn takes one connection and discards it; the pool opens *)
(* a replacement behind its back.  The SenseTime plugin opens a connection *)
(* inline when the pool is empty; the Bailian plugin waits for a refill,   *)
(* and starts a task on the connection before it is used.                  *)
(*                                                                         *)
(* A step is the code between two awaits.  The identity of a connection is *)
(* free again once the connection is closed.  Which of the ready ones have *)
(* sat idle for too long is up to the clock: any of them may have, but     *)
(* while a caller waits they are all new, for it wakes within the tick.    *)
(* The lock by which a plugin lets in one stream at a time is left out:    *)
(* the pool is written for any number of callers.                          *)
(***************************************************************************)
EXTENDS FiniteSets, Integers

CONSTANTS
    Conns,        \* identities of connections
    Streams,      \* the callers
    Size,         \* the target of the pool
    NoConn,
    MaxOutages,   \* bound on factory calls that fail
    MaxLost       \* bound on connections lost in a handshake

ASSUME PoolAssumption ==
    /\ IsFiniteSet(Conns) /\ NoConn \notin Conns
    /\ Size \in Nat \ {0} /\ MaxOutages \in Nat /\ MaxLost \in Nat

VARIABLES
    conn,      \* conn[c]: where connection c is in its life
    stream,    \* stream[s]: what caller s is doing
    out,       \* out[s]: the connection it was given
    inline,    \* enable_inline_slow_path: the SenseTime configuration
    warmup,    \* the one warm-up: "no", "on" or "done"
    closing,   \* "no", "on" (shutdown drains the pool) or "done"
    outages,
    lost

vars == <<conn, stream, out, inline, warmup, closing, outages, lost>>

Closed == closing # "no"

At(cs, where) == {c \in Conns : cs[c] \in where}
Free(cs)  == At(cs, {"free"})
Ready(cs) == At(cs, {"ready"})

\* Refill tasks not done: opening, backing off, or disposing of a surplus.
InFlight(cs) == At(cs, {"refilling", "failed", "surplus"})

Init ==
    /\ conn = [c \in Conns |-> "free"]
    /\ stream = [s \in Streams |-> "idle"]
    /\ out = [s \in Streams |-> NoConn]
    /\ inline \in BOOLEAN
    /\ warmup = "no" /\ closing = "no"
    /\ outages = 0 /\ lost = 0

\* Any n free identities: which ones does not matter.
Fresh(cs, n) == CHOOSE F \in SUBSET Free(cs) : Cardinality(F) = n

Moved(cs, K, where) == [c \in Conns |-> IF c \in K THEN where ELSE cs[c]]

-----------------------------------------------------------------------------
\* Refilling

\* Mutant: refills under way are not counted.
DeficitOfReady(cs) == Size - Cardinality(Ready(cs))

Deficit(cs) == Size - Cardinality(Ready(cs)) - Cardinality(InFlight(cs))

\* _maybe_refill: a task for every connection the pool is short of.
Refills(cs) ==
    IF Closed \/ Deficit(cs) <= 0 THEN conn' = cs
    ELSE /\ Deficit(cs) <= Cardinality(Free(cs))
         /\ conn' = Moved(cs, Fresh(cs, Deficit(cs)), "refilling")

\* The factory fails: a bounded number of times.
Outage == outages < MaxOutages /\ outages' = outages + 1

\* _opportunistic_refill: the new connection joins the pool, or is a surplus.
RefillOpens(c) ==
    /\ conn[c] = "refilling"
    /\ conn' = [conn EXCEPT ![c] =
                  IF Cardinality(Ready(conn)) >= Size THEN "surplus" ELSE "ready"]
    /\ UNCHANGED <<stream, out, inline, warmup, closing, outages, lost>>

\* The task backs off before it is over, and nothing is tried again.
RefillFails(c) ==
    /\ conn[c] = "refilling" /\ Outage
    /\ conn' = [conn EXCEPT ![c] = "failed"]
    /\ UNCHANGED <<stream, out, inline, warmup, closing, lost>>

\* A task that backed off is over; a discarded connection is closed.
Disposed(c) ==
    /\ conn[c] \in {"failed", "surplus", "dirty"}
    /\ conn' = [conn EXCEPT ![c] = "free"]
    /\ UNCHANGED <<stream, out, inline, warmup, closing, outages, lost>>

-----------------------------------------------------------------------------
\* Warm-up, which streams need not wait for

\* n connections: up to the target, or fewer for the Bailian plugin.
WarmupStarts(n) ==
    LET total == n + Cardinality(Ready(conn)) IN
    /\ warmup = "no" /\ ~Closed
    /\ n <= Cardinality(Free(conn))
    /\ IF inline THEN total = Size ELSE total <= Size
    /\ warmup' = "on"
    /\ conn' = Moved(conn, Fresh(conn, n), "warming")
    /\ UNCHANGED <<stream, out, inline, closing, outages, lost>>

WarmupOpens(c) ==
    /\ conn[c] = "warming"
    /\ \/ conn' = [conn EXCEPT ![c] = "warm"] /\ UNCHANGED outages
       \/ conn' = [conn EXCEPT ![c] = "free"] /\ Outage
    /\ UNCHANGED <<stream, out, inline, warmup, closing, lost>>

\* gather has every answer: all that opened are put, for all the refills that
\* went on meanwhile.  The Bailian plugin then tops the pool up.
WarmupEnds ==
    LET warmed == Moved(conn, At(conn, {"warm"}), "ready") IN
    /\ warmup = "on" /\ At(conn, {"warming"}) = {}
    /\ warmup' = "done"
    /\ IF inline \/ At(conn, {"warm"}) = {} THEN conn' = warmed ELSE Refills(warmed)
    /\ UNCHANGED <<stream, out, inline, closing, outages, lost>>

-----------------------------------------------------------------------------
\* A turn

\* Caller s was given connection c out of cs.
Given(s, c, cs) ==
    /\ out' = [out EXCEPT ![s] = c]
    /\ stream' = [stream EXCEPT ![s] = IF inline THEN "using" ELSE "starting"]
    /\ Refills([cs EXCEPT ![c] = "used"])

\* acquire: connections idle for too long are discarded, then the pool gives
\* one, or the caller opens its own or waits.
Acquire(s, stale) ==
    LET cs == Moved(conn, stale, "dirty") IN
    /\ stream[s] = "idle" /\ ~Closed
    /\ stale \subseteq Ready(conn)
    /\ inline \/ (\E t \in Streams : stream[t] = "waiting") => stale = {}
    /\ \/ \E c \in Ready(cs) : Given(s, c, cs)
       \/ /\ Ready(cs) = {} /\ inline /\ Free(cs) # {}
          /\ \E c \in Fresh(cs, 1) : /\ conn' = [cs EXCEPT ![c] = "used"]
                                     /\ out' = [out EXCEPT ![s] = c]
          /\ stream' = [stream EXCEPT ![s] = "opening"]
       \/ /\ Ready(cs) = {} /\ ~inline
          /\ Refills(cs)
          /\ stream' = [stream EXCEPT ![s] = "waiting"]
          /\ UNCHANGED out
    /\ UNCHANGED <<inline, warmup, closing, outages, lost>>

\* Mutant: a caller that had to wait schedules no replacement.
WaiterTakesLast(s) ==
    /\ stream[s] = "waiting"
    /\ \E c \in Ready(conn) :
          /\ out' = [out EXCEPT ![s] = c]
          /\ stream' = [stream EXCEPT ![s] = "starting"]
          /\ conn' = [conn EXCEPT ![c] = "used"]
    /\ UNCHANGED <<inline, warmup, closing, outages, lost>>

\* The wait of acquire ends with a connection, even while shutdown drains.
WaiterGets(s) ==
    /\ stream[s] = "waiting"
    /\ \E c \in Ready(conn) : Given(s, c, conn)
    /\ UNCHANGED <<inline, warmup, closing, outages, lost>>

\* It times out, or the turn is cancelled.
WaiterGivesUp(s) ==
    /\ stream[s] = "waiting"
    /\ stream' = [stream EXCEPT ![s] = "idle"]
    /\ UNCHANGED <<conn, out, inline, warmup, closing, outages, lost>>

\* Mutant: a caller whose factory failed keeps what it was promised.
InlineOpensOrKeeps(s) ==
    /\ stream[s] = "opening"
    /\ \/ /\ stream' = [stream EXCEPT ![s] = "using"]
          /\ Refills(conn)
          /\ UNCHANGED outages
       \/ /\ stream' = [stream EXCEPT ![s] = "idle"]
          /\ Outage
          /\ Refills([conn EXCEPT ![out[s]] = "free"])
    /\ UNCHANGED <<out, inline, warmup, closing, lost>>

\* The inline factory answers; whatever it does, the pool is topped up.
InlineOpens(s) ==
    /\ stream[s] = "opening"
    /\ \/ /\ stream' = [stream EXCEPT ![s] = "using"]
          /\ Refills(conn)
          /\ UNCHANGED <<out, outages>>
       \/ /\ stream' = [stream EXCEPT ![s] = "idle"]
          /\ Outage
          /\ out' = [out EXCEPT ![s] = NoConn]
          /\ Refills([conn EXCEPT ![out[s]] = "free"])
    /\ UNCHANGED <<inline, warmup, closing, lost>>

TaskStarts(s) ==
    /\ stream[s] = "starting"
    /\ stream' = [stream EXCEPT ![s] = "using"]
    /\ UNCHANGED <<conn, out, inline, warmup, closing, outages, lost>>

\* Mutant: once the pool is closed, discarding is left to it.
MarkDirtyWhileOpen(s) ==
    /\ stream[s] \in {"starting", "using"}
    /\ stream' = [stream EXCEPT ![s] = "idle"]
    /\ out' = [out EXCEPT ![s] = NoConn]
    /\ IF Closed THEN UNCHANGED conn ELSE Refills([conn EXCEPT ![out[s]] = "dirty"])
    /\ UNCHANGED <<inline, warmup, closing, outages, lost>>

\* mark_dirty: at the end of the turn, or when the task could not be started
\* and the caller tries another connection.
MarkDirty(s) ==
    /\ stream[s] \in {"starting", "using"}
    /\ stream' = [stream EXCEPT ![s] = "idle"]
    /\ out' = [out EXCEPT ![s] = NoConn]
    /\ Refills([conn EXCEPT ![out[s]] = "dirty"])
    /\ UNCHANGED <<inline, warmup, closing, outages, lost>>

\* _acquire_started_conn: cancelled, or refused for good, while the task is
\* being started.
HandshakeAborted(s) ==
    /\ stream[s] = "starting" /\ lost < MaxLost
    /\ lost' = lost + 1
    /\ stream' = [stream EXCEPT ![s] = "idle"]
    /\ out' = [out EXCEPT ![s] = NoConn]
    /\ UNCHANGED <<conn, inline, warmup, closing, outages>>

-----------------------------------------------------------------------------
\* Shutdown

\* Mutant: shutdown closes the connections that are out as well.
ShutdownClosingAll ==
    /\ ~Closed /\ warmup # "on"
    /\ closing' = "on"
    /\ conn' = Moved(conn, InFlight(conn) \cup At(conn, {"used"}), "free")
    /\ UNCHANGED <<stream, out, inline, warmup, outages, lost>>

\* shutdown, which comes after the warm-up: no more refills, then the pool is
\* drained.  What a cancelled task had open goes with the HTTP session.
ShutdownStarts ==
    /\ ~Closed /\ warmup # "on"
    /\ closing' = "on"
    /\ conn' = Moved(conn, InFlight(conn), "free")
    /\ UNCHANGED <<stream, out, inline, warmup, outages, lost>>

ShutdownDrains ==
    /\ closing = "on"
    /\ \/ \E c \in Ready(conn) : conn' = [conn EXCEPT ![c] = "dirty"] /\ UNCHANGED closing
       \/ Ready(conn) = {} /\ closing' = "done" /\ UNCHANGED conn
    /\ UNCHANGED <<stream, out, inline, warmup, outages, lost>>

-----------------------------------------------------------------------------
Next ==
    \/ ShutdownStarts \/ ShutdownDrains \/ WarmupEnds
    \/ \E n \in 1 .. Size : WarmupStarts(n)
    \/ \E c \in Conns : RefillOpens(c) \/ RefillFails(c) \/ Disposed(c) \/ WarmupOpens(c)
    \/ \E s \in Streams :
          \/ \E stale \in SUBSET Conns : Acquire(s, stale)
          \/ WaiterGets(s) \/ WaiterGivesUp(s) \/ InlineOpens(s)
          \/ TaskStarts(s) \/ MarkDirty(s) \/ HandshakeAborted(s)

Spec == Init /\ [][Next]_vars

\* Factories and disposers answer, runnable tasks run, and a turn that holds a
\* connection ends: its watchdog sees to that.
Fairness ==
    /\ WF_vars(ShutdownDrains) /\ WF_vars(WarmupEnds)
    /\ \A c \in Conns : WF_vars(RefillOpens(c) \/ Disposed(c) \/ WarmupOpens(c))
    /\ \A s \in Streams : WF_vars(WaiterGets(s)) /\ WF_vars(MarkDirty(s) \/ InlineOpens(s))

FairSpec == Spec /\ Fairness

-----------------------------------------------------------------------------
TypeOK ==
    /\ conn \in [Conns -> {"free", "refilling", "failed", "surplus", "warming", "warm",
                           "ready", "used", "dirty"}]
    /\ stream \in [Streams -> {"idle", "waiting", "opening", "starting", "using"}]
    /\ out \in [Streams -> Conns \cup {NoConn}]
    /\ inline \in BOOLEAN
    /\ warmup \in {"no", "on", "done"} /\ closing \in {"no", "on", "done"}
    /\ outages \in 0 .. MaxOutages /\ lost \in 0 .. MaxLost
    /\ \A s \in Streams : out[s] # NoConn <=> stream[s] \in {"opening", "starting", "using"}

\* Turns are physically separate: a connection a turn holds is in nobody else's
\* hands, nor pooled, nor being closed.
TurnsAreSeparate ==
    \A s \in Streams : out[s] # NoConn =>
        /\ conn[out[s]] = "used"
        /\ \A t \in Streams \ {s} : out[t] # out[s]

\* While a caller waits, a connection is pooled or on its way: acquire leaves no
\* waiter without a producer.  Until the provider fails, and in a pool no warm-up
\* fills behind its back: one that does turns a refill into a surplus, which is
\* counted as under way while it is being closed.
WaitersAreProvidedFor ==
    (\E s \in Streams : stream[s] = "waiting") /\ ~Closed /\ outages = 0 /\ warmup = "no"
        => Ready(conn) \cup InFlight(conn) # {}

\* Refills never oversubscribe: at no call does the pool, with what is being
\* opened for it, grow past its target.
RefillsFitTarget ==
    [][InFlight(conn') \ InFlight(conn) # {} =>
          Cardinality(Ready(conn')) + Cardinality(InFlight(conn')) <= Size]_vars

\* Once shutdown is over nothing is pooled, and nothing comes in any more.
DrainedForGood == closing = "done" => Ready(conn) \cup InFlight(conn) = {}

\* The pool keeps to its target, which is none once it is shut down.
PoolKeepsToTarget == RefillsFitTarget /\ []DrainedForGood

\* What a turn took, or the pool discarded, is closed in the end: by the turn's
\* own discard or, once the pool is closed, then and there.
EveryTurnDiscards ==
    \A c \in Conns : conn[c] \in {"used", "dirty"} ~> (conn[c] \notin {"used", "dirty"} \/ lost > 0)

-----------------------------------------------------------------------------
\* What the documents say and the code does not do

\* _pool.py, "Designed for use once, discard": normally or via cancel, a turn's
\* connection is marked dirty and discarded.  None is then out that no turn holds.
NoneIsLost == \A c \in Conns : conn[c] = "used" => \E s \in Streams : out[s] = c
=============================================================================
