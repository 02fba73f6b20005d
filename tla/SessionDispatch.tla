--------------------------- MODULE SessionDispatch ---------------------------
(***************************************************************************)
(* The conversations of one room as the LiveKit adapter of the Channel     *)
(* Provider keeps them (channel_provider/adapters/livekit/adapter.py): a   *)
(* conversation is a dispatch, a standing order that LiveKit turns into a  *)
(* job and the job into an agent in the room.                              *)
(*                                                                         *)
(* open_session and close_session run under the service lock, one LiveKit  *)
(* call at a time; the confirmation of each placed dispatch runs outside   *)
(* the lock and finds its dispatch again by the conversation's name.       *)
(* LiveKit and the agent workers are external.  Time is counted in ticks   *)
(* of ten seconds, _SERVING_CONFIRM_DELAY.  Requests that contradict the   *)
(* plan of their own conversation are refused without effect and left out; *)
(* so are team and directed scenes, which reserve the device.              *)
(***************************************************************************)
EXTENDS Naturals, FiniteSets

CONSTANTS
    Conversations,     \* the names conversations go by
    AnyOne,            \* close_session(None): whatever is being held
    NoOne,             \* nobody holds the service lock
    MaxDispatches,     \* bound on the dispatches ever placed
    Faults,            \* what may go wrong: a "call", a "read", a "crash"
    MaxFaults          \* bound on how often

ASSUME DispatchAssumption ==
    /\ AnyOne \notin Conversations
    /\ MaxDispatches \in Nat /\ MaxFaults \in Nat
    /\ Faults \subseteq {"call", "read", "crash"}

VARIABLES
    dispatch,   \* the dispatch records of the room, in the order of placing
    agent,      \* agent[i]: whether the agent of dispatch i is in the room
    doing,      \* the open or close that holds the lock
    check,      \* check[i]: the confirmation started when i was placed
    faults      \* how many so far

vars == <<dispatch, agent, doing, check, faults>>

Ids == 1 .. MaxDispatches
Unplaced == [st |-> "none", conv |-> AnyOne, by |-> "nobody", over |-> FALSE]
NoCheck == [at |-> "off", left |-> 0, found |-> 0]

Placed == {i \in Ids : dispatch[i].st # "none"}
There == {i \in Ids : dispatch[i].st = "there"}

\* _is_spent: jobs were listed, and all of them are over.
Live == {i \in There : ~dispatch[i].over}

Init ==
    /\ dispatch = [i \in Ids |-> Unplaced]
    /\ agent = [i \in Ids |-> "away"]
    /\ doing = NoOne
    /\ check = [i \in Ids |-> NoCheck]
    /\ faults = 0

Fault(kind) ==
    /\ kind \in Faults /\ faults < MaxFaults
    /\ faults' = faults + 1

Gone(ds, i) == [ds EXCEPT ![i].st = "gone"]

-----------------------------------------------------------------------------
\* open_session

\* Mutant: a device's new conversation supersedes anybody's.
MayReplaceAnybodys(i, by) == by = "device"

\* Only a conversation the device itself asked for gives way, and only to the
\* device asking for another one.
MayReplace(i, by) == by = "device" /\ dispatch[i].by = "device"

\* Mutant: the records of ended conversations are left where they are.
ClearedLeavingSpent(c) == {i \in Live : dispatch[i].conv # c}

\* The dispatches an open deletes: what it supersedes, and unless its own
\* conversation is already held, the spent ones.
Cleared(c) ==
    IF \E i \in Live : dispatch[i].conv = c
    THEN {i \in Live : dispatch[i].conv # c} ELSE There

\* The whole snapshot is inspected before anything is changed.
OpenLists(c, by) ==
    /\ doing = NoOne
    /\ Cardinality(Placed) < MaxDispatches
    /\ \A i \in Live : dispatch[i].conv # c => MayReplace(i, by)
    /\ doing' = [what |-> "open", conv |-> c, by |-> by, todo |-> Cleared(c),
                 place |-> \A i \in Live : dispatch[i].conv # c]
    /\ UNCHANGED <<dispatch, agent, check, faults>>

OpenServed ==
    /\ doing # NoOne /\ doing.what = "open" /\ doing.todo = {} /\ ~doing.place
    /\ doing' = NoOne
    /\ UNCHANGED <<dispatch, agent, check, faults>>

Create(i) ==
    dispatch' = [dispatch EXCEPT ![i] =
        [st |-> "there", conv |-> doing.conv, by |-> doing.by, over |-> FALSE]]

\* The dispatch is placed, and a confirmation started that looks in a tick.
OpenPlaces(i) ==
    /\ doing # NoOne /\ doing.what = "open" /\ doing.todo = {} /\ doing.place
    /\ i = Cardinality(Placed) + 1
    /\ Create(i)
    /\ check' = [check EXCEPT ![i] = [at |-> "first", left |-> 1, found |-> 0]]
    /\ doing' = NoOne
    /\ UNCHANGED <<agent, faults>>

-----------------------------------------------------------------------------
\* close_session

CloseLists(c) ==
    /\ doing = NoOne
    /\ doing' = [what |-> "close", conv |-> c, by |-> "nobody", place |-> FALSE,
                 todo |-> {i \in There : c \in {AnyOne, dispatch[i].conv}}]
    /\ UNCHANGED <<dispatch, agent, check, faults>>

CloseDone ==
    /\ doing # NoOne /\ doing.what = "close" /\ doing.todo = {}
    /\ doing' = NoOne
    /\ UNCHANGED <<dispatch, agent, check, faults>>

-----------------------------------------------------------------------------
\* Both delete dispatches one call at a time.  One that is already gone is
\* reported as such and ends the operation: an open with an error, a close with
\* an answer.

Deletes(i) ==
    /\ doing # NoOne /\ i \in doing.todo
    /\ \/ /\ dispatch' = Gone(dispatch, i)
          /\ doing' = [doing EXCEPT !.todo = @ \ {i}]
       \/ /\ i \notin There
          /\ doing' = NoOne
          /\ UNCHANGED dispatch
    /\ UNCHANGED <<agent, check, faults>>

\* A call fails, or its answer is lost after it took effect.
Interrupted ==
    /\ doing # NoOne
    /\ doing' = NoOne
    /\ \/ UNCHANGED dispatch
       \/ \E i \in doing.todo : dispatch' = Gone(dispatch, i)
       \/ /\ doing.place /\ doing.todo = {}
          /\ \E i \in Ids : i = Cardinality(Placed) + 1 /\ Create(i)

CallFails ==
    /\ Fault("call")
    /\ Interrupted
    /\ UNCHANGED <<agent, check>>

\* The process goes, with the lock, what was half done and every confirmation.
Crash ==
    /\ Fault("crash")
    /\ IF doing = NoOne THEN UNCHANGED <<dispatch, doing>> ELSE Interrupted
    /\ check' = [i \in Ids |-> NoCheck]
    /\ UNCHANGED agent

-----------------------------------------------------------------------------
\* The confirmation of a placed dispatch

Due(i) == check[i].at \in {"first", "second"} /\ check[i].left = 0

\* `_dispatch_for`: any dispatch that stands for the conversation.
Named(i) == {j \in There : dispatch[j].conv = dispatch[i].conv}

CheckLists(i) ==
    /\ Due(i)
    /\ \/ /\ Named(i) = {}
          /\ check' = [check EXCEPT ![i] = NoCheck]
       \/ \E j \in Named(i) :
             check' = [check EXCEPT ![i].found = j,
                          ![i].at = IF @ = "first" THEN "look1" ELSE "look2"]
    /\ UNCHANGED <<dispatch, agent, doing, faults>>

InRoom == {i \in Ids : agent[i] = "in"}

\* Mutant: the second look is timed from the placing again.
LookedInVainAnew(i) ==
    IF check[i].at = "look1" THEN [at |-> "second", left |-> 3, found |-> 0]
    ELSE [check[i] EXCEPT !.at = "withdraw"]

\* Mutant: an unserved dispatch is reported, and not looked at again.
LookedOnce(i) == NoCheck

\* What a confirmation does after nobody was seen in the room.
LookedInVain(i) ==
    IF check[i].at = "look1" THEN [at |-> "second", left |-> 2, found |-> 0]
    ELSE [check[i] EXCEPT !.at = "withdraw"]

CheckLooks(i) ==
    /\ check[i].at \in {"look1", "look2"}
    /\ check' = [check EXCEPT ![i] = IF InRoom # {} THEN NoCheck ELSE LookedInVain(i)]
    /\ UNCHANGED <<dispatch, agent, doing, faults>>

\* Outside the service lock.
CheckWithdraws(i) ==
    /\ check[i].at = "withdraw"
    /\ dispatch' = Gone(dispatch, check[i].found)
    /\ check' = [check EXCEPT ![i] = NoCheck]
    /\ UNCHANGED <<agent, doing, faults>>

\* Nobody could look, or the withdrawal failed: the confirmation ends.
CheckFails(i) ==
    /\ Due(i) \/ check[i].at \in {"look1", "look2", "withdraw"}
    /\ Fault("read")
    /\ check' = [check EXCEPT ![i] = NoCheck]
    /\ UNCHANGED <<dispatch, agent, doing>>

-----------------------------------------------------------------------------
\* LiveKit and the workers

\* An agent may be in the room before its job is listed.
AgentJoins(i) ==
    /\ i \in Live /\ agent[i] = "away"
    /\ agent' = [agent EXCEPT ![i] = "in"]
    /\ UNCHANGED <<dispatch, doing, check, faults>>

JobEnds(i) ==
    /\ i \in Live
    /\ dispatch' = [dispatch EXCEPT ![i].over = TRUE]
    /\ agent' = [agent EXCEPT ![i] = IF @ = "in" THEN "left" ELSE @]
    /\ UNCHANGED <<doing, check, faults>>

\* An agent leaves a withdrawn dispatch, or is lost while its job reads running.
AgentLeaves(i) ==
    /\ agent[i] = "in"
    /\ agent' = [agent EXCEPT ![i] = "left"]
    /\ UNCHANGED <<dispatch, doing, check, faults>>

\* Ten seconds pass.  The agent of a withdrawn dispatch leaves sooner.
Tick ==
    /\ InRoom \subseteq There
    /\ \E i \in Ids : check[i].left > 0
    /\ check' = [i \in Ids |-> [check[i] EXCEPT !.left = IF @ > 0 THEN @ - 1 ELSE 0]]
    /\ UNCHANGED <<dispatch, agent, doing, faults>>

-----------------------------------------------------------------------------
Confirms(i) == CheckLists(i) \/ CheckLooks(i) \/ CheckWithdraws(i)

Next ==
    \/ \E c \in Conversations, by \in {"device", "hub"} : OpenLists(c, by)
    \/ \E c \in Conversations \cup {AnyOne} : CloseLists(c)
    \/ OpenServed \/ CloseDone \/ CallFails \/ Crash \/ Tick
    \/ \E i \in Ids :
          \/ OpenPlaces(i) \/ Deletes(i)
          \/ Confirms(i) \/ CheckFails(i)
          \/ AgentJoins(i) \/ JobEnds(i) \/ AgentLeaves(i)

Spec == Init /\ [][Next]_vars

\* Sleeping tasks wake up, the agents of withdrawn dispatches leave.
Fairness ==
    /\ WF_vars(Tick)
    /\ \A i \in Ids : WF_vars(Confirms(i)) /\ WF_vars(i \notin There /\ AgentLeaves(i))

FairSpec == Spec /\ Fairness

-----------------------------------------------------------------------------
TypeOK ==
    /\ dispatch \in [Ids -> [st : {"none", "there", "gone"},
                             conv : Conversations \cup {AnyOne},
                             by : {"device", "hub", "nobody"},
                             over : BOOLEAN]]
    /\ agent \in [Ids -> {"away", "in", "left"}]
    /\ doing = NoOne \/ doing \in [what : {"open", "close"},
                                   conv : Conversations \cup {AnyOne},
                                   by : {"device", "hub", "nobody"},
                                   todo : SUBSET Ids, place : BOOLEAN]
    /\ check \in [Ids -> [at : {"off", "first", "second", "look1", "look2", "withdraw"},
                          left : 0 .. 2, found : {0} \cup Ids]]
    /\ faults \in 0 .. MaxFaults

\* The room holds one dispatch at most: whatever was superseded, spent, half
\* opened or left behind by a crash is gone before another is placed.
OneDispatch == Cardinality(There) <= 1

\* A conversation that is not over is withdrawn by a close that means it, by
\* the device that asked for it turning to another one, or by a confirmation
\* that found nobody serving it; nobody else's request ends it.
WithdrawnWithStanding ==
    [][\A i \in Live : dispatch'[i].st = "gone" =>
          \/ \E j \in Ids : check[j].at = "withdraw" /\ check[j].found = i
          \/ doing.what = "close" /\ doing.conv \in {AnyOne, dispatch[i].conv}
          \/ /\ doing.what = "open" /\ doing.conv # dispatch[i].conv
             /\ doing.by = "device" /\ dispatch[i].by = "device"]_vars

Unserved(i) == i \in Live /\ agent[i] = "away"

\* A dispatch that no agent ever serves does not occupy the room for good, as
\* long as no call or read fails.
FreedUnlessServed == \A i \in Ids : Unserved(i) ~> (~Unserved(i) \/ faults > 0)

\* adapter.py, _confirm_serving_later: a dispatch still unserved after the
\* second look is withdrawn.
FreedWhateverIsRead == \A i \in Ids : Unserved(i) ~> ~Unserved(i)

\* A dispatch's own confirmation has not waited its time yet.
StillWaitedFor(i) == check[i].at \in {"first", "second"} /\ check[i].left > 0

\* adapter.py, _confirm_serving_later: what a confirmation withdraws had the
\* whole window to be served, counted from when it was placed.
ReclaimIsDue ==
    [][\A i \in Live : dispatch'[i].st = "gone" /\ doing' = doing => ~StillWaitedFor(i)]_vars
=============================================================================
