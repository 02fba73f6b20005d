------------------------ MODULE SessionDispatchProofs ------------------------
(***************************************************************************)
(* One dispatch in the room, for any number of conversations, dispatches   *)
(* and faults.  The argument: an open decides to place only when its       *)
(* snapshot holds no live dispatch of its conversation, so it has to       *)
(* delete all that stands; nobody else places while it holds the lock, so  *)
(* whatever stands is still on its list (PlacesLast); and it places when   *)
(* the list is empty.  Confirmations, jobs and crashes only take away.     *)
(* And whoever ends a conversation has the standing to, because what is    *)
(* on a list is a snapshot of what may be ended (Entitled), and neither    *)
(* the owner nor the conversation of a dispatch changes afterwards.        *)
(***************************************************************************)
EXTENDS SessionDispatch, FiniteSetTheorems, TLAPS

Standing == \A i, j \in There : i = j

\* What an open that is to place one has not deleted yet covers all that stands.
PlacesLast == doing # NoOne /\ doing.place => There \subseteq doing.todo

DispatchInv == TypeOK /\ Standing /\ PlacesLast

-----------------------------------------------------------------------------
\* The room is empty, and nobody is at work on it.
LEMMA InitInv == Init => DispatchInv
<1> SUFFICES ASSUME Init PROVE DispatchInv
  OBVIOUS
<1>1. TypeOK
  BY DispatchAssumption DEF Init, TypeOK, Unplaced, NoCheck
<1>2. There = {}
  BY DEF Init, There, Unplaced
<1> QED
  BY <1>1, <1>2 DEF DispatchInv, Standing, PlacesLast

\* Deleting a dispatch leaves the others as they were.
LEMMA GoneTakesOne ==
    ASSUME TypeOK, NEW i \in {0} \cup Ids
    PROVE  /\ Gone(dispatch, i) \in [Ids -> [st : {"none", "there", "gone"},
                                             conv : Conversations \cup {AnyOne},
                                             by : {"device", "hub", "nobody"},
                                             over : BOOLEAN]]
           /\ {j \in Ids : Gone(dispatch, i)[j].st = "there"} = There \ {i}
<1> DEFINE R == [st : {"none", "there", "gone"}, conv : Conversations \cup {AnyOne},
                 by : {"device", "hub", "nobody"}, over : BOOLEAN]
<1>1. dispatch \in [Ids -> R]
  BY DEF TypeOK
<1>2. \A r \in R : [r EXCEPT !.st = "gone"] \in R /\ [r EXCEPT !.st = "gone"].st = "gone"
  OBVIOUS
<1>3. CASE i \in Ids
  BY <1>1, <1>2, <1>3 DEF Gone, There
<1>4. CASE i = 0
  <2>1. 0 \notin Ids
    BY DEF Ids
  <2>2. Gone(dispatch, i) = dispatch
    BY <1>1, <1>4, <2>1 DEF Gone
  <2> QED
    BY <1>1, <1>4, <2>1, <2>2 DEF There
<1> QED
  BY <1>3, <1>4

\* A step that places nothing and leaves the open at work, or ends it, preserves the argument.
LEMMA FewerStand ==
    ASSUME DispatchInv, TypeOK', There' \subseteq There,
           doing' = NoOne \/ doing' = doing
    PROVE  DispatchInv'
BY DEF DispatchInv, Standing, PlacesLast

-----------------------------------------------------------------------------
\* The snapshot of an open that is to place one is what it deletes.
LEMMA OpenListsInv ==
    ASSUME DispatchInv, NEW c \in Conversations, NEW by \in {"device", "hub"}, OpenLists(c, by)
    PROVE  DispatchInv'
<1>1. Cleared(c) \subseteq Ids
  BY DEF Cleared, Live, There
<1>2. There' = There
  BY DEF OpenLists, There
<1>3. doing' \in [what : {"open", "close"}, conv : Conversations \cup {AnyOne},
                  by : {"device", "hub", "nobody"}, todo : SUBSET Ids, place : BOOLEAN]
  BY <1>1 DEF OpenLists
<1>4. TypeOK'
  BY <1>3 DEF DispatchInv, TypeOK, OpenLists
<1>5. doing'.place => There \subseteq doing'.todo
  BY DEF OpenLists, Cleared
<1> QED
  BY <1>2, <1>4, <1>5 DEF DispatchInv, Standing, PlacesLast

\* A close places nothing.
LEMMA CloseListsInv ==
    ASSUME DispatchInv, NEW c \in Conversations \cup {AnyOne}, CloseLists(c)
    PROVE  DispatchInv'
<1>1. There' = There /\ doing'.place = FALSE
  BY DEF CloseLists, There
<1>2. TypeOK'
  BY DEF DispatchInv, TypeOK, CloseLists, There
<1> QED
  BY <1>1, <1>2 DEF DispatchInv, Standing, PlacesLast

\* Creating a dispatch in an empty room leaves one.
LEMMA CreateAlone ==
    ASSUME DispatchInv, NEW i \in Ids, doing # NoOne, doing.place, doing.todo = {}, Create(i)
    PROVE  /\ dispatch' \in [Ids -> [st : {"none", "there", "gone"},
                                     conv : Conversations \cup {AnyOne},
                                     by : {"device", "hub", "nobody"}, over : BOOLEAN]]
           /\ There' \subseteq {i}
<1>1. There = {}
  BY DEF DispatchInv, PlacesLast
<1>2. doing.conv \in Conversations \cup {AnyOne} /\ doing.by \in {"device", "hub", "nobody"}
  BY DEF DispatchInv, TypeOK
<1> QED
  BY <1>1, <1>2 DEF DispatchInv, TypeOK, Create, There

\* An open places its dispatch in a room it has emptied.
LEMMA OpenPlacesInv == ASSUME DispatchInv, NEW i \in Ids, OpenPlaces(i) PROVE DispatchInv'
<1>1. There' \subseteq {i}
  BY CreateAlone DEF OpenPlaces
<1>2. TypeOK'
  <2>1. check' \in [Ids -> [at : {"off", "first", "second", "look1", "look2", "withdraw"},
                            left : 0 .. 2, found : {0} \cup Ids]]
    BY DEF DispatchInv, TypeOK, OpenPlaces
  <2> QED
    BY <2>1, CreateAlone DEF DispatchInv, TypeOK, OpenPlaces
<1> QED
  BY <1>1, <1>2 DEF DispatchInv, Standing, PlacesLast, OpenPlaces

\* What was deleted is off the list, and does not stand.
LEMMA DeletesInv == ASSUME DispatchInv, NEW i \in Ids, Deletes(i) PROVE DispatchInv'
<1>1. CASE UNCHANGED dispatch /\ doing' = NoOne
  <2>1. TypeOK' /\ There' = There
    BY <1>1 DEF DispatchInv, TypeOK, Deletes, There
  <2> QED
    BY <1>1, <2>1, FewerStand
<1>2. CASE dispatch' = Gone(dispatch, i) /\ doing' = [doing EXCEPT !.todo = @ \ {i}]
  <2>1. There' = There \ {i}
    BY <1>2, GoneTakesOne DEF DispatchInv, There
  <2>2. doing \in [what : {"open", "close"}, conv : Conversations \cup {AnyOne},
                   by : {"device", "hub", "nobody"}, todo : SUBSET Ids, place : BOOLEAN]
    BY DEF DispatchInv, TypeOK, Deletes
  <2>3. /\ doing' \in [what : {"open", "close"}, conv : Conversations \cup {AnyOne},
                       by : {"device", "hub", "nobody"}, todo : SUBSET Ids, place : BOOLEAN]
        /\ doing'.place = doing.place /\ doing'.todo = doing.todo \ {i}
    BY <1>2, <2>2
  <2>4. TypeOK'
    BY <1>2, <2>3, GoneTakesOne DEF DispatchInv, TypeOK, Deletes
  <2> QED
    BY <2>1, <2>3, <2>4 DEF DispatchInv, Standing, PlacesLast, Deletes
<1> QED
  BY <1>1, <1>2 DEF Deletes

\* An operation cut short has deleted, placed or done nothing more.
LEMMA InterruptedStands ==
    ASSUME DispatchInv, Interrupted
    PROVE  /\ dispatch' \in [Ids -> [st : {"none", "there", "gone"},
                                     conv : Conversations \cup {AnyOne},
                                     by : {"device", "hub", "nobody"}, over : BOOLEAN]]
           /\ Standing' /\ doing' = NoOne
<1>1. CASE UNCHANGED dispatch
  BY <1>1 DEF DispatchInv, TypeOK, Interrupted, Standing, There
<1>2. CASE \E i \in doing.todo : dispatch' = Gone(dispatch, i)
  <2>1. doing.todo \subseteq Ids
    BY DEF DispatchInv, TypeOK, Interrupted
  <2>2. PICK i \in Ids : dispatch' = Gone(dispatch, i)
    BY <1>2, <2>1
  <2>3. There' = There \ {i}
    BY <2>2, GoneTakesOne DEF DispatchInv, There
  <2> QED
    BY <2>2, <2>3, GoneTakesOne DEF DispatchInv, Standing, Interrupted
<1>3. CASE doing.place /\ doing.todo = {} /\ \E i \in Ids : i = Cardinality(Placed) + 1 /\ Create(i)
  BY <1>3, CreateAlone DEF Interrupted, Standing
<1> QED
  BY <1>1, <1>2, <1>3 DEF Interrupted

\* A call that fails and a crash cut operations short.
LEMMA FaultInv == ASSUME DispatchInv, CallFails \/ Crash PROVE DispatchInv'
<1>1. faults' \in 0 .. MaxFaults
  BY DispatchAssumption DEF DispatchInv, TypeOK, CallFails, Crash, Fault
<1>2. NoCheck \in [at : {"off", "first", "second", "look1", "look2", "withdraw"},
                   left : 0 .. 2, found : {0} \cup Ids]
  BY DEF NoCheck
<1>3. check' \in [Ids -> [at : {"off", "first", "second", "look1", "look2", "withdraw"},
                          left : 0 .. 2, found : {0} \cup Ids]]
  BY <1>2 DEF DispatchInv, TypeOK, CallFails, Crash
<1>4. CASE Interrupted
  <2>1. TypeOK'
    BY <1>1, <1>3, <1>4, InterruptedStands DEF DispatchInv, TypeOK, CallFails, Crash
  <2> QED
    BY <1>4, <2>1, InterruptedStands DEF DispatchInv, PlacesLast
<1>5. CASE UNCHANGED <<dispatch, doing>>
  <2>1. TypeOK' /\ There' = There
    BY <1>1, <1>3, <1>5 DEF DispatchInv, TypeOK, CallFails, Crash, There
  <2> QED
    BY <1>5, <2>1, FewerStand
<1> QED
  BY <1>4, <1>5 DEF CallFails, Crash

\* Confirmations look, sleep and withdraw.
LEMMA ChecksInv ==
    ASSUME DispatchInv, Tick \/ \E i \in Ids : Confirms(i) \/ CheckFails(i)
    PROVE  DispatchInv'
<1> DEFINE K == [at : {"off", "first", "second", "look1", "look2", "withdraw"},
                 left : 0 .. 2, found : {0} \cup Ids]
<1>0. check \in [Ids -> K] /\ NoCheck \in K
  BY DEF DispatchInv, TypeOK, NoCheck
<1>1. CASE Tick
  <2>1. \A k \in K : [k EXCEPT !.left = IF @ > 0 THEN @ - 1 ELSE 0] \in K
    OBVIOUS
  <2>2. check' \in [Ids -> K]
    BY <1>0, <1>1, <2>1 DEF Tick
  <2>3. TypeOK' /\ There' = There
    BY <1>1, <2>2 DEF DispatchInv, TypeOK, Tick, There
  <2> QED
    BY <1>1, <2>3, FewerStand DEF Tick
<1>2. ASSUME NEW i \in Ids, CheckLists(i) PROVE DispatchInv'
  <2>1. Named(i) \subseteq Ids
    BY DEF Named, There
  <2>2. ASSUME check' = [check EXCEPT ![i] = NoCheck] PROVE check' \in [Ids -> K]
    BY <1>0, <2>2
  <2>3. ASSUME NEW j \in Named(i),
               check' = [check EXCEPT ![i].found = j,
                              ![i].at = IF @ = "first" THEN "look1" ELSE "look2"]
        PROVE  check' \in [Ids -> K]
    <3>1. check[i] \in K /\ j \in Ids
      BY <1>0, <2>1
    <3>2. [[check[i] EXCEPT !.found = j] EXCEPT
              !.at = IF check[i].at = "first" THEN "look1" ELSE "look2"] \in K
      BY <3>1
    <3> QED
      BY <1>0, <2>3, <3>2
  <2>4. check' \in [Ids -> K]
    BY <1>2, <2>2, <2>3 DEF CheckLists
  <2>5. TypeOK' /\ There' = There
    BY <1>2, <2>4 DEF DispatchInv, TypeOK, CheckLists, There
  <2> QED
    BY <1>2, <2>5, FewerStand DEF CheckLists
<1>3. ASSUME NEW i \in Ids, CheckLooks(i) PROVE DispatchInv'
  <2>1. LookedInVain(i) \in K
    BY <1>0 DEF LookedInVain
  <2>2. check' \in [Ids -> K]
    BY <1>0, <1>3, <2>1 DEF CheckLooks
  <2>3. TypeOK' /\ There' = There
    BY <1>3, <2>2 DEF DispatchInv, TypeOK, CheckLooks, There
  <2> QED
    BY <1>3, <2>3, FewerStand DEF CheckLooks
<1>4. ASSUME NEW i \in Ids, CheckWithdraws(i) PROVE DispatchInv'
  <2>1. check[i].found \in {0} \cup Ids
    BY <1>0
  <2>2. There' = There \ {check[i].found}
    BY <1>4, <2>1, GoneTakesOne DEF CheckWithdraws, DispatchInv, There
  <2>3. check' \in [Ids -> K]
    BY <1>0, <1>4 DEF CheckWithdraws
  <2>4. TypeOK'
    BY <1>4, <2>1, <2>3, GoneTakesOne DEF DispatchInv, TypeOK, CheckWithdraws
  <2> QED
    BY <1>4, <2>2, <2>4, FewerStand DEF CheckWithdraws
<1>5. ASSUME NEW i \in Ids, CheckFails(i) PROVE DispatchInv'
  <2>1. check' \in [Ids -> K] /\ faults' \in 0 .. MaxFaults
    BY <1>0, <1>5, DispatchAssumption DEF DispatchInv, TypeOK, CheckFails, Fault
  <2>2. TypeOK' /\ There' = There
    BY <1>5, <2>1 DEF DispatchInv, TypeOK, CheckFails, There
  <2> QED
    BY <1>5, <2>2, FewerStand DEF CheckFails
<1> QED
  BY <1>1, <1>2, <1>3, <1>4, <1>5 DEF Confirms

\* Jobs and agents come and go without placing anything.
LEMMA WorkersInv ==
    ASSUME DispatchInv, NEW i \in Ids, AgentJoins(i) \/ JobEnds(i) \/ AgentLeaves(i)
    PROVE  DispatchInv'
<1> DEFINE R == [st : {"none", "there", "gone"}, conv : Conversations \cup {AnyOne},
                 by : {"device", "hub", "nobody"}, over : BOOLEAN]
<1>1. dispatch' \in [Ids -> R] /\ There' = There
  <2>1. dispatch \in [Ids -> R]
    BY DEF DispatchInv, TypeOK
  <2>2. CASE dispatch' = dispatch
    BY <2>1, <2>2 DEF There
  <2>3. CASE dispatch' = [dispatch EXCEPT ![i].over = TRUE]
    <3>1. [dispatch[i] EXCEPT !.over = TRUE] \in R
      BY <2>1
    <3>2. [dispatch[i] EXCEPT !.over = TRUE].st = dispatch[i].st
      BY <2>1
    <3> QED
      BY <2>1, <2>3, <3>1, <3>2 DEF There
  <2> QED
    BY <2>2, <2>3 DEF AgentJoins, JobEnds, AgentLeaves
<1>2. agent' \in [Ids -> {"away", "in", "left"}]
  BY DEF DispatchInv, TypeOK, AgentJoins, JobEnds, AgentLeaves
<1>3. TypeOK'
  BY <1>1, <1>2 DEF DispatchInv, TypeOK, AgentJoins, JobEnds, AgentLeaves
<1> QED
  BY <1>1, <1>3, FewerStand DEF AgentJoins, JobEnds, AgentLeaves

\* Every step, and a stutter, preserves the argument.
LEMMA NextInv == DispatchInv /\ [Next]_vars => DispatchInv'
<1> SUFFICES ASSUME DispatchInv, [Next]_vars PROVE DispatchInv'
  OBVIOUS
<1>1. CASE \E c \in Conversations, by \in {"device", "hub"} : OpenLists(c, by)
  BY <1>1, OpenListsInv
<1>2. CASE \E c \in Conversations \cup {AnyOne} : CloseLists(c)
  BY <1>2, CloseListsInv
<1>3. CASE OpenServed \/ CloseDone
  <2>1. TypeOK' /\ There' = There /\ doing' = NoOne
    BY <1>3 DEF DispatchInv, TypeOK, OpenServed, CloseDone, There
  <2> QED
    BY <2>1, FewerStand
<1>4. CASE CallFails \/ Crash
  BY <1>4, FaultInv
<1>5. CASE Tick \/ \E i \in Ids : Confirms(i) \/ CheckFails(i)
  BY <1>5, ChecksInv
<1>6. ASSUME NEW i \in Ids, OpenPlaces(i) PROVE DispatchInv'
  BY <1>6, OpenPlacesInv
<1>7. ASSUME NEW i \in Ids, Deletes(i) PROVE DispatchInv'
  BY <1>7, DeletesInv
<1>8. ASSUME NEW i \in Ids, AgentJoins(i) \/ JobEnds(i) \/ AgentLeaves(i) PROVE DispatchInv'
  BY <1>8, WorkersInv
<1>9. CASE UNCHANGED vars
  <2>1. TypeOK' /\ There' = There /\ doing' = doing
    BY <1>9 DEF DispatchInv, TypeOK, vars, There
  <2> QED
    BY <2>1, FewerStand
<1> QED
  BY <1>1, <1>2, <1>3, <1>4, <1>5, <1>6, <1>7, <1>8, <1>9 DEF Next

-----------------------------------------------------------------------------
\* The room never holds a second dispatch, however opens, closes, confirmations, faults and jobs
\* interleave, for any number of them.
THEOREM DispatchStandsAlone == Spec => []OneDispatch
<1>1. DispatchInv => OneDispatch
  <2> SUFFICES ASSUME DispatchInv PROVE Cardinality(There) <= 1
    BY DEF OneDispatch
  <2>1. CASE There = {}
    BY <2>1, FS_EmptySet
  <2>2. CASE There # {}
    <3>1. PICK i \in There : There = {i}
      BY <2>2 DEF DispatchInv, Standing
    <3> QED
      BY <3>1, FS_Singleton
  <2> QED
    BY <2>1, <2>2
<1> QED
  BY <1>1, InitInv, NextInv, PTL DEF Spec

-----------------------------------------------------------------------------
(* Who may end a conversation.                                               *)

\* The operation that holds the lock may end conversation i.
MayEnd(i) ==
    \/ doing.what = "close" /\ doing.conv \in {AnyOne, dispatch[i].conv}
    \/ /\ doing.what = "open" /\ doing.conv # dispatch[i].conv
       /\ doing.by = "device" /\ dispatch[i].by = "device"

\* Whatever of its list is not over, it may end: the snapshot was inspected as a whole, and what
\* stood there has kept its name and its owner.
Entitled == doing # NoOne => \A i \in doing.todo : i \in Live => MayEnd(i)

\* A step ends no conversation but with the standing to.
EndsWithStanding ==
    \A i \in Live : dispatch'[i].st = "gone" =>
        \/ \E j \in Ids : check[j].at = "withdraw" /\ check[j].found = i
        \/ MayEnd(i)

\* What is deleted keeps its name and its owner, and so does what stays.
LEMMA GoneKeepsNames ==
    ASSUME TypeOK, NEW i \in {0} \cup Ids, dispatch' = Gone(dispatch, i)
    PROVE  /\ Live' \subseteq Live
           /\ \A j \in Ids : /\ dispatch'[j].conv = dispatch[j].conv /\ dispatch'[j].by = dispatch[j].by
                             /\ dispatch'[j].st = "gone" => dispatch[j].st = "gone" \/ j = i
<1> DEFINE R == [st : {"none", "there", "gone"}, conv : Conversations \cup {AnyOne},
                 by : {"device", "hub", "nobody"}, over : BOOLEAN]
<1>1. dispatch \in [Ids -> R]
  BY DEF TypeOK
<1>2. \A r \in R : /\ [r EXCEPT !.st = "gone"].conv = r.conv /\ [r EXCEPT !.st = "gone"].by = r.by
                   /\ [r EXCEPT !.st = "gone"].st = "gone"
  OBVIOUS
<1>3. CASE i \in Ids
  <2>1. \A j \in Ids : dispatch'[j] = IF j = i THEN [dispatch[j] EXCEPT !.st = "gone"] ELSE dispatch[j]
    BY <1>1, <1>3 DEF Gone
  <2> QED
    BY <1>1, <1>2, <2>1 DEF Live, There
<1>4. CASE i = 0
  <2>1. 0 \notin Ids
    BY DEF Ids
  <2>2. dispatch' = dispatch
    BY <1>1, <1>4, <2>1 DEF Gone
  <2> QED
    BY <2>2 DEF Live, There
<1> QED
  BY <1>3, <1>4

\* A step that places nothing, and goes on with what is listed or with nothing.
LEMMA GoesOnEntitled ==
    ASSUME Entitled, Live' \subseteq Live,
           \A j \in Ids : dispatch'[j].conv = dispatch[j].conv /\ dispatch'[j].by = dispatch[j].by,
           \/ doing' = NoOne
           \/ /\ doing # NoOne /\ doing'.todo \subseteq doing.todo
              /\ doing'.what = doing.what /\ doing'.conv = doing.conv /\ doing'.by = doing.by
    PROVE  Entitled'
BY DEF Entitled, MayEnd, Live, There

\* The lists are made of what may be ended.
LEMMA ListsEntitled ==
    ASSUME DispatchInv,
           \/ \E c \in Conversations, by \in {"device", "hub"} : OpenLists(c, by)
           \/ \E c \in Conversations \cup {AnyOne} : CloseLists(c)
    PROVE  Entitled' /\ EndsWithStanding
<1>1. UNCHANGED dispatch
  BY DEF OpenLists, CloseLists
<1>2. EndsWithStanding
  BY <1>1 DEF EndsWithStanding, Live, There
<1>3. ASSUME NEW c \in Conversations, NEW by \in {"device", "hub"}, OpenLists(c, by) PROVE Entitled'
  <2>1. doing'.what = "open" /\ doing'.conv = c /\ doing'.by = by /\ doing'.todo = Cleared(c)
    BY <1>3 DEF OpenLists
  <2>2. \A i \in Cleared(c) : i \in Live => dispatch[i].conv # c
    BY DEF Cleared
  <2>3. \A i \in Live : dispatch[i].conv # c => MayReplace(i, by)
    BY <1>3 DEF OpenLists
  <2> QED
    BY <1>1, <2>1, <2>2, <2>3 DEF Entitled, MayEnd, MayReplace, Live, There
<1>4. ASSUME NEW c \in Conversations \cup {AnyOne}, CloseLists(c) PROVE Entitled'
  BY <1>1, <1>4 DEF CloseLists, Entitled, MayEnd, Live, There
<1> QED
  BY <1>2, <1>3, <1>4

\* A new dispatch ends none.
LEMMA CreateEnds ==
    ASSUME DispatchInv, NEW i \in Ids, Create(i)
    PROVE  EndsWithStanding
<1> DEFINE r == [st |-> "there", conv |-> doing.conv, by |-> doing.by, over |-> FALSE]
<1>1. dispatch' = [dispatch EXCEPT ![i] = r] /\ r.st = "there"
  BY DEF Create
<1> HIDE DEF r
<1>2. \A j \in Live : dispatch'[j].st = "there"
  BY <1>1 DEF DispatchInv, TypeOK, Live, There
<1> QED
  BY <1>2 DEF EndsWithStanding

\* An operation deletes what is on its list.
LEMMA DeletesEntitled ==
    ASSUME DispatchInv, Entitled, NEW i \in Ids, Deletes(i)
    PROVE  Entitled' /\ EndsWithStanding
<1>1. CASE UNCHANGED dispatch /\ doing' = NoOne
  BY <1>1 DEF Entitled, EndsWithStanding, Live, There
<1>2. CASE dispatch' = Gone(dispatch, i) /\ doing' = [doing EXCEPT !.todo = @ \ {i}]
  <2>1. /\ Live' \subseteq Live
        /\ \A j \in Ids : /\ dispatch'[j].conv = dispatch[j].conv /\ dispatch'[j].by = dispatch[j].by
                          /\ dispatch'[j].st = "gone" => dispatch[j].st = "gone" \/ j = i
    BY <1>2, GoneKeepsNames DEF DispatchInv
  <2>2. doing \in [what : {"open", "close"}, conv : Conversations \cup {AnyOne},
                   by : {"device", "hub", "nobody"}, todo : SUBSET Ids, place : BOOLEAN]
    BY DEF DispatchInv, TypeOK, Deletes
  <2>3. /\ doing'.todo \subseteq doing.todo
        /\ doing'.what = doing.what /\ doing'.conv = doing.conv /\ doing'.by = doing.by
    BY <1>2, <2>2
  <2>4. EndsWithStanding
    BY <2>1 DEF EndsWithStanding, Entitled, Deletes, Live, There
  <2> QED
    BY <2>1, <2>3, <2>4, GoesOnEntitled DEF Deletes
<1> QED
  BY <1>1, <1>2 DEF Deletes

\* So does one that is cut short.
LEMMA FaultEntitled ==
    ASSUME DispatchInv, Entitled, CallFails \/ Crash
    PROVE  Entitled' /\ EndsWithStanding
<1>1. CASE Interrupted
  <2>1. doing' = NoOne /\ doing # NoOne
    BY <1>1 DEF Interrupted
  <2>2. CASE UNCHANGED dispatch
    BY <2>1, <2>2 DEF Entitled, EndsWithStanding, Live, There
  <2>3. ASSUME NEW i \in doing.todo, dispatch' = Gone(dispatch, i)
        PROVE  EndsWithStanding
    <3>1. i \in Ids
      BY <2>1 DEF DispatchInv, TypeOK
    <3>2. \A j \in Ids : dispatch'[j].st = "gone" => dispatch[j].st = "gone" \/ j = i
      BY <2>3, <3>1, GoneKeepsNames DEF DispatchInv
    <3> QED
      BY <2>1, <3>2 DEF EndsWithStanding, Entitled, Live, There
  <2> QED
    BY <1>1, <2>1, <2>2, <2>3, CreateEnds DEF Interrupted, Entitled
<1>2. CASE UNCHANGED <<dispatch, doing>>
  BY <1>2 DEF Entitled, EndsWithStanding, MayEnd, Live, There
<1> QED
  BY <1>1, <1>2 DEF CallFails, Crash

\* A confirmation withdraws what it has found.
LEMMA WithdrawsEntitled ==
    ASSUME DispatchInv, Entitled, NEW j \in Ids, CheckWithdraws(j)
    PROVE  Entitled' /\ EndsWithStanding
<1>1. check[j].found \in {0} \cup Ids
  BY DEF DispatchInv, TypeOK
<1>2. /\ Live' \subseteq Live
      /\ \A i \in Ids : /\ dispatch'[i].conv = dispatch[i].conv /\ dispatch'[i].by = dispatch[i].by
                        /\ dispatch'[i].st = "gone" => dispatch[i].st = "gone" \/ i = check[j].found
  BY <1>1, GoneKeepsNames DEF DispatchInv, CheckWithdraws
<1>3. EndsWithStanding
  BY <1>2 DEF EndsWithStanding, CheckWithdraws, Live, There
<1>4. doing' = doing
  BY DEF CheckWithdraws
<1> QED
  BY <1>2, <1>3, <1>4, GoesOnEntitled

\* A job that is over ends no conversation.
LEMMA JobEntitled ==
    ASSUME DispatchInv, Entitled, NEW i \in Ids, JobEnds(i)
    PROVE  Entitled' /\ EndsWithStanding
<1> DEFINE R == [st : {"none", "there", "gone"}, conv : Conversations \cup {AnyOne},
                 by : {"device", "hub", "nobody"}, over : BOOLEAN]
           r == [dispatch[i] EXCEPT !.over = TRUE]
<1>1. dispatch \in [Ids -> R]
  BY DEF DispatchInv, TypeOK
<1>2. r.st = dispatch[i].st /\ r.conv = dispatch[i].conv /\ r.by = dispatch[i].by /\ r.over
  BY <1>1
<1>3. dispatch' = [dispatch EXCEPT ![i] = r] /\ doing' = doing
  BY DEF JobEnds
<1> HIDE DEF r
<1>4. \A j \in Ids : /\ dispatch'[j].st = dispatch[j].st /\ dispatch'[j].conv = dispatch[j].conv
                     /\ dispatch'[j].by = dispatch[j].by /\ (dispatch[j].over => dispatch'[j].over)
  BY <1>1, <1>2, <1>3
<1>5. Live' \subseteq Live
  BY <1>4 DEF Live, There
<1>6. EndsWithStanding
  BY <1>4 DEF EndsWithStanding, Live, There
<1> QED
  BY <1>3, <1>4, <1>5, <1>6, GoesOnEntitled

\* Every step ends conversations with the standing to.
LEMMA NextEntitled ==
    ASSUME DispatchInv, Entitled, [Next]_vars
    PROVE  Entitled' /\ EndsWithStanding
<1>1. CASE \/ \E c \in Conversations, by \in {"device", "hub"} : OpenLists(c, by)
           \/ \E c \in Conversations \cup {AnyOne} : CloseLists(c)
  BY <1>1, ListsEntitled
<1>2. ASSUME NEW i \in Ids, OpenPlaces(i) PROVE Entitled' /\ EndsWithStanding
  BY <1>2, CreateEnds DEF OpenPlaces, Entitled
<1>3. ASSUME NEW i \in Ids, Deletes(i) PROVE Entitled' /\ EndsWithStanding
  BY <1>3, DeletesEntitled
<1>4. CASE CallFails \/ Crash
  BY <1>4, FaultEntitled
<1>5. ASSUME NEW i \in Ids, CheckWithdraws(i) PROVE Entitled' /\ EndsWithStanding
  BY <1>5, WithdrawsEntitled
<1>6. ASSUME NEW i \in Ids, JobEnds(i) PROVE Entitled' /\ EndsWithStanding
  BY <1>6, JobEntitled
<1>7. ASSUME UNCHANGED dispatch, doing' \in {doing, NoOne} PROVE Entitled' /\ EndsWithStanding
  BY <1>7 DEF Entitled, EndsWithStanding, MayEnd, Live, There
<1>8. CASE OpenServed \/ CloseDone \/ Tick \/ UNCHANGED vars
  BY <1>7, <1>8 DEF OpenServed, CloseDone, Tick, vars
<1>9. ASSUME NEW i \in Ids,
             CheckLists(i) \/ CheckLooks(i) \/ CheckFails(i) \/ AgentJoins(i) \/ AgentLeaves(i)
      PROVE  Entitled' /\ EndsWithStanding
  BY <1>7, <1>9 DEF CheckLists, CheckLooks, CheckFails, AgentJoins, AgentLeaves
<1> QED
  BY <1>1, <1>2, <1>3, <1>4, <1>5, <1>6, <1>8, <1>9 DEF Next, Confirms

\* A conversation is ended by a close that means it, by its own device's turning to another, or
\* by a confirmation that found nobody serving it, and by nobody else, though what is deleted was
\* listed several calls earlier (open_session, close_session, _confirm_serving_later).
THEOREM DispatchEndsWithStanding == Spec => WithdrawnWithStanding
<1>1. Init => DispatchInv /\ Entitled
  BY InitInv DEF Init, Entitled
<1>2. DispatchInv /\ Entitled /\ [Next]_vars => (DispatchInv /\ Entitled)'
  BY NextInv, NextEntitled
<1>3. DispatchInv /\ Entitled /\ [Next]_vars =>
        [\A i \in Live : dispatch'[i].st = "gone" =>
            \/ \E j \in Ids : check[j].at = "withdraw" /\ check[j].found = i
            \/ doing.what = "close" /\ doing.conv \in {AnyOne, dispatch[i].conv}
            \/ /\ doing.what = "open" /\ doing.conv # dispatch[i].conv
               /\ doing.by = "device" /\ dispatch[i].by = "device"]_vars
  BY NextEntitled DEF EndsWithStanding, MayEnd
<1> QED
  BY <1>1, <1>2, <1>3, PTL DEF Spec, WithdrawnWithStanding
=============================================================================
