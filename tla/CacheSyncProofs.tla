-------------------------- MODULE CacheSyncProofs --------------------------
(***************************************************************************)
(* Proofs about CacheSync, for any sets of rooms and contexts, any batch   *)
(* size and any number of writes, crashes and faults.                      *)
(***************************************************************************)
EXTENDS CacheSync, TLAPS

\* An event never carries a version newer than the rows it is about: api-service
\* commits before it sends.
EventsFollowWrites ==
    /\ \A e \in outbox : e.ver <= db[e.room].ver
    /\ \A i \in 1 .. Len(stream) : stream[i].ver <= db[stream[i].room].ver

\* The consumer holds a pending message that is no longer in its batch, what it
\* fetched is not older than the message, and once it is about to acknowledge
\* the message, or to start the room, the message has been applied or trimmed.
HandlerProgress ==
    /\ cons.pc # "idle" => cons.msg \in pel /\ cons.msg \notin batch
    /\ cons.pc \in {"rows", "install"} => stream[cons.msg].ver <= cons.ver
    /\ cons.pc \in {"addroom", "ack"} =>
           cons.msg <= trimmed \/ stream[cons.msg].ver <= seen[stream[cons.msg].room]

\* Only trimmed messages are read without fields.
BlanksTrimmed == \A i \in blank : i <= trimmed

\* The group exists once the consumer reads from it, nothing was delivered before
\* that, and it delivers from its start on.
GroupFresh ==
    /\ phase \in {"drain", "live"} => group.exists
    /\ group.start <= group.pos
    /\ ~group.exists => group.pos = group.start

\* A context in use belongs to a room.
RunningHasRoom == \A c \in Ctx : gor[c].pc # "none" => gor[c].room \in Rooms

\* The inductive invariant behind AckedWasApplied.
AckInv == TypeOK /\ RunningHasRoom /\ EventsFollowWrites /\ HandlerProgress
          /\ BlanksTrimmed /\ GroupFresh /\ AckedWasApplied

\* A registered context is in use, and by the room it is registered for.
RegisteredRuns ==
    \A r \in Rooms : active[r] # NoCtx =>
        gor[active[r]].pc # "none" /\ gor[active[r]].room = r

\* The inductive invariant behind LoopsMatchRegistry.
LoopInv == AckInv /\ RegisteredRuns /\ LoopsMatchRegistry

-----------------------------------------------------------------------------
(* Types.  One lemma per group of variables; the actions that leave a group  *)
(* alone are one case.                                                       *)

LEMMA ApiTypes == ASSUME ApiTypeOK, [Next]_vars PROVE ApiTypeOK'
<1>1. ASSUME NEW r \in Rooms, NEW x \in BOOLEAN, NEW es \in SUBSET EventTypes,
             Commit(r, x, es)
      PROVE  ApiTypeOK'
  <2>1. db[r].ver \in Nat /\ db' \in [Rooms -> [exists : BOOLEAN, ver : Nat]]
    BY <1>1 DEF Commit, ApiTypeOK
  <2>2. ASSUME NEW t \in es
        PROVE  [type |-> t, room |-> r, ver |-> db[r].ver + 1] \in Event
    BY <2>1 DEF Event
  <2>3. outbox' \in SUBSET Event
    BY <1>1, <2>2 DEF Commit, ApiTypeOK
  <2> QED
    BY <1>1, <2>1, <2>3 DEF Commit, ApiTypeOK
<1>2. ASSUME NEW e \in outbox, xadd(e) PROVE ApiTypeOK'
  <2>1. stream' \in Seq(Event) /\ Len(stream') \in {Len(stream), Len(stream) + 1}
    BY <1>2 DEF xadd, ApiTypeOK
  <2>2. trimmed' \in 0 .. Len(stream')
    BY <1>2, <2>1, CacheSyncAssumption DEF xadd, ApiTypeOK
  <2> QED
    BY <1>2, <2>1, <2>2 DEF xadd, ApiTypeOK
<1>3. ASSUME UNCHANGED apiVars PROVE ApiTypeOK'
    BY <1>3 DEF ApiTypeOK, apiVars
<1>4. CASE UNCHANGED vars \/ WarmCache \/ Start \/ Crash \/ Consumer
    BY <1>3, <1>4 DEF vars, apiVars, WarmCache, Start, Crash, Consumer, ensureGroup,
         drainPending, readLoop, DispatchBlank, DispatchReload, DispatchDelete, DispatchEvict,
         DispatchFetchRows, DispatchInstall, DispatchAddRoom, DispatchFails, ack
<1>5. ASSUME NEW c \in Ctx, Refresh(c) PROVE ApiTypeOK'
    BY <1>3, <1>5 DEF Refresh, RefreshTick, RefreshFetchRows, RefreshFails,
         RefreshInstall, RefreshExit, RefreshUnchanged
<1> QED
    BY <1>1, <1>2, <1>4, <1>5
       DEF Next, Api, CreateRoom, ChangeRoom, ChangeRoomSilently, DeleteRoom, DeleteUser,
           EventTypes

LEMMA RedisTypes == ASSUME AckInv, [Next]_vars PROVE RedisTypeOK'
<1>0. /\ ApiTypeOK /\ RedisTypeOK /\ ConsumerTypeOK /\ GroupFresh /\ HandlerProgress
      /\ BatchSize \in Nat \ {0}
    BY CacheSyncAssumption DEF AckInv, TypeOK
<1>1. ASSUME NEW r \in Rooms, NEW x \in BOOLEAN, NEW es \in SUBSET EventTypes,
             Commit(r, x, es)
      PROVE  RedisTypeOK'
    BY <1>0, <1>1 DEF Commit, RedisTypeOK, redisVars
<1>2. ASSUME NEW e \in outbox, xadd(e) PROVE RedisTypeOK'
  <2>1. Len(stream) <= Len(stream') /\ Len(stream') \in Nat
    BY <1>0, <1>2 DEF xadd, ApiTypeOK
  <2> QED
    BY <1>0, <1>2, <2>1 DEF xadd, RedisTypeOK, redisVars
<1>3. CASE ensureGroup
    BY <1>0, <1>3 DEF ensureGroup, ApiTypeOK, RedisTypeOK, GroupFresh, apiVars
<1>4. CASE readLoop
  <2> DEFINE first == IF group.pos < trimmed THEN trimmed + 1 ELSE group.pos + 1
             last  == IF first + BatchSize <= Len(stream) THEN first + BatchSize - 1
                      ELSE Len(stream)
  <2>1. /\ last \in Nat /\ group.pos <= last /\ last <= Len(stream)
        /\ first \in Nat /\ group.pos < first
    BY <1>0, <1>4 DEF readLoop, ApiTypeOK, RedisTypeOK
  <2>2. group' = [group EXCEPT !.pos = last] /\ pel' = pel \cup first .. last
        /\ stream' = stream
    BY <1>4 DEF readLoop, apiVars
  <2> HIDE DEF first, last
  <2>3. group' \in [exists : BOOLEAN, start : Nat, pos : Nat]
        /\ group'.start = group.start /\ group'.pos = last
    BY <1>0, <2>1, <2>2 DEF RedisTypeOK
  <2> QED
    BY <1>0, <2>1, <2>2, <2>3 DEF RedisTypeOK, GroupFresh
<1>5. CASE ack
    BY <1>0, <1>5 DEF ack, RedisTypeOK, apiVars
<1>6. ASSUME UNCHANGED stream, UNCHANGED redisVars PROVE RedisTypeOK'
    BY <1>0, <1>6 DEF RedisTypeOK, redisVars
<1>7. CASE \/ UNCHANGED vars \/ WarmCache \/ Start \/ Crash \/ drainPending
           \/ DispatchBlank \/ DispatchReload \/ DispatchDelete \/ DispatchEvict
           \/ DispatchFetchRows \/ DispatchInstall \/ DispatchAddRoom \/ DispatchFails
    BY <1>6, <1>7 DEF vars, apiVars, redisVars, WarmCache, Start, Crash, drainPending,
         DispatchBlank, DispatchReload, DispatchDelete, DispatchEvict, DispatchFetchRows,
         DispatchInstall, DispatchAddRoom, DispatchFails
<1>8. ASSUME NEW c \in Ctx, Refresh(c) PROVE RedisTypeOK'
    BY <1>6, <1>8 DEF Refresh, RefreshTick, RefreshFetchRows, RefreshFails, RefreshInstall,
         RefreshExit, RefreshUnchanged, apiVars
<1> QED
    BY <1>1, <1>2, <1>3, <1>4, <1>5, <1>7, <1>8
       DEF Next, Api, Consumer, CreateRoom, ChangeRoom, ChangeRoomSilently,
           DeleteRoom, DeleteUser, EventTypes

\* Pending messages are entries of the stream.
LEMMA PendingEntries ==
    ASSUME ApiTypeOK, RedisTypeOK, NEW i \in pel
    PROVE  /\ i \in Nat /\ i \in 1 .. Len(stream) /\ stream[i] \in Event
           /\ stream[i].room \in Rooms /\ stream[i].ver \in Nat
<1>1. i \in Nat /\ i \in 1 .. Len(stream)
    BY DEF ApiTypeOK, RedisTypeOK
<1>2. stream[i] \in Event
    BY <1>1 DEF ApiTypeOK
<1> QED
    BY <1>1, <1>2 DEF Event

LEMMA SchedulerTypes == ASSUME AckInv, [Next]_vars PROVE SchedulerTypeOK'
<1>0. /\ ApiTypeOK /\ RedisTypeOK /\ SchedulerTypeOK /\ ConsumerTypeOK
      /\ HandlerProgress /\ RunningHasRoom
    BY DEF AckInv, TypeOK
<1>1. ASSUME cons.pc # "idle" PROVE MsgRoom \in Rooms
    BY <1>0, <1>1, PendingEntries DEF HandlerProgress, MsgRoom
<1>2. ASSUME NEW i \in batch PROVE stream[i].room \in Rooms
    BY <1>0, <1>2, PendingEntries DEF ConsumerTypeOK
<1>3. ASSUME NEW c \in Ctx, NEW pc \in {"idle", "rows", "install"}, NEW v \in Nat,
             SetGor(c, pc, v)
      PROVE  gor' \in [Ctx -> Goroutine]
    BY <1>0, <1>3 DEF SetGor, SchedulerTypeOK, Goroutine
<1>4. CASE WarmCache
    BY <1>0, <1>4 DEF WarmCache, SchedulerTypeOK, ApiTypeOK
<1>5. CASE Start
  <2>1. PICK v \in [Rooms -> 0 .. MaxVer], f \in [Rooms -> Ctx \cup {NoCtx}] :
             /\ store' = v /\ active' = f
             /\ gor' = [c \in Ctx |->
                  IF \E r \in Rooms : f[r] = c
                  THEN [IdleGor EXCEPT !.room = CHOOSE r \in Rooms : f[r] = c,
                                       !.pc = "idle"]
                  ELSE IdleGor]
    BY <1>5 DEF Start
  <2>2. ASSUME NEW c \in Ctx PROVE gor'[c] \in Goroutine
    <3>1. CASE \E r \in Rooms : f[r] = c
      <4>1. (CHOOSE r \in Rooms : f[r] = c) \in Rooms
        BY <3>1
      <4> QED
        BY <2>1, <3>1, <4>1 DEF IdleGor, Goroutine
    <3>2. CASE ~\E r \in Rooms : f[r] = c
      BY <2>1, <3>2 DEF IdleGor, Goroutine
    <3> QED
      BY <3>1, <3>2
  <2>3. gor' \in [Ctx -> Goroutine]
    BY <2>1, <2>2
  <2>4. \A n \in 0 .. MaxVer : n \in Nat
    BY CacheSyncAssumption
  <2>5. store' \in [Rooms -> Nat]
    BY <2>1, <2>4
  <2> QED
    BY <2>1, <2>3, <2>5 DEF SchedulerTypeOK
<1>6. CASE Crash
    BY <1>6 DEF Crash, IdleGor, Goroutine, SchedulerTypeOK
<1>7. CASE DispatchReload
    BY <1>0, <1>2, <1>7 DEF DispatchReload, SchedulerTypeOK
<1>8. CASE DispatchDelete
  <2>1. PICK i \in batch : RemoveRoom(stream[i].room) /\ UNCHANGED store
    BY <1>8 DEF DispatchDelete
  <2>2. gor' \in [Ctx -> Goroutine]
    BY <1>0, <2>1 DEF RemoveRoom, SchedulerTypeOK, Goroutine
  <2> QED
    BY <1>0, <1>2, <2>1, <2>2 DEF RemoveRoom, SchedulerTypeOK
<1>9. CASE DispatchEvict
    BY <1>0, <1>1, <1>9 DEF DispatchEvict, SchedulerTypeOK
<1>10. CASE DispatchInstall
    BY <1>0, <1>1, <1>10 DEF DispatchInstall, SchedulerTypeOK, ConsumerTypeOK
<1>11. CASE DispatchAddRoom
  <2>1. PICK c \in Ctx : StartRoom(MsgRoom, c) /\ UNCHANGED store
    BY <1>11 DEF DispatchAddRoom
  <2>2. MsgRoom \in Rooms
    BY <1>1, <1>11 DEF DispatchAddRoom
  <2>3. gor' \in [Ctx -> Goroutine]
    BY <1>0, <2>1, <2>2 DEF StartRoom, SchedulerTypeOK, Goroutine, IdleGor
  <2> QED
    BY <1>0, <2>1, <2>2, <2>3 DEF StartRoom, SchedulerTypeOK
<1>12. ASSUME NEW c \in Ctx, RefreshTick(c) PROVE SchedulerTypeOK'
  <2>1. gor[c].room \in Rooms /\ db[gor[c].room].ver \in Nat
    BY <1>0, <1>12 DEF RefreshTick, RunningHasRoom, ApiTypeOK
  <2>2. CASE SetGor(c, "rows", db[gor[c].room].ver) /\ UNCHANGED store
    BY <1>0, <1>3, <1>12, <2>1, <2>2 DEF RefreshTick, RefreshUnchanged, SchedulerTypeOK
  <2>3. CASE store' = [store EXCEPT ![gor[c].room] = 0] /\ UNCHANGED gor
    BY <1>0, <1>12, <2>3 DEF RefreshTick, RefreshUnchanged, SchedulerTypeOK
  <2> QED
    BY <1>12, <2>2, <2>3 DEF RefreshTick
<1>13. ASSUME NEW c \in Ctx, RefreshFetchRows(c) PROVE SchedulerTypeOK'
  <2>1. PICK v \in Reflected(gor[c].room, gor[c].ver) : SetGor(c, "install", v)
    BY <1>13 DEF RefreshFetchRows
  <2>2. gor[c].room \in Rooms /\ gor[c].ver \in Nat
    BY <1>0, <1>13 DEF RefreshFetchRows, RunningHasRoom, SchedulerTypeOK, Goroutine
  <2>3. v \in Nat
    BY <1>0, <2>2 DEF Reflected, ApiTypeOK
  <2> QED
    BY <1>0, <1>3, <1>13, <2>1, <2>3
       DEF RefreshFetchRows, RefreshUnchanged, SchedulerTypeOK
<1>14. ASSUME NEW c \in Ctx, RefreshFails(c) PROVE SchedulerTypeOK'
    BY <1>0, <1>3, <1>14 DEF RefreshFails, RefreshUnchanged, SchedulerTypeOK
<1>15. ASSUME NEW c \in Ctx, RefreshInstall(c) PROVE SchedulerTypeOK'
  <2>1. gor[c].ver \in Nat
    BY <1>0, <1>15 DEF SchedulerTypeOK, Goroutine
  <2> QED
    BY <1>0, <1>3, <1>15, <2>1 DEF RefreshInstall, RefreshUnchanged, SchedulerTypeOK
<1>16. ASSUME NEW c \in Ctx, RefreshExit(c) PROVE SchedulerTypeOK'
    BY <1>0, <1>16 DEF RefreshExit, RefreshUnchanged, IdleGor, Goroutine, SchedulerTypeOK
<1>17. ASSUME UNCHANGED <<store, active, gor>> PROVE SchedulerTypeOK'
    BY <1>0, <1>17 DEF SchedulerTypeOK
<1>18. CASE \/ UNCHANGED vars \/ ensureGroup \/ drainPending \/ readLoop
            \/ DispatchBlank \/ DispatchFetchRows \/ DispatchFails \/ ack
            \/ \E r \in Rooms, x \in BOOLEAN, es \in SUBSET EventTypes : Commit(r, x, es)
            \/ \E e \in outbox : xadd(e)
    BY <1>17, <1>18 DEF vars, procVars, ensureGroup, drainPending, readLoop,
         DispatchBlank, DispatchFetchRows, DispatchFails, ack, Commit, xadd
<1> QED
    BY <1>4, <1>5, <1>6, <1>7, <1>8, <1>9, <1>10, <1>11, <1>12, <1>13, <1>14, <1>15,
       <1>16, <1>18
       DEF Next, Api, Consumer, Refresh, CreateRoom, ChangeRoom, ChangeRoomSilently,
           DeleteRoom, DeleteUser, EventTypes

LEMMA ConsumerTypes == ASSUME AckInv, [Next]_vars PROVE ConsumerTypeOK'
<1>0. ApiTypeOK /\ RedisTypeOK /\ ConsumerTypeOK /\ HandlerProgress
    BY DEF AckInv, TypeOK
<1>1. ASSUME cons.pc # "idle" PROVE MsgRoom \in Rooms /\ stream[cons.msg].ver \in Nat
    BY <1>0, <1>1, PendingEntries DEF HandlerProgress, MsgRoom
<1>2. ASSUME NEW i \in batch PROVE stream[i].room \in Rooms /\ i \in Nat
    BY <1>0, <1>2, PendingEntries DEF ConsumerTypeOK
<1>3. CASE WarmCache \/ Start \/ Crash \/ ensureGroup \/ drainPending
  <2>1. CASE WarmCache \/ Start
    BY <1>0, <2>1 DEF WarmCache, Start, redisVars, ConsumerTypeOK
  <2>2. CASE Crash
    BY <1>0, <2>2 DEF Crash, redisVars, IdleCons, ConsumerTypeOK
  <2>3. CASE ensureGroup
    BY <1>0, <2>3 DEF ensureGroup, ConsumerTypeOK
  <2>4. CASE drainPending
    BY <1>0, <2>4 DEF drainPending, redisVars, ConsumerTypeOK
  <2> QED
    BY <1>3, <2>1, <2>2, <2>3, <2>4
<1>4. CASE readLoop
    BY <1>0, <1>4 DEF readLoop, Waiting, ConsumerTypeOK
<1>5. CASE DispatchReload
  <2>1. PICK i \in batch :
             LET e == stream[i]
             IN  /\ Dispatching(i)
                 /\ \/ /\ cons' = [pc |-> "rows", msg |-> i, ver |-> db[e.room].ver]
                       /\ UNCHANGED seen
                    \/ /\ seen' = [seen EXCEPT ![e.room] = Newer(@, db[e.room].ver)]
                       /\ cons' = [pc |-> AfterReload(e.type), msg |-> i, ver |-> 0]
                 /\ UNCHANGED <<redisVars, phase>>
    BY <1>5 DEF DispatchReload
  <2>2. stream[i].room \in Rooms /\ i \in Nat /\ db[stream[i].room].ver \in Nat
    BY <1>0, <1>2 DEF ApiTypeOK
  <2>3. batch' \subseteq pel' /\ blank' \subseteq batch' /\ phase' = phase /\ i \in pel'
    BY <1>0, <2>1 DEF Dispatching, Taking, redisVars, ConsumerTypeOK
  <2>4. seen' \in [Rooms -> Nat]
    BY <1>0, <2>1, <2>2 DEF Newer, ConsumerTypeOK
  <2>5. cons' \in [pc : {"idle", "rows", "install", "addroom", "evict", "ack"},
                  msg : Nat, ver : Nat]
    BY <2>1, <2>2 DEF AfterReload
  <2>6. cons'.msg = i
    BY <2>1
  <2> QED
    BY <1>0, <2>3, <2>4, <2>5, <2>6 DEF ConsumerTypeOK
<1>6. CASE DispatchDelete
    BY <1>0, <1>2, <1>6 DEF DispatchDelete, Dispatching, Taking, redisVars, ConsumerTypeOK
<1>7. CASE DispatchEvict
    BY <1>0, <1>1, <1>7 DEF DispatchEvict, Newer, redisVars, ConsumerTypeOK
<1>8. CASE DispatchFetchRows
  <2>1. PICK v \in Reflected(MsgRoom, cons.ver) :
             cons' = [cons EXCEPT !.pc = "install", !.ver = v]
    BY <1>8 DEF DispatchFetchRows
  <2>2. v \in Nat
    BY <1>0, <1>1, <1>8 DEF DispatchFetchRows, Reflected, ConsumerTypeOK, ApiTypeOK
  <2> QED
    BY <1>0, <1>8, <2>1, <2>2 DEF DispatchFetchRows, redisVars, ConsumerTypeOK
<1>9. CASE DispatchInstall
    BY <1>0, <1>1, <1>9 DEF DispatchInstall, AfterReload, Newer, redisVars, ConsumerTypeOK
<1>10. CASE DispatchAddRoom
    BY <1>0, <1>10 DEF DispatchAddRoom, redisVars, ConsumerTypeOK
<1>11. CASE DispatchFails
    BY <1>0, <1>11 DEF DispatchFails, Dispatching, Taking, IdleCons, redisVars, ConsumerTypeOK
<1>12. CASE ack
    BY <1>0, <1>12 DEF ack, IdleCons, ConsumerTypeOK, HandlerProgress
<1>13. ASSUME UNCHANGED <<phase, pel, batch, blank, cons, seen>> PROVE ConsumerTypeOK'
    BY <1>0, <1>13 DEF ConsumerTypeOK
<1>15. CASE DispatchBlank
    BY <1>0, <1>2, <1>15 DEF DispatchBlank, Taking, redisVars, ConsumerTypeOK
<1>14. CASE \/ UNCHANGED vars
            \/ \E r \in Rooms, x \in BOOLEAN, es \in SUBSET EventTypes : Commit(r, x, es)
            \/ \E e \in outbox : xadd(e)
            \/ \E c \in Ctx : Refresh(c)
    BY <1>13, <1>14 DEF vars, procVars, redisVars, Commit, xadd, Refresh, RefreshTick,
         RefreshFetchRows, RefreshFails, RefreshInstall, RefreshExit, RefreshUnchanged
<1> QED
    BY <1>3, <1>4, <1>5, <1>6, <1>7, <1>8, <1>9, <1>10, <1>11, <1>12, <1>14,
       <1>15
       DEF Next, Api, Consumer, CreateRoom, ChangeRoom, ChangeRoomSilently,
           DeleteRoom, DeleteUser, EventTypes

LEMMA CounterTypes ==
    ASSUME TypeOK, [Next]_vars PROVE (crashes \in Nat /\ faults \in Nat)'
<1>1. crashes \in Nat /\ faults \in Nat
    BY DEF TypeOK
<1>2. crashes' = crashes \/ crashes' = crashes + 1
    BY DEF Next, Api, Consumer, CreateRoom, ChangeRoom, ChangeRoomSilently,
         DeleteRoom, DeleteUser, Commit, xadd, WarmCache, Start, Crash, ensureGroup,
         drainPending, readLoop, DispatchBlank, DispatchReload, DispatchDelete, DispatchEvict,
         DispatchFetchRows, DispatchInstall, DispatchAddRoom, DispatchFails, ack,
         Refresh, RefreshTick, RefreshFetchRows, RefreshFails, RefreshInstall,
         RefreshExit, RefreshUnchanged, vars
<1>3. faults' = faults \/ Fault
    BY DEF Next, Api, Consumer, CreateRoom, ChangeRoom, ChangeRoomSilently,
         DeleteRoom, DeleteUser, Commit, xadd, WarmCache, Start, Crash, ensureGroup,
         drainPending, readLoop, DispatchBlank, DispatchReload, DispatchDelete, DispatchEvict,
         DispatchFetchRows, DispatchInstall, DispatchAddRoom, DispatchFails, ack,
         Refresh, RefreshTick, RefreshFetchRows, RefreshFails, RefreshInstall,
         RefreshExit, vars
<1> QED
    BY <1>1, <1>2, <1>3 DEF Fault

-----------------------------------------------------------------------------
(* Acknowledged events were applied *)

LEMMA EventsStep == ASSUME AckInv, [Next]_vars PROVE EventsFollowWrites'
<1>0. ApiTypeOK /\ EventsFollowWrites
    BY DEF AckInv, TypeOK
<1>1. ASSUME NEW r \in Rooms, NEW x \in BOOLEAN, NEW es \in SUBSET EventTypes,
             Commit(r, x, es)
      PROVE  EventsFollowWrites'
  <2>1. db[r].ver \in Nat /\ db'[r].ver = db[r].ver + 1
    BY <1>0, <1>1 DEF Commit, ApiTypeOK
  <2>2. \A q \in Rooms : db[q].ver \in Nat /\ db'[q].ver \in Nat /\ db[q].ver <= db'[q].ver
    BY <1>0, <1>1 DEF Commit, ApiTypeOK
  <2>3. ASSUME NEW e \in outbox' PROVE e.ver <= db'[e.room].ver
    <3>1. CASE e \in outbox
      BY <1>0, <2>2, <3>1 DEF EventsFollowWrites, ApiTypeOK, Event
    <3>2. CASE \E t \in es : e = [type |-> t, room |-> r, ver |-> db[r].ver + 1]
      BY <2>1, <3>2
    <3> QED
      BY <1>1, <3>1, <3>2 DEF Commit
  <2>4. ASSUME NEW i \in 1 .. Len(stream') PROVE stream'[i].ver <= db'[stream'[i].room].ver
    <3>1. stream' = stream
      BY <1>1 DEF Commit
    <3>2. i \in 1 .. Len(stream) /\ stream[i] \in Event
      BY <1>0, <3>1 DEF ApiTypeOK
    <3> QED
      BY <1>0, <2>2, <3>1, <3>2 DEF EventsFollowWrites, Event
  <2> QED
    BY <2>3, <2>4 DEF EventsFollowWrites
<1>2. ASSUME NEW e \in outbox, xadd(e) PROVE EventsFollowWrites'
  <2>1. CASE stream' = Append(stream, e)
    BY <1>0, <1>2, <2>1 DEF xadd, EventsFollowWrites, ApiTypeOK
  <2>2. CASE stream' = stream
    BY <1>0, <1>2, <2>2 DEF xadd, EventsFollowWrites, ApiTypeOK
  <2> QED
    BY <1>2, <2>1, <2>2 DEF xadd
<1>3. ASSUME UNCHANGED apiVars PROVE EventsFollowWrites'
    BY <1>0, <1>3 DEF EventsFollowWrites, apiVars
<1>4. CASE UNCHANGED vars \/ WarmCache \/ Start \/ Crash \/ Consumer
    BY <1>3, <1>4 DEF vars, apiVars, WarmCache, Start, Crash, Consumer, ensureGroup,
         drainPending, readLoop, DispatchBlank, DispatchReload, DispatchDelete, DispatchEvict,
         DispatchFetchRows, DispatchInstall, DispatchAddRoom, DispatchFails, ack
<1>5. ASSUME NEW c \in Ctx, Refresh(c) PROVE EventsFollowWrites'
    BY <1>3, <1>5 DEF Refresh, RefreshTick, RefreshFetchRows, RefreshFails,
         RefreshInstall, RefreshExit, RefreshUnchanged
<1> QED
    BY <1>1, <1>2, <1>4, <1>5
       DEF Next, Api, CreateRoom, ChangeRoom, ChangeRoomSilently, DeleteRoom, DeleteUser,
           EventTypes

LEMMA GroupStep == ASSUME AckInv, [Next]_vars PROVE GroupFresh'
<1>0. /\ ApiTypeOK /\ RedisTypeOK /\ GroupFresh /\ BatchSize \in Nat \ {0}
    BY CacheSyncAssumption DEF AckInv, TypeOK
<1>1. CASE ensureGroup
    BY <1>0, <1>1 DEF ensureGroup, GroupFresh, ApiTypeOK
<1>2. CASE readLoop
    BY <1>0, <1>2 DEF readLoop, GroupFresh, RedisTypeOK, ApiTypeOK
<1>3. ASSUME UNCHANGED group,
             phase' \in {"down", "warming", "started"} \/ UNCHANGED phase
                 \/ phase \in {"drain", "live"}
      PROVE GroupFresh'
    BY <1>0, <1>3 DEF GroupFresh
<1>4. CASE UNCHANGED vars \/ WarmCache \/ Start \/ Crash \/ Api \/ drainPending
    BY <1>3, <1>4 DEF vars, redisVars, procVars, WarmCache, Start, Crash, drainPending,
         Api, xadd, CreateRoom, ChangeRoom, ChangeRoomSilently, DeleteRoom, DeleteUser,
         Commit
<1>5. CASE \/ DispatchBlank \/ DispatchReload \/ DispatchDelete \/ DispatchEvict
           \/ DispatchFetchRows \/ DispatchInstall \/ DispatchAddRoom \/ DispatchFails \/ ack
    BY <1>3, <1>5 DEF redisVars, DispatchBlank, DispatchReload, DispatchDelete, DispatchEvict,
         DispatchFetchRows, DispatchInstall, DispatchAddRoom, DispatchFails, ack
<1>6. ASSUME NEW c \in Ctx, Refresh(c) PROVE GroupFresh'
    BY <1>3, <1>6 DEF Refresh, RefreshTick, RefreshFetchRows, RefreshFails,
         RefreshInstall, RefreshExit, RefreshUnchanged, redisVars
<1> QED
    BY <1>1, <1>2, <1>4, <1>5, <1>6 DEF Next, Consumer

LEMMA HandlerStep == ASSUME AckInv, [Next]_vars PROVE HandlerProgress'
<1>0. /\ ApiTypeOK /\ RedisTypeOK /\ ConsumerTypeOK /\ EventsFollowWrites
      /\ HandlerProgress /\ BlanksTrimmed
    BY DEF AckInv, TypeOK
<1>1. ASSUME NEW i \in pel
      PROVE  /\ i \in 1 .. Len(stream) /\ stream[i].room \in Rooms
             /\ stream[i].ver \in Nat /\ stream[i].ver <= db[stream[i].room].ver
    BY <1>0, <1>1, PendingEntries DEF EventsFollowWrites
<1>2. ASSUME cons'.pc = "idle" PROVE HandlerProgress'
    BY <1>2 DEF HandlerProgress
<1>3. ASSUME UNCHANGED <<stream, trimmed, pel, batch, cons, seen>> PROVE HandlerProgress'
    BY <1>0, <1>3 DEF HandlerProgress
<1>4. CASE \/ UNCHANGED vars \/ WarmCache \/ Start \/ ensureGroup
           \/ \E r \in Rooms, x \in BOOLEAN, es \in SUBSET EventTypes : Commit(r, x, es)
           \/ \E c \in Ctx : Refresh(c)
    BY <1>3, <1>4 DEF vars, apiVars, redisVars, procVars, WarmCache, Start, ensureGroup,
         Commit, Refresh, RefreshTick, RefreshFetchRows, RefreshFails, RefreshInstall,
         RefreshExit, RefreshUnchanged
<1>5. CASE Crash \/ drainPending \/ readLoop \/ ack
    BY <1>2, <1>5 DEF Crash, drainPending, readLoop, Waiting, ack, IdleCons
<1>6. ASSUME NEW e \in outbox, xadd(e) PROVE HandlerProgress'
  <2>1. UNCHANGED <<pel, batch, cons, seen>>
    BY <1>6 DEF xadd, redisVars, procVars
  <2>2. ASSUME cons.pc # "idle" PROVE stream'[cons.msg] = stream[cons.msg]
    BY <1>0, <1>1, <1>6, <2>2 DEF xadd, HandlerProgress, ApiTypeOK
  <2>3. \A i \in Nat : i <= trimmed => i <= trimmed'
    BY <1>0, <1>6, CacheSyncAssumption DEF xadd, ApiTypeOK
  <2> QED
    BY <1>0, <2>1, <2>2, <2>3 DEF HandlerProgress, ConsumerTypeOK
<1>7. CASE DispatchReload
  <2>1. PICK i \in batch :
             LET e == stream[i]
             IN  /\ Dispatching(i) /\ e.type # "room_deleted"
                 /\ \/ /\ cons' = [pc |-> "rows", msg |-> i, ver |-> db[e.room].ver]
                       /\ UNCHANGED seen
                    \/ /\ seen' = [seen EXCEPT ![e.room] = Newer(@, db[e.room].ver)]
                       /\ cons' = [pc |-> AfterReload(e.type), msg |-> i, ver |-> 0]
                 /\ UNCHANGED <<stream, pel>>
    BY <1>7 DEF DispatchReload, apiVars, redisVars
  <2>2. i \in pel /\ batch' = batch \ {i} /\ UNCHANGED <<stream, pel>>
    BY <1>0, <2>1 DEF Dispatching, Taking, ConsumerTypeOK
  <2>3. stream[i].room \in Rooms /\ stream[i].ver <= db[stream[i].room].ver
        /\ db[stream[i].room].ver \in Nat /\ stream[i].ver \in Nat
        /\ seen[stream[i].room] \in Nat
    BY <1>0, <1>1, <2>2 DEF ApiTypeOK, ConsumerTypeOK
  <2>4. CASE cons' = [pc |-> "rows", msg |-> i, ver |-> db[stream[i].room].ver]
    BY <2>2, <2>3, <2>4 DEF HandlerProgress
  <2>5. CASE /\ seen' = [seen EXCEPT ![stream[i].room] = Newer(@, db[stream[i].room].ver)]
             /\ cons' = [pc |-> AfterReload(stream[i].type), msg |-> i, ver |-> 0]
    <3>1. stream[i].ver <= seen'[stream[i].room]
      BY <1>0, <2>3, <2>5 DEF Newer, ConsumerTypeOK
    <3> QED
      BY <2>2, <2>5, <3>1 DEF HandlerProgress, AfterReload
  <2> QED
    BY <2>1, <2>4, <2>5
<1>8. CASE DispatchDelete
    BY <1>0, <1>8 DEF DispatchDelete, Dispatching, Taking, HandlerProgress, ConsumerTypeOK, redisVars
<1>9. CASE DispatchEvict
  <2>1. stream[cons.msg].ver <= seen'[stream[cons.msg].room]
    BY <1>0, <1>1, <1>9 DEF DispatchEvict, MsgRoom, Newer, HandlerProgress, ConsumerTypeOK
  <2> QED
    BY <1>0, <1>9, <2>1 DEF DispatchEvict, HandlerProgress, ConsumerTypeOK, apiVars, redisVars
<1>10. CASE DispatchFetchRows
  <2>1. PICK v \in Reflected(MsgRoom, cons.ver) :
             cons' = [cons EXCEPT !.pc = "install", !.ver = v]
    BY <1>10 DEF DispatchFetchRows
  <2>2. cons.pc = "rows" /\ UNCHANGED <<stream, pel, batch, seen>>
    BY <1>10 DEF DispatchFetchRows, apiVars, redisVars
  <2>3. MsgRoom \in Rooms /\ stream[cons.msg].ver \in Nat /\ cons.ver \in Nat
        /\ stream[cons.msg].ver <= cons.ver
    BY <1>0, <1>1, <2>2 DEF MsgRoom, HandlerProgress, ConsumerTypeOK
  <2>4. v \in Int /\ cons.ver <= v
    BY <1>0, <2>1, <2>3 DEF Reflected, ApiTypeOK
  <2>5. cons'.msg = cons.msg /\ cons'.pc = "install" /\ cons'.ver = v
    BY <1>0, <2>1 DEF ConsumerTypeOK
  <2>6. stream[cons.msg].ver <= v
    BY <2>3, <2>4
  <2> QED
    BY <1>0, <2>2, <2>5, <2>6 DEF HandlerProgress
<1>11. CASE DispatchInstall
  <2>1. stream[cons.msg].ver <= seen'[stream[cons.msg].room]
    BY <1>0, <1>1, <1>11
       DEF DispatchInstall, MsgRoom, Newer, HandlerProgress, ConsumerTypeOK
  <2> QED
    BY <1>0, <1>11, <2>1 DEF DispatchInstall, AfterReload, HandlerProgress, ConsumerTypeOK,
         apiVars, redisVars
<1>12. CASE DispatchAddRoom
    BY <1>0, <1>12 DEF DispatchAddRoom, HandlerProgress, ConsumerTypeOK, apiVars, redisVars
<1>13. CASE DispatchFails
    BY <1>2, <1>13 DEF DispatchFails, Dispatching, Taking, IdleCons
<1>14. CASE DispatchBlank
    BY <1>0, <1>14 DEF DispatchBlank, Taking, HandlerProgress, BlanksTrimmed, ConsumerTypeOK,
         apiVars, redisVars
<1> QED
    BY <1>4, <1>5, <1>6, <1>7, <1>8, <1>9, <1>10, <1>11, <1>12, <1>13, <1>14
       DEF Next, Api, Consumer, CreateRoom, ChangeRoom, ChangeRoomSilently,
           DeleteRoom, DeleteUser, EventTypes

LEMMA BlanksStep == ASSUME AckInv, [Next]_vars PROVE BlanksTrimmed'
<1>0. BlanksTrimmed /\ ApiTypeOK /\ ConsumerTypeOK /\ RedisTypeOK
    BY DEF AckInv, TypeOK
<1>1. ASSUME NEW e \in outbox, xadd(e) PROVE BlanksTrimmed'
  <2>1. trimmed <= trimmed' /\ trimmed' \in Int /\ blank' = blank
    BY <1>0, <1>1, CacheSyncAssumption DEF xadd, ApiTypeOK, procVars
  <2>2. \A i \in blank : i \in Nat
    BY <1>0 DEF ConsumerTypeOK, RedisTypeOK
  <2> QED
    BY <1>0, <2>1, <2>2 DEF BlanksTrimmed, ApiTypeOK
<1>2. CASE drainPending
    BY <1>0, <1>2 DEF drainPending, apiVars, BlanksTrimmed
<1>3. ASSUME UNCHANGED trimmed, blank' \subseteq blank PROVE BlanksTrimmed'
    BY <1>0, <1>3 DEF BlanksTrimmed
<1>4. CASE \/ UNCHANGED vars \/ WarmCache \/ Start \/ Crash \/ ensureGroup \/ readLoop
           \/ \E r \in Rooms, x \in BOOLEAN, es \in SUBSET EventTypes : Commit(r, x, es)
    BY <1>3, <1>4 DEF vars, apiVars, procVars, WarmCache, Start, Crash, ensureGroup,
         readLoop, Commit
<1>5. CASE \/ DispatchBlank \/ DispatchReload \/ DispatchDelete \/ DispatchEvict
           \/ DispatchFetchRows \/ DispatchInstall \/ DispatchAddRoom \/ DispatchFails
           \/ ack
    BY <1>3, <1>5 DEF apiVars, Dispatching, DispatchBlank, DispatchReload, DispatchDelete,
         DispatchEvict, DispatchFetchRows, DispatchInstall, DispatchAddRoom, DispatchFails,
         ack
<1>6. ASSUME NEW c \in Ctx, Refresh(c) PROVE BlanksTrimmed'
    BY <1>3, <1>6 DEF Refresh, RefreshTick, RefreshFetchRows, RefreshFails,
         RefreshInstall, RefreshExit, RefreshUnchanged, apiVars
<1> QED
    BY <1>1, <1>2, <1>4, <1>5, <1>6
       DEF Next, Api, Consumer, CreateRoom, ChangeRoom, ChangeRoomSilently,
           DeleteRoom, DeleteUser, EventTypes

LEMMA AckedStep == ASSUME AckInv, [Next]_vars PROVE AckedWasApplied'
<1>0. /\ ApiTypeOK /\ RedisTypeOK /\ ConsumerTypeOK /\ GroupFresh /\ HandlerProgress
      /\ AckedWasApplied /\ BatchSize \in Nat \ {0}
    BY CacheSyncAssumption DEF AckInv, TypeOK
<1>1. ASSUME NEW i \in Acked
      PROVE  i \in 1 .. Len(stream) /\ stream[i].room \in Rooms /\ stream[i].ver \in Nat
  <2>1. i \in 1 .. Len(stream)
    BY <1>0, <1>1 DEF Acked, RedisTypeOK, ApiTypeOK
  <2>2. stream[i] \in Event
    BY <1>0, <2>1 DEF ApiTypeOK
  <2> QED
    BY <2>1, <2>2 DEF Event
<1>2. ASSUME \A r \in Rooms : seen'[r] \in Nat /\ seen[r] <= seen'[r],
             UNCHANGED <<stream, trimmed>>,
             \A i \in Acked' : i \in Acked \/ stream[i].ver <= seen'[stream[i].room]
      PROVE  AckedWasApplied'
    BY <1>0, <1>1, <1>2 DEF AckedWasApplied, ConsumerTypeOK
<1>3. ASSUME UNCHANGED <<group, pel, stream, trimmed, seen>> PROVE AckedWasApplied'
    BY <1>0, <1>3 DEF AckedWasApplied, Acked
<1>4. CASE \/ UNCHANGED vars \/ WarmCache \/ Start \/ Crash \/ drainPending
           \/ DispatchDelete \/ DispatchFetchRows \/ DispatchAddRoom \/ DispatchFails
           \/ \E r \in Rooms, x \in BOOLEAN, es \in SUBSET EventTypes : Commit(r, x, es)
    BY <1>3, <1>4 DEF vars, apiVars, redisVars, procVars, WarmCache, Start, Crash,
         drainPending, DispatchDelete, DispatchFetchRows, DispatchAddRoom, DispatchFails,
         Commit
<1>5. ASSUME NEW c \in Ctx, Refresh(c) PROVE AckedWasApplied'
    BY <1>3, <1>5 DEF Refresh, RefreshTick, RefreshFetchRows, RefreshFails,
         RefreshInstall, RefreshExit, RefreshUnchanged, apiVars, redisVars
<1>6. ASSUME NEW e \in outbox, xadd(e) PROVE AckedWasApplied'
  <2>1. UNCHANGED <<group, pel, seen>>
    BY <1>6 DEF xadd, redisVars
  <2>2. \A i \in Acked : stream'[i] = stream[i]
    BY <1>0, <1>1, <1>6 DEF xadd, ApiTypeOK
  <2>3. trimmed \in Nat /\ trimmed' \in Nat /\ trimmed <= trimmed'
    BY <1>0, <1>6, CacheSyncAssumption DEF xadd, ApiTypeOK
  <2>4. Acked' = Acked
    BY <2>1 DEF Acked
  <2>5. ASSUME NEW i \in Acked, i > trimmed'
        PROVE  stream'[i].ver <= seen'[stream'[i].room]
    <3>1. i > trimmed
      BY <1>1, <2>3, <2>5
    <3> QED
      BY <1>0, <2>1, <2>2, <3>1 DEF AckedWasApplied
  <2> QED
    BY <2>4, <2>5 DEF AckedWasApplied
<1>7. CASE ensureGroup
  <2>1. CASE group.exists
    BY <1>3, <1>7, <2>1 DEF ensureGroup, apiVars
  <2>2. CASE ~group.exists
    <3>1. Acked' = {}
      BY <1>0, <1>7, <2>2 DEF ensureGroup, Acked, ApiTypeOK
    <3> QED
      BY <3>1 DEF AckedWasApplied
  <2> QED
    BY <2>1, <2>2
<1>8. CASE readLoop
  <2> DEFINE first == IF group.pos < trimmed THEN trimmed + 1 ELSE group.pos + 1
             last  == IF first + BatchSize <= Len(stream) THEN first + BatchSize - 1
                      ELSE Len(stream)
  <2>1. /\ first \in Nat /\ last \in Nat
        /\ \A i \in group.pos + 1 .. first - 1 : i <= trimmed
    BY <1>0 DEF ApiTypeOK, RedisTypeOK
  <2>2. /\ group' = [group EXCEPT !.pos = last] /\ pel' = pel \cup first .. last
        /\ UNCHANGED <<stream, trimmed, seen>>
    BY <1>8 DEF readLoop, apiVars
  <2> HIDE DEF first, last
  <2>3. \A i \in Acked' : i \in Acked \/ i <= trimmed
    BY <1>0, <2>1, <2>2 DEF Acked, RedisTypeOK, ApiTypeOK
  <2>4. ASSUME NEW i \in Acked', i > trimmed
        PROVE  stream[i].ver <= seen[stream[i].room]
    <3>1. i \in Int /\ trimmed \in Int
      BY <1>0, <2>1, <2>2, <2>4 DEF Acked, RedisTypeOK, ApiTypeOK
    <3>2. i \in Acked
      BY <2>3, <2>4, <3>1
    <3> QED
      BY <1>0, <2>4, <3>2 DEF AckedWasApplied
  <2> QED
    BY <2>2, <2>4 DEF AckedWasApplied
<1>9. CASE DispatchReload
  <2>1. PICK i \in batch :
             /\ \/ UNCHANGED seen
                \/ seen' = [seen EXCEPT ![stream[i].room] =
                                Newer(@, db[stream[i].room].ver)]
             /\ UNCHANGED <<stream, trimmed, group, pel>>
    BY <1>9 DEF DispatchReload, apiVars, redisVars
  <2>2. stream[i].room \in Rooms /\ db[stream[i].room].ver \in Nat
    BY <1>0, PendingEntries DEF ApiTypeOK, ConsumerTypeOK
  <2>3. \A r \in Rooms : seen'[r] \in Nat /\ seen[r] <= seen'[r]
    BY <1>0, <2>1, <2>2 DEF Newer, ConsumerTypeOK
  <2> QED
    BY <1>2, <2>1, <2>3 DEF Acked
<1>10. CASE DispatchEvict \/ DispatchInstall
  <2>1. MsgRoom \in Rooms /\ cons.ver \in Nat /\ stream[cons.msg].ver \in Nat
    BY <1>0, <1>10, PendingEntries
       DEF DispatchEvict, DispatchInstall, MsgRoom, HandlerProgress, ConsumerTypeOK
  <2>2. \E v \in Nat : seen' = [seen EXCEPT ![MsgRoom] = Newer(@, v)]
    BY <1>10, <2>1 DEF DispatchEvict, DispatchInstall
  <2>3. \A r \in Rooms : seen'[r] \in Nat /\ seen[r] <= seen'[r]
    BY <1>0, <2>1, <2>2 DEF Newer, ConsumerTypeOK
  <2>4. UNCHANGED <<stream, trimmed, group, pel>>
    BY <1>10 DEF DispatchEvict, DispatchInstall, apiVars, redisVars
  <2> QED
    BY <1>2, <2>3, <2>4 DEF Acked
<1>11. CASE ack
  <2>1. cons.msg <= trimmed \/ stream[cons.msg].ver <= seen[stream[cons.msg].room]
    BY <1>0, <1>11 DEF ack, HandlerProgress
  <2>2. UNCHANGED <<stream, trimmed, group, seen>> /\ pel \subseteq pel' \cup {cons.msg}
    BY <1>11 DEF ack, apiVars
  <2>3. ASSUME NEW i \in Acked', i > trimmed
        PROVE  stream[i].ver <= seen[stream[i].room]
    <3>1. i \in Acked \/ i = cons.msg
      BY <2>2, <2>3 DEF Acked
    <3>2. i \in Int /\ trimmed \in Int
      BY <1>0, <2>2, <2>3 DEF Acked, RedisTypeOK, ApiTypeOK
    <3> QED
      BY <1>0, <2>1, <2>3, <3>1, <3>2 DEF AckedWasApplied
  <2> QED
    BY <2>2, <2>3 DEF AckedWasApplied
<1>12. CASE DispatchBlank
    BY <1>3, <1>12 DEF DispatchBlank, apiVars, redisVars
<1> QED
    BY <1>4, <1>5, <1>6, <1>7, <1>8, <1>9, <1>10, <1>11, <1>12
       DEF Next, Api, Consumer, CreateRoom, ChangeRoom, ChangeRoomSilently,
           DeleteRoom, DeleteUser, EventTypes

LEMMA RunningStep == ASSUME AckInv, [Next]_vars PROVE RunningHasRoom'
<1>0. /\ ApiTypeOK /\ RedisTypeOK /\ SchedulerTypeOK /\ ConsumerTypeOK
      /\ HandlerProgress /\ RunningHasRoom
    BY DEF AckInv, TypeOK
<1>1. CASE Start
  <2>1. PICK f \in [Rooms -> Ctx \cup {NoCtx}] :
             gor' = [c \in Ctx |->
                  IF \E r \in Rooms : f[r] = c
                  THEN [IdleGor EXCEPT !.room = CHOOSE r \in Rooms : f[r] = c,
                                       !.pc = "idle"]
                  ELSE IdleGor]
    BY <1>1 DEF Start
  <2>2. ASSUME NEW c \in Ctx, \E r \in Rooms : f[r] = c PROVE gor'[c].room \in Rooms
    <3>1. (CHOOSE r \in Rooms : f[r] = c) \in Rooms
      BY <2>2
    <3> QED
      BY <2>1, <2>2, <3>1 DEF IdleGor
  <2>3. ASSUME NEW c \in Ctx, ~\E r \in Rooms : f[r] = c PROVE gor'[c].pc = "none"
    BY <2>1, <2>3 DEF IdleGor
  <2> QED
    BY <2>2, <2>3 DEF RunningHasRoom
<1>2. CASE Crash
    BY <1>2 DEF Crash, RunningHasRoom, IdleGor
<1>3. CASE DispatchDelete
    BY <1>0, <1>3 DEF DispatchDelete, RemoveRoom, RunningHasRoom, SchedulerTypeOK, Goroutine
<1>4. CASE DispatchAddRoom
  <2>1. MsgRoom \in Rooms
    BY <1>0, <1>4, PendingEntries DEF DispatchAddRoom, HandlerProgress, MsgRoom
  <2> QED
    BY <1>0, <1>4, <2>1
       DEF DispatchAddRoom, StartRoom, IdleGor, RunningHasRoom, SchedulerTypeOK, Goroutine
<1>5. ASSUME NEW c \in Ctx, Refresh(c) PROVE RunningHasRoom'
  <2>1. CASE RefreshTick(c)
    BY <1>0, <2>1 DEF RefreshTick, SetGor, RunningHasRoom, SchedulerTypeOK, Goroutine
  <2>2. CASE RefreshFetchRows(c) \/ RefreshFails(c) \/ RefreshInstall(c) \/ RefreshExit(c)
    BY <1>0, <2>2 DEF RefreshFetchRows, RefreshFails, RefreshInstall, RefreshExit,
         SetGor, IdleGor, RunningHasRoom, SchedulerTypeOK, Goroutine
  <2> QED
    BY <1>5, <2>1, <2>2 DEF Refresh
<1>6. ASSUME UNCHANGED gor PROVE RunningHasRoom'
    BY <1>0, <1>6 DEF RunningHasRoom
<1>7. CASE \/ UNCHANGED vars \/ WarmCache \/ Api \/ ensureGroup \/ drainPending
           \/ readLoop \/ DispatchBlank \/ DispatchReload \/ DispatchEvict
           \/ DispatchFetchRows \/ DispatchInstall \/ DispatchFails \/ ack
    BY <1>6, <1>7 DEF vars, procVars, WarmCache, Api, CreateRoom, ChangeRoom,
         ChangeRoomSilently, DeleteRoom, DeleteUser, Commit, xadd, ensureGroup,
         drainPending, readLoop, DispatchBlank, DispatchReload, DispatchEvict,
         DispatchFetchRows, DispatchInstall, DispatchFails, ack
<1> QED
    BY <1>1, <1>2, <1>3, <1>4, <1>5, <1>7 DEF Next, Consumer

LEMMA AckInit == Init => AckInv
<1> SUFFICES ASSUME Init PROVE AckInv
    OBVIOUS
<1>1. ApiTypeOK /\ RedisTypeOK /\ ConsumerTypeOK /\ crashes \in Nat /\ faults \in Nat
    BY DEF Init, ApiTypeOK, RedisTypeOK, ConsumerTypeOK, IdleCons
<1>2. SchedulerTypeOK
    BY DEF Init, SchedulerTypeOK, IdleGor, Goroutine
<1>3. RunningHasRoom /\ EventsFollowWrites /\ HandlerProgress /\ BlanksTrimmed
      /\ GroupFresh /\ AckedWasApplied
    BY DEF Init, RunningHasRoom, EventsFollowWrites, HandlerProgress, BlanksTrimmed, GroupFresh,
         AckedWasApplied, Acked, IdleGor, IdleCons
<1> QED
    BY <1>1, <1>2, <1>3 DEF AckInv, TypeOK

LEMMA AckStep == AckInv /\ [Next]_vars => AckInv'
<1> SUFFICES ASSUME AckInv, [Next]_vars PROVE AckInv'
    OBVIOUS
<1>1. TypeOK'
  <2>1. ApiTypeOK'
    BY ApiTypes DEF AckInv, TypeOK
  <2>2. (crashes \in Nat /\ faults \in Nat)'
    BY CounterTypes DEF AckInv
  <2> QED
    BY <2>1, <2>2, RedisTypes, SchedulerTypes, ConsumerTypes DEF TypeOK
<1> QED
    BY <1>1, RunningStep, EventsStep, HandlerStep, BlanksStep, GroupStep, AckedStep
       DEF AckInv

\* The types of CacheSync hold in every reachable state; in particular the
\* consumer only ever handles and keeps pending entries that are in the stream.
THEOREM TypesHold == Spec => []TypeOK
<1>1. AckInv => TypeOK
    BY DEF AckInv
<1> QED
    BY <1>1, AckInit, AckStep, PTL DEF Spec

\* For any number of rooms, writes, crashes and failed calls, and any length of the
\* stream: an acknowledged event that MAXLEN has not trimmed was applied by a handler
\* that read the database after the write.
THEOREM AckedEventsWereApplied == Spec => []AckedWasApplied
<1>1. AckInv => AckedWasApplied
    BY DEF AckInv
<1> QED
    BY <1>1, AckInit, AckStep, PTL DEF Spec

-----------------------------------------------------------------------------
(* Live goroutines match the registry *)

LEMMA LoopStep == LoopInv /\ [Next]_vars => RegisteredRuns' /\ LoopsMatchRegistry'
<1> SUFFICES ASSUME LoopInv, [Next]_vars PROVE RegisteredRuns' /\ LoopsMatchRegistry'
    OBVIOUS
<1>0. /\ ApiTypeOK /\ RedisTypeOK /\ SchedulerTypeOK /\ ConsumerTypeOK /\ HandlerProgress
      /\ RunningHasRoom /\ RegisteredRuns /\ LoopsMatchRegistry /\ NoCtx \notin Ctx
    BY CacheSyncAssumption DEF LoopInv, AckInv, TypeOK
<1>1. CASE Start
  <2>1. PICK f \in [Rooms -> Ctx \cup {NoCtx}] :
             /\ \A r, q \in Rooms : f[r] = f[q] => r = q \/ f[r] = NoCtx
             /\ active' = f
             /\ gor' = [c \in Ctx |->
                  IF \E r \in Rooms : f[r] = c
                  THEN [IdleGor EXCEPT !.room = CHOOSE r \in Rooms : f[r] = c,
                                       !.pc = "idle"]
                  ELSE IdleGor]
    BY <1>1 DEF Start
  <2>2. ASSUME NEW r \in Rooms, f[r] # NoCtx
        PROVE  gor'[f[r]] = [IdleGor EXCEPT !.room = r, !.pc = "idle"]
    <3>1. (CHOOSE q \in Rooms : f[q] = f[r]) = r
      BY <2>1, <2>2
    <3> QED
      BY <2>1, <2>2, <3>1
  <2>3. ASSUME NEW c \in Ctx, ~\E r \in Rooms : f[r] = c PROVE gor'[c].pc = "none"
    BY <2>1, <2>3 DEF IdleGor
  <2>4. ASSUME NEW r \in Rooms, f[r] # NoCtx
        PROVE  gor'[f[r]].pc = "idle" /\ gor'[f[r]].room = r /\ ~gor'[f[r]].cancelled
    BY <2>2, <2>4 DEF IdleGor
  <2>5. RegisteredRuns'
    BY <2>1, <2>4 DEF RegisteredRuns
  <2>6. LoopsMatchRegistry'
    <3> SUFFICES ASSUME NEW c \in Ctx, gor'[c].pc # "none"
                 PROVE  active'[gor'[c].room] = c /\ ~gor'[c].cancelled
      BY DEF LoopsMatchRegistry
    <3>1. PICK r \in Rooms : f[r] = c
      BY <2>3
    <3> QED
      BY <1>0, <2>1, <2>4, <3>1
  <2> QED
    BY <2>5, <2>6
<1>2. CASE Crash
    BY <1>2 DEF Crash, RegisteredRuns, LoopsMatchRegistry, IdleGor
<1>3. CASE DispatchDelete
  <2>1. PICK i \in batch : RemoveRoom(stream[i].room)
    BY <1>3 DEF DispatchDelete
  <2>2. stream[i].room \in Rooms
    BY <1>0, PendingEntries DEF ConsumerTypeOK
  <2> QED
    BY <1>0, <2>1, <2>2 DEF RemoveRoom, RegisteredRuns, LoopsMatchRegistry,
         RunningHasRoom, SchedulerTypeOK, Goroutine
<1>4. CASE DispatchAddRoom
  <2>1. PICK c \in Ctx : StartRoom(MsgRoom, c)
    BY <1>4 DEF DispatchAddRoom
  <2>2. MsgRoom \in Rooms
    BY <1>0, <1>4, PendingEntries DEF DispatchAddRoom, HandlerProgress, MsgRoom
  <2>3. \A r \in Rooms : active[r] # c
    BY <1>0, <2>1 DEF StartRoom, RegisteredRuns
  <2>4. RegisteredRuns'
    BY <1>0, <2>1, <2>2, <2>3
       DEF StartRoom, IdleGor, RegisteredRuns, SchedulerTypeOK, Goroutine
  <2>5. LoopsMatchRegistry'
    BY <1>0, <2>1, <2>2, <2>3 DEF StartRoom, IdleGor, RegisteredRuns, LoopsMatchRegistry,
         RunningHasRoom, SchedulerTypeOK, Goroutine
  <2> QED
    BY <2>4, <2>5
<1>5. ASSUME NEW c \in Ctx, Refresh(c) PROVE RegisteredRuns' /\ LoopsMatchRegistry'
  <2>1. UNCHANGED active
    BY <1>5 DEF Refresh, RefreshTick, RefreshFetchRows, RefreshFails, RefreshInstall,
         RefreshExit, RefreshUnchanged
  <2>2. ASSUME NEW pc \in {"idle", "rows", "install"}, NEW v, SetGor(c, pc, v),
               gor[c].pc # "none"
        PROVE  RegisteredRuns' /\ LoopsMatchRegistry'
    BY <1>0, <2>1, <2>2 DEF SetGor, RegisteredRuns, LoopsMatchRegistry, SchedulerTypeOK,
         Goroutine
  <2>3. CASE RefreshExit(c)
    BY <1>0, <2>1, <2>3 DEF RefreshExit, IdleGor, RegisteredRuns, LoopsMatchRegistry,
         SchedulerTypeOK, Goroutine
  <2>4. CASE UNCHANGED gor
    BY <1>0, <2>1, <2>4 DEF RegisteredRuns, LoopsMatchRegistry
  <2> QED
    BY <1>5, <2>2, <2>3, <2>4 DEF Refresh, RefreshTick, RefreshFetchRows, RefreshFails,
         RefreshInstall
<1>6. ASSUME UNCHANGED <<active, gor>> PROVE RegisteredRuns' /\ LoopsMatchRegistry'
    BY <1>0, <1>6 DEF RegisteredRuns, LoopsMatchRegistry
<1>7. CASE \/ UNCHANGED vars \/ WarmCache \/ Api \/ ensureGroup \/ drainPending
           \/ readLoop \/ DispatchBlank \/ DispatchReload \/ DispatchEvict
           \/ DispatchFetchRows \/ DispatchInstall \/ DispatchFails \/ ack
    BY <1>6, <1>7 DEF vars, procVars, WarmCache, Api, CreateRoom, ChangeRoom,
         ChangeRoomSilently, DeleteRoom, DeleteUser, Commit, xadd, ensureGroup,
         drainPending, readLoop, DispatchBlank, DispatchReload, DispatchEvict,
         DispatchFetchRows, DispatchInstall, DispatchFails, ack
<1> QED
    BY <1>1, <1>2, <1>3, <1>4, <1>5, <1>7 DEF Next, Consumer

\* For any number of rooms and contexts: a room never has two live sets of
\* goroutines, and the live one is the one RemoveRoom would cancel.
THEOREM LoopsMatch == Spec => []LoopsMatchRegistry
<1>1. Init => LoopInv
    BY AckInit DEF Init, LoopInv, RegisteredRuns, LoopsMatchRegistry, IdleGor
<1>2. LoopInv /\ [Next]_vars => LoopInv'
    BY AckStep, LoopStep DEF LoopInv
<1>3. LoopInv => LoopsMatchRegistry
    BY DEF LoopInv
<1> QED
    BY <1>1, <1>2, <1>3, PTL DEF Spec
============================================================================
