----------------------------- MODULE CacheSync -----------------------------
(***************************************************************************)
(* How device-service keeps its in-memory room cache in step with the     *)
(* application database.                                                   *)
(*                                                                         *)
(*  - api-service commits a write to Postgres, then sends a notification   *)
(*    to the Redis stream (two steps: the notification can be lost, and    *)
(*    notifications of concurrent requests can be reordered);              *)
(*  - the stream consumer of device-service reads the stream through a     *)
(*    consumer group, reloads the room named by each event, starts or      *)
(*    stops its goroutines and acknowledges the event;                     *)
(*  - every room with goroutines also reloads itself periodically;         *)
(*  - device-service can crash at any point and start again.               *)
(*                                                                         *)
(* Everything a room's cache entry is built from (room row, desired state, *)
(* active periods, devices) is abstracted to one version number, which     *)
(* every write increments.  A reload runs several queries, so an entry may *)
(* miss a write and reflect a later one: its version is that of the last   *)
(* write before the first one it misses.  Room ids are never reused.       *)
(***************************************************************************)
EXTENDS Integers, FiniteSets, Sequences

CONSTANTS
    Rooms,       \* room ids
    Ctx,         \* contexts (one per startRoom call that is still running)
    BatchSize,   \* messages per XREADGROUP (10 in the code)
    MaxLen,      \* entries that XADD leaves in the stream at least (10000 in the code)
    MaxVer,      \* bound: writes per room
    MaxCrashes,  \* bound: crashes of device-service
    MaxFaults,   \* bound: failed XADD, XACK, XREADGROUP and database queries
    NoCtx,       \* no context is registered
    NoRoom       \* the room of a context that is not in use

ASSUME CacheSyncAssumption ==
    /\ BatchSize \in Nat \ {0} /\ MaxLen \in Nat \ {0} /\ MaxVer \in Nat \ {0}
    /\ MaxCrashes \in Nat /\ MaxFaults \in Nat
    /\ NoCtx \notin Ctx /\ NoRoom \notin Rooms

VARIABLES
    db,       \* Postgres: does the room exist, and the version of its rows
    outbox,   \* events of requests that committed and have not yet run XADD
    stream,   \* stream:cache_invalidation, with the entries that were trimmed
    trimmed,  \* how many entries XADD has trimmed from its front
    group,    \* the consumer group: created?, where it was created, last delivered
    pel,      \* its pending-entries list (delivered, not acknowledged)
    phase,    \* device-service: down, warming, started, draining, live
    store,    \* Store.rooms: 0 when there is no entry, else a version such that
              \* the entry reflects every write up to it
    active,   \* Scheduler.activeRooms: context of the room, or NoCtx
    gor,      \* the cache-refresh goroutine of each context
    batch,    \* messages of the last read not yet dispatched
    blank,    \* those of them that were read without fields, as they had been trimmed
    cons,     \* the consumer goroutine: step, message, fetched version
    seen,     \* history: newest version a consumer handler has applied
    crashes, faults

vars == <<db, outbox, stream, trimmed, group, pel, phase, store, active, gor, batch,
          blank, cons, seen, crashes, faults>>

apiVars  == <<db, outbox, stream, trimmed>>
redisVars == <<group, pel>>
procVars == <<phase, store, active, gor, batch, blank, cons>>

EventTypes == {"room_created", "room_deleted", "room_changed"}

\* A stream entry.  "room_changed" stands for room_config_changed,
\* desired_state_changed and schedule_changed, which the consumer treats
\* alike.  ver is not in the entry: it records the write that caused it.
Event == [type : EventTypes, room : Rooms, ver : Nat]

\* ver: the version its reload has fetched so far.
Goroutine == [room : Rooms \cup {NoRoom}, pc : {"none", "idle", "rows", "install"},
              ver : Nat, cancelled : BOOLEAN]

IdleGor == [room |-> NoRoom, pc |-> "none", ver |-> 0, cancelled |-> FALSE]
IdleCons == [pc |-> "idle", msg |-> 0, ver |-> 0]

ApiTypeOK ==
    /\ db \in [Rooms -> [exists : BOOLEAN, ver : Nat]]
    /\ outbox \in SUBSET Event
    /\ stream \in Seq(Event)
    /\ trimmed \in 0 .. Len(stream)

RedisTypeOK ==
    /\ group \in [exists : BOOLEAN, start : Nat, pos : Nat]
    /\ group.pos <= Len(stream)
    /\ pel \subseteq (group.start + 1) .. group.pos

SchedulerTypeOK ==
    /\ store \in [Rooms -> Nat]
    /\ active \in [Rooms -> Ctx \cup {NoCtx}]
    /\ gor \in [Ctx -> Goroutine]

ConsumerTypeOK ==
    /\ phase \in {"down", "warming", "started", "drain", "live"}
    /\ batch \subseteq pel /\ blank \subseteq batch
    /\ cons.pc # "idle" => cons.msg \in pel
    /\ cons \in [pc : {"idle", "rows", "install", "addroom", "evict", "ack"},
                 msg : Nat, ver : Nat]
    /\ seen \in [Rooms -> Nat]

\* Types, and that only entries of the stream are pending or being handled.
TypeOK ==
    /\ ApiTypeOK /\ RedisTypeOK /\ SchedulerTypeOK /\ ConsumerTypeOK
    /\ crashes \in Nat /\ faults \in Nat

Init ==
    /\ db = [r \in Rooms |-> [exists |-> FALSE, ver |-> 0]]
    /\ outbox = {}
    /\ stream = <<>> /\ trimmed = 0
    /\ group = [exists |-> FALSE, start |-> 0, pos |-> 0]
    /\ pel = {}
    /\ phase = "down"
    /\ store = [r \in Rooms |-> 0]
    /\ active = [r \in Rooms |-> NoCtx]
    /\ gor = [c \in Ctx |-> IdleGor]
    /\ batch = {} /\ blank = {}
    /\ cons = IdleCons
    /\ seen = [r \in Rooms |-> 0]
    /\ crashes = 0 /\ faults = 0

Fault == faults < MaxFaults /\ faults' = faults + 1

\* The versions of an entry whose first query saw version v and whose last one
\* runs now: the writes in between are seen or missed depending on the rows they
\* touched, and a delete is missed, since the first query found the room.
Reflected(r, v) == v .. (IF db[r].exists THEN db[r].ver ELSE db[r].ver - 1)

-----------------------------------------------------------------------------
(* api-service *)

\* A committed write: the rows of r change, and es are the notifications the
\* request still has to send.
Commit(r, exists, es) ==
    /\ db' = [db EXCEPT ![r] = [exists |-> exists, ver |-> @.ver + 1]]
    /\ outbox' = outbox \cup
                 {[type |-> t, room |-> r, ver |-> db[r].ver + 1] : t \in es}
    /\ UNCHANGED <<stream, trimmed, redisVars, procVars, seen, crashes, faults>>

CreateRoom(r) ==
    db[r].ver = 0 /\ Commit(r, TRUE, {"room_created"})

\* Update, UpdateDesiredState, Activate, Deactivate and the period writes of
\* an active schedule.
ChangeRoom(r) ==
    db[r].exists /\ db[r].ver < MaxVer /\ Commit(r, TRUE, {"room_changed"})

\* Deleting an active schedule and changing the user's timezone change what a
\* room's entry is built from and send nothing.
ChangeRoomSilently(r) ==
    db[r].exists /\ db[r].ver < MaxVer /\ Commit(r, TRUE, {})

\* The delete cascades to the room's rows.
DeleteRoom(r) ==
    db[r].exists /\ db[r].ver < MaxVer /\ Commit(r, FALSE, {"room_deleted"})

\* Deleting a user cascades to the user's rooms and sends nothing.
DeleteUser(r) ==
    db[r].exists /\ db[r].ver < MaxVer /\ Commit(r, FALSE, {})

\* XADD with MAXLEN ~, which may trim entries from the front, whether or not they are
\* pending; or its failure, which is logged and dropped.
xadd(e) ==
    /\ outbox' = outbox \ {e}
    /\ \/ /\ stream' = Append(stream, e)
          /\ \/ UNCHANGED trimmed
             \/ trimmed' \in trimmed .. Len(stream) + 1 - MaxLen
          /\ UNCHANGED faults
       \/ Fault /\ UNCHANGED <<stream, trimmed>>
    /\ UNCHANGED <<db, redisVars, procVars, seen, crashes>>

-----------------------------------------------------------------------------
(* Scheduler *)

\* Mutant: the context that is replaced is not cancelled.
StartRoomKeepsOld(r, c) ==
    /\ gor[c].pc = "none"
    /\ active' = [active EXCEPT ![r] = c]
    /\ gor' = [gor EXCEPT ![c] = [IdleGor EXCEPT !.room = r, !.pc = "idle"]]

\* startRoom: a fresh context c replaces and cancels the registered one.
StartRoom(r, c) ==
    /\ gor[c].pc = "none"
    /\ active' = [active EXCEPT ![r] = c]
    /\ gor' = [k \in Ctx |->
                 IF k = c THEN [IdleGor EXCEPT !.room = r, !.pc = "idle"]
                 ELSE IF k = active[r] THEN [gor[k] EXCEPT !.cancelled = TRUE]
                 ELSE gor[k]]

\* RemoveRoom: unregister the room's context, if any, and cancel it.
RemoveRoom(r) ==
    /\ active' = [active EXCEPT ![r] = NoCtx]
    /\ gor' = [k \in Ctx |-> IF k = active[r]
                             THEN [gor[k] EXCEPT !.cancelled = TRUE] ELSE gor[k]]

-----------------------------------------------------------------------------
(* device-service: start, crash *)

\* WarmCache: the query for the room ids.
WarmCache ==
    /\ phase = "down"
    /\ store' = [r \in Rooms |-> IF db[r].exists THEN db[r].ver ELSE 0]
    /\ phase' = "warming"
    /\ UNCHANGED <<apiVars, redisVars, active, gor, batch, blank, cons, seen, crashes,
                   faults>>

\* The rest of WarmCache, then Scheduler.Start for every room of the store.
\* Of a room deleted since, the room row may or may not have been read.
Start ==
    /\ phase = "warming"
    /\ \E v \in [Rooms -> 0 .. MaxVer], f \in [Rooms -> Ctx \cup {NoCtx}] :
         /\ \A r \in Rooms :
              /\ \/ v[r] = 0 /\ (store[r] = 0 \/ ~db[r].exists)
                 \/ store[r] # 0 /\ v[r] \in Reflected(r, store[r])
              /\ v[r] # 0 <=> f[r] # NoCtx
         /\ \A r, q \in Rooms : f[r] = f[q] => r = q \/ f[r] = NoCtx
         /\ store' = v
         /\ active' = f
         /\ gor' = [c \in Ctx |->
              IF \E r \in Rooms : f[r] = c
              THEN [IdleGor EXCEPT !.room = CHOOSE r \in Rooms : f[r] = c,
                                   !.pc = "idle"]
              ELSE IdleGor]
    /\ phase' = "started"
    /\ UNCHANGED <<apiVars, redisVars, batch, blank, cons, seen, crashes, faults>>

\* The process dies: memory is lost, Redis keeps the group and the stream.
Crash ==
    /\ phase # "down"
    /\ crashes < MaxCrashes
    /\ crashes' = crashes + 1
    /\ phase' = "down"
    /\ store' = [r \in Rooms |-> 0]
    /\ active' = [r \in Rooms |-> NoCtx]
    /\ gor' = [c \in Ctx |-> IdleGor]
    /\ batch' = {} /\ blank' = {}
    /\ cons' = IdleCons
    /\ UNCHANGED <<apiVars, redisVars, seen, faults>>

-----------------------------------------------------------------------------
(* Stream consumer *)

\* Mutant: the consumer goes straight to the live loop.
ensureGroupSkipsDrain ==
    /\ phase = "started"
    /\ group' = IF group.exists THEN group
                ELSE [exists |-> TRUE, start |-> Len(stream), pos |-> Len(stream)]
    /\ phase' = "live"
    /\ UNCHANGED <<apiVars, pel, store, active, gor, batch, blank, cons, seen, crashes,
                   faults>>

\* ensureGroup: XGROUP CREATE at "$"; BUSYGROUP leaves the group alone.
ensureGroup ==
    /\ phase = "started"
    /\ group' = IF group.exists THEN group
                ELSE [exists |-> TRUE, start |-> Len(stream), pos |-> Len(stream)]
    /\ phase' = "drain"
    /\ UNCHANGED <<apiVars, pel, store, active, gor, batch, blank, cons, seen, crashes,
                   faults>>

Waiting == batch = {} /\ cons.pc = "idle"

\* drainPending: one XREADGROUP "0-0"; an empty answer or an error ends it.  Of a
\* pending entry that was trimmed, only the id is left.
drainPending ==
    /\ phase = "drain" /\ Waiting
    /\ \/ /\ pel # {}
          /\ batch' = {i \in pel : Cardinality({j \in pel : j < i}) < BatchSize}
          /\ blank' = {i \in batch' : i <= trimmed}
          /\ UNCHANGED <<phase, faults>>
       \/ pel = {} /\ phase' = "live" /\ UNCHANGED <<batch, blank, faults>>
       \/ Fault /\ phase' = "live" /\ UNCHANGED <<batch, blank>>
    /\ UNCHANGED <<apiVars, redisVars, store, active, gor, cons, seen, crashes>>

\* readLoop: one XREADGROUP ">" that returns something, from the first entry that is
\* neither delivered nor trimmed.  An error or a timeout of the blocking read leaves
\* everything as it is.
readLoop ==
    LET first == IF group.pos < trimmed THEN trimmed + 1 ELSE group.pos + 1
        last  == IF first + BatchSize <= Len(stream) THEN first + BatchSize - 1 ELSE Len(stream)
    IN  /\ phase = "live" /\ Waiting
        /\ group.pos < Len(stream)
        /\ group' = [group EXCEPT !.pos = last]
        /\ pel' = pel \cup first .. last
        /\ batch' = first .. last
        /\ UNCHANGED <<apiVars, phase, store, active, gor, blank, cons, seen, crashes,
                       faults>>

\* i is the next message that the loop over a batch takes.
Taking(i) ==
    /\ phase \in {"drain", "live"} /\ cons.pc = "idle"
    /\ i \in batch /\ \A j \in batch : i <= j
    /\ batch' = batch \ {i}

\* dispatch of a message that has an event field.
Dispatching(i) == Taking(i) /\ i \notin blank /\ UNCHANGED blank

\* dispatch of a message without one: it is skipped and acknowledged.
DispatchBlank ==
    \E i \in batch :
        /\ Taking(i) /\ i \in blank /\ blank' = blank \ {i}
        /\ cons' = [pc |-> "ack", msg |-> i, ver |-> 0]
        /\ UNCHANGED <<apiVars, redisVars, phase, store, active, gor, seen, crashes, faults>>

MsgRoom == stream[cons.msg].room

\* What a handler does once ReloadRoom has returned nil.
AfterReload(type) == IF type = "room_created" THEN "addroom" ELSE "ack"

Newer(m, n) == IF m < n THEN n ELSE m

\* dispatch of onRoomCreated and onRoomReload up to ReloadRoom's fetchRoom: a
\* missing row evicts the entry and counts as a successful reload.
DispatchReload ==
    \E i \in batch :
        LET e == stream[i]
        IN  /\ Dispatching(i)
            /\ e.type # "room_deleted"
            /\ \/ /\ db[e.room].exists
                  /\ cons' = [pc |-> "rows", msg |-> i, ver |-> db[e.room].ver]
                  /\ UNCHANGED <<store, seen>>
               \/ /\ ~db[e.room].exists
                  /\ store' = [store EXCEPT ![e.room] = 0]
                  /\ seen' = [seen EXCEPT ![e.room] = Newer(@, db[e.room].ver)]
                  /\ cons' = [pc |-> AfterReload(e.type), msg |-> i, ver |-> 0]
            /\ UNCHANGED <<apiVars, redisVars, phase, active, gor, crashes, faults>>

\* Mutant: a deletion cannot fail, so it is acknowledged first.
DispatchDeleteAcked ==
    \E i \in batch :
        /\ Dispatching(i)
        /\ stream[i].type = "room_deleted"
        /\ RemoveRoom(stream[i].room)
        /\ cons' = [pc |-> "evict", msg |-> i, ver |-> 0]
        /\ pel' = pel \ {i}
        /\ UNCHANGED <<apiVars, group, phase, store, seen, crashes, faults>>

\* dispatch of onRoomDeleted up to sched.RemoveRoom.
DispatchDelete ==
    \E i \in batch :
        /\ Dispatching(i)
        /\ stream[i].type = "room_deleted"
        /\ RemoveRoom(stream[i].room)
        /\ cons' = [pc |-> "evict", msg |-> i, ver |-> 0]
        /\ UNCHANGED <<apiVars, redisVars, phase, store, seen, crashes, faults>>

\* onRoomDeleted: store.DeleteRoom.
DispatchEvict ==
    /\ cons.pc = "evict"
    /\ store' = [store EXCEPT ![MsgRoom] = 0]
    /\ seen' = [seen EXCEPT ![MsgRoom] = Newer(@, stream[cons.msg].ver)]
    /\ cons' = [cons EXCEPT !.pc = "ack"]
    /\ UNCHANGED <<apiVars, redisVars, phase, active, gor, batch, blank, crashes, faults>>

\* ReloadRoom: the queries for desired state, periods, devices, actuators.
DispatchFetchRows ==
    /\ cons.pc = "rows"
    /\ \E v \in Reflected(MsgRoom, cons.ver) :
         cons' = [cons EXCEPT !.pc = "install", !.ver = v]
    /\ UNCHANGED <<apiVars, redisVars, phase, store, active, gor, batch, blank, seen,
                   crashes, faults>>

\* ReloadRoom: store.AddRoom.
DispatchInstall ==
    /\ cons.pc = "install"
    /\ store' = [store EXCEPT ![MsgRoom] = cons.ver]
    /\ seen' = [seen EXCEPT ![MsgRoom] = Newer(@, cons.ver)]
    /\ cons' = [cons EXCEPT !.pc = AfterReload(stream[cons.msg].type)]
    /\ UNCHANGED <<apiVars, redisVars, phase, active, gor, batch, blank, crashes, faults>>

\* onRoomCreated: sched.AddRoom.
DispatchAddRoom ==
    /\ cons.pc = "addroom"
    /\ \E c \in Ctx : StartRoom(MsgRoom, c)
    /\ cons' = [cons EXCEPT !.pc = "ack"]
    /\ UNCHANGED <<apiVars, redisVars, phase, store, batch, blank, seen, crashes, faults>>

\* Mutant: the error of ReloadRoom is dropped and the message acknowledged.
DispatchFailsAcks ==
    /\ Fault
    /\ cons.pc = "rows" /\ cons' = [cons EXCEPT !.pc = "ack"]
    /\ UNCHANGED <<apiVars, redisVars, phase, store, active, gor, batch, blank, seen,
                   crashes>>

\* A query of ReloadRoom fails: the message stays unacknowledged.
DispatchFails ==
    /\ Fault
    /\ \/ /\ \E i \in batch : Dispatching(i) /\ stream[i].type # "room_deleted"
          /\ UNCHANGED cons
       \/ cons.pc = "rows" /\ cons' = IdleCons /\ UNCHANGED <<batch, blank>>
    /\ UNCHANGED <<apiVars, redisVars, phase, store, active, gor, seen, crashes>>

\* ack: XACK, or its failure, which is logged and dropped.
ack ==
    /\ cons.pc = "ack"
    /\ \/ pel' = pel \ {cons.msg} /\ UNCHANGED faults
       \/ Fault /\ UNCHANGED pel
    /\ cons' = IdleCons
    /\ UNCHANGED <<apiVars, group, phase, store, active, gor, batch, blank, seen, crashes>>

-----------------------------------------------------------------------------
(* Periodic cache refresh, one goroutine per context *)

SetGor(c, pc, ver) == gor' = [gor EXCEPT ![c].pc = pc, ![c].ver = ver]

RefreshUnchanged == UNCHANGED <<apiVars, redisVars, phase, active, batch, blank, cons,
                                seen, crashes>>

\* A tick: ReloadRoom up to fetchRoom.  With a cancelled context every query
\* fails, so nothing happens.
RefreshTick(c) ==
    LET r == gor[c].room
    IN  /\ gor[c].pc = "idle" /\ ~gor[c].cancelled
        /\ \/ db[r].exists /\ SetGor(c, "rows", db[r].ver) /\ UNCHANGED store
           \/ ~db[r].exists /\ store' = [store EXCEPT ![r] = 0] /\ UNCHANGED gor
        /\ UNCHANGED faults /\ RefreshUnchanged

RefreshFetchRows(c) ==
    /\ gor[c].pc = "rows" /\ ~gor[c].cancelled
    /\ \E v \in Reflected(gor[c].room, gor[c].ver) : SetGor(c, "install", v)
    /\ UNCHANGED <<store, faults>> /\ RefreshUnchanged

\* A query fails, because of the database or because the context was cancelled.
RefreshFails(c) ==
    /\ gor[c].pc = "rows"
    /\ SetGor(c, "idle", 0)
    /\ \/ gor[c].cancelled /\ UNCHANGED faults
       \/ ~gor[c].cancelled /\ Fault
    /\ UNCHANGED store /\ RefreshUnchanged

\* Mutant: an entry that is already in the store is kept.
RefreshInstallIfMissing(c) ==
    /\ gor[c].pc = "install"
    /\ store' = [store EXCEPT ![gor[c].room] = IF @ = 0 THEN gor[c].ver ELSE @]
    /\ SetGor(c, "idle", 0)
    /\ UNCHANGED faults /\ RefreshUnchanged

\* store.AddRoom: does not look at the context.
RefreshInstall(c) ==
    /\ gor[c].pc = "install"
    /\ store' = [store EXCEPT ![gor[c].room] = gor[c].ver]
    /\ SetGor(c, "idle", 0)
    /\ UNCHANGED faults /\ RefreshUnchanged

\* ctx.Done: the goroutine returns and its context is garbage.
RefreshExit(c) ==
    /\ gor[c].pc = "idle" /\ gor[c].cancelled
    /\ gor' = [gor EXCEPT ![c] = IdleGor]
    /\ UNCHANGED <<store, faults>> /\ RefreshUnchanged

-----------------------------------------------------------------------------
Api == \/ \E r \in Rooms : \/ CreateRoom(r) \/ ChangeRoom(r)
                           \/ ChangeRoomSilently(r) \/ DeleteRoom(r) \/ DeleteUser(r)
       \/ \E e \in outbox : xadd(e)

Consumer == \/ ensureGroup \/ drainPending \/ readLoop
            \/ DispatchBlank \/ DispatchReload \/ DispatchDelete \/ DispatchEvict
            \/ DispatchFetchRows \/ DispatchInstall \/ DispatchAddRoom
            \/ DispatchFails \/ ack

Refresh(c) == \/ RefreshTick(c) \/ RefreshFetchRows(c) \/ RefreshFails(c)
              \/ RefreshInstall(c) \/ RefreshExit(c)

Next == Api \/ WarmCache \/ Start \/ Crash \/ Consumer \/ \E c \in Ctx : Refresh(c)

Spec == Init /\ [][Next]_vars

\* A request that committed gets to its XADD (a crash of api-service in between
\* counts as a failed XADD); of a device-service that has begun its warm start, the
\* start, the consumer's loop and every refresh goroutine keep running.  Nothing
\* starts the process: no restart policy does it after a crash, so WarmCache has no
\* fairness, and what follows is about behaviours in which the process is up for good.
FairSpec ==
    /\ Spec
    /\ WF_vars(\E e \in outbox : xadd(e))
    /\ WF_vars(Start)
    /\ WF_vars(Consumer)
    /\ \A c \in Ctx : WF_vars(Refresh(c))

-----------------------------------------------------------------------------
(* Properties *)

\* Entries of the stream that were delivered to the group, or trimmed before that, and
\* are not pending.
Acked == ((group.start + 1) .. group.pos) \ pel

\* At-least-once processing (dispatch acks last; drainPending replays): an
\* event is acknowledged only after some handler applied the database state of
\* the write that caused it, or a later one, whatever fails or crashes between.
\* The exception is what MAXLEN has trimmed: that is skipped, or acknowledged blank.
AckedWasApplied ==
    \A i \in Acked : i > trimmed => stream[i].ver <= seen[stream[i].room]

\* startRoom and RemoveRoom keep at most one set of live goroutines per room, the
\* registered one: every other context of the room has been cancelled.
LoopsMatchRegistry ==
    \A c \in Ctx : gor[c].pc # "none" =>
        (active[gor[c].room] = c <=> ~gor[c].cancelled)

\* Somebody has started device-service again after its last crash.
UpForGood == <>[](phase # "down")

\* The safety net, where it works: once writes stop and device-service is up, the
\* entry of every room that has goroutines catches up with the database for good,
\* whether or not events were sent, lost, trimmed or applied out of order.  The entry
\* of a room that is gone (deleted, or by the cascade from its user, which sends no
\* event) goes too; that its goroutines run on is not excluded.
ConfigConverges ==
    UpForGood => \A r \in Rooms :
        <>[](/\ phase = "live"
             /\ active[r] # NoCtx => store[r] = IF db[r].exists THEN db[r].ver ELSE 0)

\* drainPending: without failed calls, crashes leave nothing pending for good, once
\* device-service is up again.
PendingDrained == UpForGood => <>[](faults = 0 => pel = {})

\* events.go, package comment: the periodic refresh is the safety net for missed
\* events, so a room that exists ends up with a control loop.
RoomEventuallyControlled ==
    UpForGood => \A r \in Rooms : <>[](db[r].exists => active[r] # NoCtx)

\* events.go, NotifyRoomDeleted: the event stops the room's control loop, at
\* least when it is the last event of the room in the stream.
DeletedRoomStopped ==
    \A i \in Acked :
        /\ i > trimmed /\ stream[i].type = "room_deleted"
        /\ \A j \in i + 1 .. Len(stream) : stream[j].room # stream[i].room
        => active[stream[i].room] = NoCtx
============================================================================
