----------------------------- MODULE DeviceSync -----------------------------
(***************************************************************************)
(* Where device-service believes one device to be: its DeviceCache, which  *)
(* routes telemetry to a room, and the ActuatorHwIDs of the rooms, which   *)
(* decide who commands it.  api-service moves, renames and deletes the     *)
(* device and deletes rooms; the consumer handles the events; every room   *)
(* refreshes itself; device-service can crash, stay down and start again.  *)
(*                                                                         *)
(* An update that is refused (RoomConfig has the checks) or fails never    *)
(* gets to its save.  The stream delivers in order and repeats the event   *)
(* in progress after a restart (CacheSync has the consumer group); an      *)
(* event whose handler failed is not repeated before a restart, which      *)
(* reloads everything anyway.                                              *)
(***************************************************************************)
EXTENDS Naturals, Sequences

CONSTANTS
    Rooms,
    Unassigned,   \* the device's room_id is NULL
    Gone,         \* there is no such device
    NoEntry,      \* no DeviceCache
    MaxRequests, MaxFaults, MaxCrashes    \* bounds

ASSUME DeviceSyncAssumption ==
    /\ {Unassigned, Gone, NoEntry} \cap Rooms = {} /\ NoEntry \notin {Unassigned, Gone}
    /\ MaxRequests \in Nat /\ MaxFaults \in Nat /\ MaxCrashes \in Nat

VARIABLES
    dbRoom,    \* the device's row: a room, Unassigned or Gone
    roomRow,   \* which rooms exist
    upd,       \* each update: the room it read and the one asked for, or None
    outbox,    \* events each request has still to send
    requests,  \* requests so far
    stream,
    pos,       \* events handled
    cons,      \* the consumer: step, fetched value
    dcache,    \* Store.devices: the DeviceCache's RoomID, or NoEntry
    hw,        \* Store.rooms: is the device among the ActuatorHwIDs of the entry?
    running,   \* rooms with goroutines
    ref,       \* each refresh goroutine: "idle", or what it fetched
    proc,      \* device-service: "down", "rooms", "warm" or "up"
    seen,      \* the rooms the warm start has found
    missed,    \* history: the last change of the device's row sends no device event
    faults, crashes

vars == <<dbRoom, roomRow, upd, outbox, requests, stream, pos, cons, dcache, hw, running, ref,
          proc, seen, missed, faults, crashes>>

apiVars == <<dbRoom, roomRow, upd, outbox, requests, missed>>
cacheVars == <<dcache, hw, running, ref>>
procVars == <<proc, seen, crashes>>

Requests == 1 .. MaxRequests
View == {"none", "with", "without"}   \* no entry; an entry with or without the device
Idle == [pc |-> "idle", val |-> NoEntry]
None == [from |-> NoEntry, to |-> NoEntry]

\* What the queries for room r return now.
fetchDevicesForRoom(r) ==
    IF ~roomRow[r] THEN "none" ELSE IF dbRoom = r THEN "with" ELSE "without"

Device(r) == [type |-> "device_changed", room |-> r]
Deleted(r) == [type |-> "room_deleted", room |-> r]

\* After a warm start, wherever the device is; devices without a room are not loaded.
Init ==
    /\ dbRoom \in Rooms \cup {Unassigned, Gone}
    /\ roomRow = [r \in Rooms |-> TRUE]
    /\ upd = [n \in Requests |-> None]
    /\ outbox = [n \in Requests |-> <<>>]
    /\ requests = 0
    /\ stream = <<>> /\ pos = 0
    /\ cons = Idle
    /\ dcache = IF dbRoom \in Rooms THEN dbRoom ELSE NoEntry
    /\ hw = [r \in Rooms |-> fetchDevicesForRoom(r)]
    /\ running = [r \in Rooms |-> TRUE]
    /\ ref = [r \in Rooms |-> "idle"]
    /\ proc = "up" /\ seen = Rooms
    /\ missed = FALSE
    /\ faults = 0 /\ crashes = 0

Fault == faults < MaxFaults /\ faults' = faults + 1

-----------------------------------------------------------------------------
(* api-service *)

\* A request commits; it still has to send events es.
Commit(es) ==
    /\ requests < MaxRequests
    /\ requests' = requests + 1
    /\ outbox' = [outbox EXCEPT ![requests + 1] = es]
    /\ UNCHANGED <<stream, pos, cons, cacheVars, procVars, faults>>

\* device.Service.Update reads the device; the room asked for can be the one it is in
\* (a rename).
UpdateRead(to) ==
    /\ dbRoom # Gone
    /\ to \in Rooms => roomRow[to]
    /\ requests < MaxRequests
    /\ requests' = requests + 1
    /\ upd' = [upd EXCEPT ![requests + 1] = [from |-> dbRoom, to |-> to]]
    /\ UNCHANGED <<dbRoom, roomRow, outbox, missed, stream, pos, cons, cacheVars, procVars, faults>>

\* The events it sends then: to the room it read and to the one entered, if they differ.
Moves(u) ==
    IF u.from = u.to THEN <<>>
    ELSE (IF u.from \in Rooms THEN <<Device(u.from)>> ELSE <<>>)
         \o (IF u.to \in Rooms THEN <<Device(u.to)>> ELSE <<>>)

\* Save of all columns: whatever the row is now, room_id becomes the room asked for; a
\* device that is gone is inserted again.
UpdateSave(n) ==
    LET u == upd[n]
    IN  /\ u # None
        /\ u.to \in Rooms => roomRow[u.to]
        /\ dbRoom' = u.to
        /\ upd' = [upd EXCEPT ![n] = None]
        /\ outbox' = [outbox EXCEPT ![n] = Moves(u)]
        /\ missed' = CASE u.from # u.to -> FALSE
                       [] u.from = u.to /\ dbRoom # u.to -> TRUE
                       [] OTHER -> missed
        /\ UNCHANGED <<roomRow, requests, stream, pos, cons, cacheVars, procVars, faults>>

\* device.Service.Delete and Create: no event.
Delete ==
    /\ dbRoom # Gone
    /\ dbRoom' = Gone
    /\ Commit(<<>>)
    /\ missed' = TRUE
    /\ UNCHANGED <<roomRow, upd>>

\* An update of the row that was deleted cannot insert it any more: hw_id is unique.
Create ==
    /\ dbRoom = Gone
    /\ dbRoom' = Unassigned
    /\ Commit(<<>>)
    /\ upd' = [n \in Requests |-> None]
    /\ missed' = TRUE
    /\ UNCHANGED roomRow

\* Mutant: devices.room_id without ON DELETE SET NULL.
DeleteRoomOnly(r) ==
    /\ roomRow[r]
    /\ roomRow' = [roomRow EXCEPT ![r] = FALSE]
    /\ Commit(<<Deleted(r)>>)
    /\ missed' = (missed \/ dbRoom = r)
    /\ UNCHANGED <<dbRoom, upd>>

\* room.Service.Delete: room_id of its devices becomes NULL.
DeleteRoom(r) ==
    /\ roomRow[r]
    /\ roomRow' = [roomRow EXCEPT ![r] = FALSE]
    /\ dbRoom' = IF dbRoom = r THEN Unassigned ELSE dbRoom
    /\ Commit(<<Deleted(r)>>)
    /\ missed' = (missed \/ dbRoom = r)
    /\ UNCHANGED upd

\* XADD of the request's next event; a failure is logged and ignored.
xadd(n) ==
    /\ outbox[n] # <<>>
    /\ outbox' = [outbox EXCEPT ![n] = Tail(@)]
    /\ \/ stream' = Append(stream, Head(outbox[n])) /\ UNCHANGED faults
       \/ Fault /\ UNCHANGED stream
    /\ UNCHANGED <<dbRoom, roomRow, upd, requests, missed, pos, cons, cacheVars, procVars>>

-----------------------------------------------------------------------------
(* The consumer *)

Event == stream[pos + 1]

\* The consumer, which runs, is about to begin an event of type t.
Begins(t) == proc = "up" /\ cons.pc = "idle" /\ pos < Len(stream) /\ Event.type = t

Handled == pos' = pos + 1 /\ cons' = Idle

\* Mutant: onDeviceChanged reloads the room only.
ReloadDeviceSkipped ==
    /\ Begins("device_changed")
    /\ cons' = [pc |-> "device", val |-> dcache]
    /\ UNCHANGED <<apiVars, stream, pos, cacheVars, procVars, faults>>

\* onDeviceChanged: the queries of ReloadDevice.
ReloadDevice ==
    /\ Begins("device_changed")
    /\ cons' = [pc |-> "device", val |-> dbRoom]
    /\ UNCHANGED <<apiVars, stream, pos, cacheVars, procVars, faults>>

AddDevice ==
    /\ cons.pc = "device"
    /\ dcache' = IF cons.val = Gone THEN NoEntry ELSE cons.val
    /\ cons' = [pc |-> "room", val |-> NoEntry]
    /\ UNCHANGED <<apiVars, stream, pos, hw, running, ref, procVars, faults>>

\* The queries of ReloadRoom.
ReloadRoom ==
    /\ cons.pc = "room"
    /\ cons' = [pc |-> "add", val |-> fetchDevicesForRoom(Event.room)]
    /\ UNCHANGED <<apiVars, stream, pos, cacheVars, procVars, faults>>

AddRoom ==
    /\ cons.pc = "add"
    /\ hw' = [hw EXCEPT ![Event.room] = cons.val]
    /\ Handled
    /\ UNCHANGED <<apiVars, stream, dcache, running, ref, procVars, faults>>

onRoomDeleted ==
    /\ Begins("room_deleted")
    /\ running' = [running EXCEPT ![Event.room] = FALSE]
    /\ hw' = [hw EXCEPT ![Event.room] = "none"]
    /\ Handled
    /\ UNCHANGED <<apiVars, stream, dcache, ref, procVars, faults>>

\* A query fails and the event stays unacknowledged.
DispatchFails ==
    /\ Begins("device_changed") \/ cons.pc = "room"
    /\ Fault
    /\ Handled
    /\ UNCHANGED <<apiVars, stream, cacheVars, procVars>>

-----------------------------------------------------------------------------
(* The refresh goroutine of a room, crashes and restarts *)

RefreshFetch(r) ==
    /\ running[r] /\ ref[r] = "idle"
    /\ ref' = [ref EXCEPT ![r] = fetchDevicesForRoom(r)]
    /\ UNCHANGED <<apiVars, stream, pos, cons, dcache, hw, running, procVars, faults>>

\* Mutant: an entry that is there is not replaced.
RefreshInstallIfMissing(r) ==
    /\ ref[r] # "idle"
    /\ hw' = [hw EXCEPT ![r] = IF @ = "none" THEN ref[r] ELSE @]
    /\ ref' = [ref EXCEPT ![r] = "idle"]
    /\ UNCHANGED <<apiVars, stream, pos, cons, dcache, running, procVars, faults>>

RefreshInstall(r) ==
    /\ ref[r] # "idle"
    /\ hw' = [hw EXCEPT ![r] = ref[r]]
    /\ ref' = [ref EXCEPT ![r] = "idle"]
    /\ UNCHANGED <<apiVars, stream, pos, cons, dcache, running, procVars, faults>>

\* The process ends, and with it all it knows.
Crash ==
    /\ proc # "down" /\ crashes < MaxCrashes
    /\ crashes' = crashes + 1
    /\ proc' = "down" /\ seen' = {}
    /\ dcache' = NoEntry
    /\ hw' = [r \in Rooms |-> "none"]
    /\ running' = [r \in Rooms |-> FALSE]
    /\ ref' = [r \in Rooms |-> "idle"]
    /\ cons' = Idle
    /\ UNCHANGED <<apiVars, stream, pos, faults>>

\* Somebody starts it again: WarmCache fetches the rooms, ...
WarmRooms ==
    /\ proc = "down"
    /\ proc' = "rooms" /\ seen' = {r \in Rooms : roomRow[r]}
    /\ UNCHANGED <<apiVars, stream, pos, cons, cacheVars, crashes, faults>>

\* ... then the devices in these rooms, and fills the store, which nobody uses yet.
WarmDevices ==
    /\ proc = "rooms" /\ proc' = "warm"
    /\ dcache' = IF dbRoom \in seen THEN dbRoom ELSE NoEntry
    /\ hw' = [r \in Rooms |-> CASE r \notin seen -> "none"
                                [] r \in seen /\ dbRoom = r -> "with"
                                [] OTHER -> "without"]
    /\ missed' = FALSE
    /\ UNCHANGED <<dbRoom, roomRow, upd, outbox, requests, stream, pos, cons, running, ref, seen,
                   crashes, faults>>

\* Scheduler.Start and Consumer.Run.
StartAll ==
    /\ proc = "warm" /\ proc' = "up"
    /\ running' = [r \in Rooms |-> r \in seen]
    /\ UNCHANGED <<apiVars, stream, pos, cons, dcache, hw, ref, seen, crashes, faults>>

\* The room a message of the device counts for (Ingestor.Process), or NoEntry if
\* the message is dropped.
Route == IF dcache \in Rooms /\ hw[dcache] # "none" THEN dcache ELSE NoEntry

Api ==
    \/ \E to \in Rooms \cup {Unassigned} : UpdateRead(to)
    \/ \E n \in Requests : UpdateSave(n)
    \/ Delete \/ Create \/ \E r \in Rooms : DeleteRoom(r)

Send == \E n \in Requests : xadd(n)

Consumer == ReloadDevice \/ AddDevice \/ ReloadRoom \/ AddRoom \/ onRoomDeleted \/ DispatchFails

Refresh(r) == RefreshFetch(r) \/ RefreshInstall(r)

Service == Crash \/ WarmRooms \/ WarmDevices \/ StartAll

Next == Api \/ Send \/ Consumer \/ (\E r \in Rooms : Refresh(r)) \/ Service

Spec == Init /\ [][Next]_vars

\* Requests get to their XADDs; the goroutines of device-service keep running while it
\* is up.  Nothing starts it again when it is down.
FairSpec ==
    /\ Spec
    /\ WF_vars(Send) /\ WF_vars(Consumer)
    /\ \A r \in Rooms : WF_vars(Refresh(r))

-----------------------------------------------------------------------------
(* Properties *)

\* The service is up, and every event was sent and handled.
Quiet ==
    /\ proc = "up"
    /\ \A n \in Requests : outbox[n] = <<>>
    /\ pos = Len(stream) /\ cons = Idle

TypeOK ==
    /\ dbRoom \in Rooms \cup {Unassigned, Gone}
    /\ dbRoom \in Rooms => roomRow[dbRoom]
    /\ pos \in 0 .. Len(stream)
    /\ cons.pc # "idle" => pos < Len(stream) /\ Event.type = "device_changed"
    /\ proc \in {"down", "rooms", "warm", "up"}
    /\ cons.pc # "idle" => proc = "up"
    /\ dcache \in Rooms \cup {Unassigned, NoEntry}
    /\ hw \in [Rooms -> View] /\ ref \in [Rooms -> View \cup {"idle"}]

\* When nothing was lost and every event is handled, telemetry counts for the room the
\* device is in, however moves, renames, deletions of rooms, refreshes, crashes and warm
\* starts interleave (onDeviceChanged reads the device again at every move), unless the
\* last change of the row is one that api-service does not announce for the device: its
\* creation or deletion, the deletion of its room, or a rename that writes back the room
\* it had read before the device moved.
RoutedWhenQuiet ==
    Quiet /\ faults = 0 /\ ~missed =>
        dcache = dbRoom \/ (dbRoom \notin Rooms /\ dcache \notin Rooms)

\* Once the changes end and the service stays up, the actuators of a room that exists are
\* those of its devices, also when events were lost or sent while it was down
\* (runCacheRefresh).
HwConverges ==
    <>[](proc = "up") => \A r \in Rooms : <>[](roomRow[r] => hw[r] = fetchDevicesForRoom(r))
=============================================================================
