-------------------------- MODULE DeviceSyncProofs --------------------------
(***************************************************************************)
(* Proofs about DeviceSync, for any number of rooms, requests, faults and  *)
(* crashes.                                                                *)
(***************************************************************************)
EXTENDS DeviceSync, TLAPS

Events == [type : {"device_changed", "room_deleted"}, room : Rooms]

Update == [from : Rooms \cup {Unassigned, NoEntry}, to : Rooms \cup {Unassigned, NoEntry}]

\* TypeOK with the events, the updates in progress and what the consumer holds at each step.
Types ==
    /\ dbRoom \in Rooms \cup {Unassigned, Gone}
    /\ roomRow \in [Rooms -> BOOLEAN]
    /\ dbRoom \in Rooms => roomRow[dbRoom]
    /\ upd \in [Requests -> Update]
    /\ \A n \in Requests : upd[n] # None => /\ upd[n].from # NoEntry /\ upd[n].to # NoEntry
                                           /\ outbox[n] = <<>>
    /\ outbox \in [Requests -> Seq(Events)]
    /\ requests \in Nat
    /\ \A n \in Requests : n > requests => outbox[n] = <<>> /\ upd[n] = None
    /\ stream \in Seq(Events)
    /\ pos \in 0 .. Len(stream)
    /\ cons \in [pc : {"idle", "device", "room", "add"},
                 val : Rooms \cup {Unassigned, Gone, NoEntry} \cup View]
    /\ cons.pc # "idle" => pos < Len(stream) /\ Event.type = "device_changed"
    /\ cons.pc = "device" => cons.val \in Rooms \cup {Unassigned, Gone}
    /\ cons.pc = "add" => cons.val \in View
    /\ proc \in {"down", "rooms", "warm", "up"}
    /\ cons.pc # "idle" => proc = "up"
    /\ seen \subseteq Rooms
    /\ proc = "rooms" => \A r \in Rooms : roomRow[r] => r \in seen
    /\ dcache \in Rooms \cup {Unassigned, NoEntry}
    /\ hw \in [Rooms -> View]
    /\ ref \in [Rooms -> View \cup {"idle"}]
    /\ faults \in Nat

LEMMA FetchedView == ASSUME NEW r PROVE fetchDevicesForRoom(r) \in View
BY DEF fetchDevicesForRoom, View

LEMMA InitTypes == Init => Types
<1> SUFFICES ASSUME Init PROVE Types
  OBVIOUS
<1> USE DEF Init
<1>1. /\ outbox \in [Requests -> Seq(Events)] /\ \A n \in Requests : outbox[n] = <<>>
      /\ stream \in Seq(Events) /\ pos \in 0 .. Len(stream)
      /\ upd \in [Requests -> Update] /\ \A n \in Requests : upd[n] = None
  BY DEF Update, None
<1>2. hw \in [Rooms -> View] /\ ref \in [Rooms -> View \cup {"idle"}]
  BY FetchedView
<1>3. /\ cons \in [pc : {"idle", "device", "room", "add"},
                   val : Rooms \cup {Unassigned, Gone, NoEntry} \cup View]
      /\ cons.pc = "idle"
  BY DEF Idle
<1> QED
  BY <1>1, <1>2, <1>3 DEF Types

LEMMA CommitTypes ==
    ASSUME Types, NEW es \in Seq(Events), Commit(es),
           dbRoom' \in Rooms \cup {Unassigned, Gone}, roomRow' \in [Rooms -> BOOLEAN],
           \A r \in Rooms : roomRow'[r] => roomRow[r],
           dbRoom' \in Rooms => roomRow'[dbRoom'],
           upd' = upd \/ upd' = [n \in Requests |-> None]
    PROVE  Types'
<1>1. /\ outbox' = [outbox EXCEPT ![requests + 1] = es] /\ requests' = requests + 1
      /\ UNCHANGED <<stream, pos, cons, dcache, hw, ref, faults, proc, seen>>
  BY DEF Commit, cacheVars, procVars
<1>2. requests' \in Nat
  BY <1>1 DEF Types
<1>3. outbox' \in [Requests -> Seq(Events)]
  <2>1. outbox \in [Requests -> Seq(Events)]
    BY DEF Types
  <2> QED
    BY <1>1, <2>1
<1>4. \A n \in Requests : n # requests + 1 => outbox'[n] = outbox[n]
  BY <1>1 DEF Types
<1>5. \A n \in Requests : n > requests' => n > requests /\ n # requests + 1
  BY <1>1 DEF Types, Requests
<1>6. requests + 1 \in Requests => upd[requests + 1] = None
  BY DEF Types, Requests
<1>7. upd' \in [Requests -> Update] /\ \A n \in Requests : upd'[n] \in {None, upd[n]}
  BY DEF Types, Update, None
<1>8. \A n \in Requests : n > requests' => outbox'[n] = <<>> /\ upd'[n] = None
  BY <1>4, <1>5, <1>7 DEF Types
<1>9. \A n \in Requests : upd'[n] # None => /\ upd'[n].from # NoEntry /\ upd'[n].to # NoEntry
                                           /\ outbox'[n] = <<>>
  BY <1>4, <1>6, <1>7 DEF Types
<1> QED
  BY <1>1, <1>2, <1>3, <1>7, <1>8, <1>9 DEF Types, Event

LEMMA ReadTypes ==
    ASSUME Types, NEW to \in Rooms \cup {Unassigned}, UpdateRead(to)
    PROVE  Types'
<1> DEFINE u == [from |-> dbRoom, to |-> to]
<1>1. /\ upd' = [upd EXCEPT ![requests + 1] = u] /\ requests' = requests + 1
      /\ requests + 1 \in Requests
      /\ UNCHANGED <<dbRoom, roomRow, outbox, stream, pos, cons, dcache, hw, ref, faults, proc, seen>>
  BY DeviceSyncAssumption DEF UpdateRead, cacheVars, procVars, Types, Requests
<1>2. u \in Update /\ u.from # NoEntry /\ u.to # NoEntry
  BY DeviceSyncAssumption DEF UpdateRead, Update, Types
<1> HIDE DEF u
<1>3. upd' \in [Requests -> Update] /\ upd'[requests + 1] = u
      /\ \A n \in Requests : n # requests + 1 => upd'[n] = upd[n]
  BY <1>1, <1>2 DEF Types
<1>4. requests' \in Nat /\ requests + 1 > requests /\ outbox[requests + 1] = <<>>
  BY <1>1 DEF Types
<1>5. \A n \in Requests : n > requests' => n > requests /\ n # requests + 1
  BY <1>1 DEF Types, Requests
<1>6. \A n \in Requests : n > requests' => outbox'[n] = <<>> /\ upd'[n] = None
  BY <1>1, <1>3, <1>5 DEF Types
<1>7. \A n \in Requests : upd'[n] # None => /\ upd'[n].from # NoEntry /\ upd'[n].to # NoEntry
                                           /\ outbox'[n] = <<>>
  BY <1>1, <1>2, <1>3, <1>4 DEF Types
<1> QED
  BY <1>1, <1>3, <1>4, <1>6, <1>7 DEF Types, Event

LEMMA MovesSequence ==
    ASSUME NEW u PROVE Moves(u) \in Seq(Events)
<1>1. \A r \in Rooms : <<Device(r)>> \in Seq(Events)
  BY DEF Device, Events
<1> QED
  BY <1>1 DEF Moves

LEMMA SaveTypes == ASSUME Types, NEW n \in Requests, UpdateSave(n) PROVE Types'
<1>1. /\ upd[n] # None /\ dbRoom' = upd[n].to /\ (upd[n].to \in Rooms => roomRow[upd[n].to])
      /\ upd' = [upd EXCEPT ![n] = None] /\ outbox' = [outbox EXCEPT ![n] = Moves(upd[n])]
      /\ UNCHANGED <<roomRow, requests, stream, pos, cons, dcache, hw, ref, faults, proc, seen>>
  BY DEF UpdateSave, cacheVars, procVars
<1>2. dbRoom' \in Rooms \cup {Unassigned}
  BY <1>1 DEF Types, Update
<1>3. /\ upd' \in [Requests -> Update] /\ upd'[n] = None
      /\ \A m \in Requests : m # n => upd'[m] = upd[m]
  BY <1>1 DEF Types, Update, None
<1>4. /\ outbox' \in [Requests -> Seq(Events)]
      /\ \A m \in Requests : m # n => outbox'[m] = outbox[m]
  BY <1>1, MovesSequence DEF Types
<1>5. ~(n > requests)
  BY <1>1 DEF Types
<1>6. \A m \in Requests : m > requests' => outbox'[m] = <<>> /\ upd'[m] = None
  BY <1>1, <1>3, <1>4, <1>5 DEF Types
<1>7. \A m \in Requests : upd'[m] # None => /\ upd'[m].from # NoEntry /\ upd'[m].to # NoEntry
                                           /\ outbox'[m] = <<>>
  BY <1>3, <1>4 DEF Types
<1> QED
  BY <1>1, <1>2, <1>3, <1>4, <1>6, <1>7 DEF Types, Event

LEMMA ApiTypes == ASSUME Types, Api PROVE Types'
<1>1. CASE Delete \/ Create
  <2>1. <<>> \in Seq(Events)
    OBVIOUS
  <2>2. /\ Commit(<<>>) /\ dbRoom' \in {Unassigned, Gone} /\ UNCHANGED roomRow
        /\ upd' = upd \/ upd' = [n \in Requests |-> None]
    BY <1>1 DEF Delete, Create
  <2> QED
    BY <2>1, <2>2, CommitTypes, DeviceSyncAssumption DEF Types
<1>2. ASSUME NEW r \in Rooms, DeleteRoom(r) PROVE Types'
  <2>1. <<Deleted(r)>> \in Seq(Events)
    BY DEF Deleted, Events
  <2>2. /\ roomRow' = [roomRow EXCEPT ![r] = FALSE]
        /\ dbRoom' = IF dbRoom = r THEN Unassigned ELSE dbRoom
        /\ Commit(<<Deleted(r)>>) /\ upd' = upd
    BY <1>2 DEF DeleteRoom
  <2>3. /\ dbRoom' \in Rooms \cup {Unassigned, Gone} /\ roomRow' \in [Rooms -> BOOLEAN]
        /\ \A x \in Rooms : roomRow'[x] => roomRow[x]
    BY <2>2 DEF Types
  <2>4. dbRoom' \in Rooms => roomRow'[dbRoom']
    BY <2>2, DeviceSyncAssumption DEF Types
  <2> QED
    BY <2>1, <2>2, <2>3, <2>4, CommitTypes
<1> QED
  BY <1>1, <1>2, ReadTypes, SaveTypes DEF Api

LEMMA HeadAndTail ==
    ASSUME NEW S, NEW q \in Seq(S), q # <<>>
    PROVE  Head(q) \in S /\ Tail(q) \in Seq(S)
OBVIOUS

LEMMA Appended ==
    ASSUME NEW S, NEW q \in Seq(S), NEW e \in S
    PROVE  /\ Append(q, e) \in Seq(S) /\ Len(Append(q, e)) = Len(q) + 1
           /\ \A k \in 1 .. Len(q) : Append(q, e)[k] = q[k]
           /\ Append(q, e)[Len(q) + 1] = e
OBVIOUS

LEMMA SendTypes == ASSUME Types, NEW n \in Requests, xadd(n) PROVE Types'
<1>1. outbox[n] \in Seq(Events) /\ outbox[n] # <<>>
  BY DEF xadd, Types
<1>2. Head(outbox[n]) \in Events /\ Tail(outbox[n]) \in Seq(Events)
  BY <1>1, HeadAndTail
<1>3. /\ outbox' = [outbox EXCEPT ![n] = Tail(@)]
      /\ UNCHANGED <<dbRoom, roomRow, upd, requests, pos, cons, dcache, hw, ref, proc, seen>>
  BY DEF xadd, cacheVars, procVars
<1>4. /\ outbox' \in [Requests -> Seq(Events)]
      /\ \A m \in Requests : m > requests' => outbox'[m] = <<>> /\ upd'[m] = None
      /\ \A m \in Requests : upd'[m] # None => /\ upd'[m].from # NoEntry /\ upd'[m].to # NoEntry
                                              /\ outbox'[m] = <<>>
  BY <1>1, <1>2, <1>3 DEF Types
<1>5. CASE stream' = Append(stream, Head(outbox[n])) /\ UNCHANGED faults
  <2>1. stream' \in Seq(Events) /\ Len(stream') = Len(stream) + 1
        /\ \A k \in 1 .. Len(stream) : stream'[k] = stream[k]
    BY <1>2, <1>5, Appended DEF Types
  <2>2. Len(stream) \in Nat /\ pos \in 0 .. Len(stream)
    BY DEF Types
  <2>3. pos' \in 0 .. Len(stream')
    BY <1>3, <2>1, <2>2
  <2>4. pos < Len(stream) => pos' < Len(stream') /\ Event' = Event
    <3>1. pos < Len(stream) => pos + 1 \in 1 .. Len(stream)
      BY <2>2
    <3>2. pos < Len(stream) => stream'[pos + 1] = stream[pos + 1]
      BY <2>1, <3>1
    <3> QED
      BY <1>3, <2>1, <2>2, <3>2 DEF Event
  <2> QED
    BY <1>3, <1>4, <1>5, <2>1, <2>3, <2>4 DEF Types
<1>6. CASE Fault /\ UNCHANGED stream
  BY <1>3, <1>4, <1>6 DEF Types, Fault, Event
<1> QED
  BY <1>5, <1>6 DEF xadd

\* The next event, when there is one.
LEMMA ConsumerTypes == ASSUME Types, Consumer PROVE Types'
<1> USE DEF Types, apiVars, cacheVars, procVars, Begins
<1>1. CASE ReloadDevice
  <2>1. cons' = [pc |-> "device", val |-> dbRoom]
    BY <1>1 DEF ReloadDevice
  <2> QED
    BY <1>1, <2>1 DEF ReloadDevice, Event
<1>2. CASE AddDevice
  <2>1. cons' = [pc |-> "room", val |-> NoEntry] /\ cons.pc = "device"
    BY <1>2 DEF AddDevice
  <2>2. dcache' \in Rooms \cup {Unassigned, NoEntry}
    BY <1>2 DEF AddDevice
  <2> QED
    BY <1>2, <2>1, <2>2 DEF AddDevice, Event
<1>3. CASE ReloadRoom
  <2>1. cons' = [pc |-> "add", val |-> fetchDevicesForRoom(Event.room)] /\ cons.pc = "room"
    BY <1>3 DEF ReloadRoom
  <2>2. fetchDevicesForRoom(Event.room) \in View
    BY FetchedView
  <2> QED
    BY <1>3, <2>1, <2>2 DEF ReloadRoom, Event
<1>4. CASE AddRoom
  <2>1. pos < Len(stream) /\ Len(stream) \in Nat /\ pos' = pos + 1 /\ cons' = Idle
    BY <1>4 DEF AddRoom, Handled
  <2>2. hw' \in [Rooms -> View]
    BY <1>4 DEF AddRoom
  <2> QED
    BY <1>4, <2>1, <2>2 DEF AddRoom, Idle
<1>5. CASE onRoomDeleted
  <2>1. pos < Len(stream) /\ Len(stream) \in Nat /\ pos' = pos + 1 /\ cons' = Idle
    BY <1>5 DEF onRoomDeleted, Handled
  <2>2. hw' \in [Rooms -> View]
    BY <1>5 DEF onRoomDeleted, View
  <2> QED
    BY <1>5, <2>1, <2>2 DEF onRoomDeleted, Idle
<1>6. CASE DispatchFails
  <2>1. pos < Len(stream) /\ Len(stream) \in Nat /\ pos' = pos + 1 /\ cons' = Idle
    BY <1>6 DEF DispatchFails, Handled
  <2>2. faults' \in Nat
    BY <1>6 DEF DispatchFails, Fault
  <2> QED
    BY <1>6, <2>1, <2>2 DEF DispatchFails, Idle
<1> QED
  BY <1>1, <1>2, <1>3, <1>4, <1>5, <1>6 DEF Consumer

LEMMA RefreshTypes == ASSUME Types, NEW r \in Rooms, Refresh(r) PROVE Types'
<1> USE DEF Types, apiVars, procVars, Event
<1>1. CASE RefreshFetch(r)
  BY <1>1, FetchedView DEF RefreshFetch
<1>2. CASE RefreshInstall(r)
  BY <1>2 DEF RefreshInstall
<1> QED
  BY <1>1, <1>2 DEF Refresh

LEMMA ServiceTypes == ASSUME Types, Service PROVE Types'
<1>1. CASE Crash
  <2>1. /\ dcache' = NoEntry /\ hw' = [r \in Rooms |-> "none"] /\ ref' = [r \in Rooms |-> "idle"]
        /\ cons' = Idle /\ proc' = "down" /\ seen' = {}
        /\ UNCHANGED <<dbRoom, roomRow, upd, outbox, requests, stream, pos, faults>>
    BY <1>1 DEF Crash, apiVars
  <2>2. hw' \in [Rooms -> View] /\ ref' \in [Rooms -> View \cup {"idle"}]
    BY <2>1 DEF View
  <2> QED
    BY <2>1, <2>2 DEF Types, Idle
<1>2. CASE WarmRooms
  <2>1. /\ proc' = "rooms" /\ seen' = {r \in Rooms : roomRow[r]} /\ cons.pc = "idle"
        /\ UNCHANGED <<dbRoom, roomRow, upd, outbox, requests, stream, pos, cons, dcache, hw, ref, faults>>
    BY <1>2 DEF WarmRooms, apiVars, cacheVars, Types
  <2> QED
    BY <2>1 DEF Types
<1>3. CASE WarmDevices
  <2>1. /\ proc' = "warm" /\ dcache' = (IF dbRoom \in seen THEN dbRoom ELSE NoEntry)
        /\ cons.pc = "idle"
        /\ UNCHANGED <<dbRoom, roomRow, upd, outbox, requests, stream, pos, cons, ref, seen, faults>>
    BY <1>3 DEF WarmDevices, Types
  <2>2. hw' \in [Rooms -> View]
    BY <1>3 DEF WarmDevices, View
  <2> QED
    BY <2>1, <2>2 DEF Types
<1>4. CASE StartAll
  <2>1. /\ proc' = "up" /\ UNCHANGED <<dbRoom, roomRow, upd, outbox, requests, stream, pos, cons,
                                      dcache, hw, ref, seen, faults>>
    BY <1>4 DEF StartAll, apiVars
  <2> QED
    BY <2>1 DEF Types, Event
<1> QED
  BY <1>1, <1>2, <1>3, <1>4 DEF Service

LEMMA NextTypes == Types /\ [Next]_vars => Types'
<1> SUFFICES ASSUME Types, [Next]_vars PROVE Types'
  OBVIOUS
<1>1. CASE UNCHANGED vars
  BY <1>1 DEF vars, Types, Event
<1> QED
  BY <1>1, ApiTypes, SendTypes, ConsumerTypes, RefreshTypes, ServiceTypes DEF Next, Send

\* The device's row, its entry and the events stay well formed, a device is in a room
\* that exists (SET NULL), and the consumer is at a device event whenever it is busy.
THEOREM DeviceTypesHold == Spec => []TypeOK
<1>1. Types => TypeOK
  BY DEF Types, TypeOK
<1> QED
  BY <1>1, InitTypes, NextTypes, PTL DEF Spec

-----------------------------------------------------------------------------
(* Routing.  While the service is up, no event is lost and the last change sends *)
(* one, either a device event is still to be sent or to be begun, and will     *)
(* make the consumer read the row again, or what the consumer is about to      *)
(* install, and otherwise the DeviceCache, is the row.                         *)

Matches(x) == x = dbRoom \/ (dbRoom \notin Rooms /\ x \notin Rooms)

ToSend == \E n \in Requests : \E k \in 1 .. Len(outbox[n]) : outbox[n][k].type = "device_changed"

ToBegin == \E k \in pos + 1 .. Len(stream) :
              stream[k].type = "device_changed" /\ (k > pos + 1 \/ cons.pc = "idle")

Believed == IF cons.pc = "device" THEN cons.val ELSE dcache

Routed ==
    proc \in {"warm", "up"} /\ faults = 0 /\ ~missed => ToSend \/ ToBegin \/ Matches(Believed)

\* An update that moves the device away from the room it read has an event to send.
LEMMA MovesAnnounced ==
    ASSUME NEW u \in Update, u.from # u.to, u.from # NoEntry, u.to # NoEntry
    PROVE  Len(Moves(u)) \in Nat \ {0} /\ Moves(u)[1].type = "device_changed"
<1>1. u.from \in Rooms \/ u.to \in Rooms
  BY DEF Update
<1>2. CASE u.from \in Rooms /\ u.to \in Rooms
  BY <1>2 DEF Moves, Device
<1>3. CASE u.from \in Rooms /\ u.to \notin Rooms
  BY <1>3 DEF Moves, Device
<1>4. CASE u.from \notin Rooms /\ u.to \in Rooms
  BY <1>4 DEF Moves, Device
<1> QED
  BY <1>1, <1>2, <1>3, <1>4

\* One that writes back the room it read sends nothing, and counts as missed when that
\* changes the row; one that had no event waiting takes none away.
LEMMA SaveRouted ==
    ASSUME Types, Routed, NEW n \in Requests, UpdateSave(n)
    PROVE  Routed'
<1> SUFFICES ASSUME proc' \in {"warm", "up"}, faults' = 0, ~missed'
             PROVE  ToSend' \/ ToBegin' \/ Matches(Believed)'
  BY DEF Routed
<1> DEFINE u == upd[n]
<1>1. /\ u \in Update /\ u # None /\ u.from # NoEntry /\ u.to # NoEntry /\ outbox[n] = <<>>
  BY DEF UpdateSave, Types
<1>2. /\ outbox' = [outbox EXCEPT ![n] = Moves(u)] /\ dbRoom' = u.to
      /\ UNCHANGED <<stream, pos, cons, dcache, faults, proc>>
  BY DEF UpdateSave, cacheVars, procVars
<1>3. outbox'[n] = Moves(u) /\ \A m \in Requests : m # n => outbox'[m] = outbox[m]
  BY <1>2 DEF Types
<1>4. CASE u.from # u.to
  <2> HIDE DEF u
  <2>1. Len(outbox'[n]) \in Nat \ {0} /\ outbox'[n][1].type = "device_changed"
    BY <1>1, <1>3, <1>4, MovesAnnounced
  <2>2. 1 \in 1 .. Len(outbox'[n])
    BY <2>1
  <2> QED
    BY <2>1, <2>2 DEF ToSend
<1>5. CASE u.from = u.to
  <2>1. dbRoom' = dbRoom /\ missed' = missed
    BY <1>2, <1>5 DEF UpdateSave
  <2>2. ToBegin' = ToBegin /\ Matches(Believed)' = Matches(Believed)
    BY <1>2, <2>1 DEF ToBegin, Matches, Believed
  <2>3. ToSend => ToSend'
    BY <1>1, <1>3 DEF ToSend
  <2> QED
    BY <1>2, <2>1, <2>2, <2>3 DEF Routed
<1> QED
  BY <1>4, <1>5

\* An update that has only read the device leaves everything as it was.
LEMMA ReadRouted ==
    ASSUME Routed, NEW to \in Rooms \cup {Unassigned}, UpdateRead(to)
    PROVE  Routed'
BY DEF UpdateRead, cacheVars, procVars, Routed, ToSend, ToBegin, Matches, Believed

\* Deleting a room leaves what was still to be sent, and adds no device event.
LEMMA DeleteRoomRouted ==
    ASSUME Types, Routed, NEW r \in Rooms, DeleteRoom(r), ~missed'
    PROVE  Routed'
<1>1. /\ dbRoom # r /\ dbRoom' = dbRoom /\ ~missed
      /\ Commit(<<Deleted(r)>>)
  BY DEF DeleteRoom
<1>2. UNCHANGED <<stream, pos, cons, dcache, faults, proc>>
  BY <1>1 DEF Commit, cacheVars, procVars
<1>3. ToBegin' = ToBegin /\ Matches(Believed)' = Matches(Believed)
  BY <1>1, <1>2 DEF ToBegin, Matches, Believed
<1>4. ToSend => ToSend'
  <2> SUFFICES ASSUME NEW n \in Requests, NEW k \in 1 .. Len(outbox[n]),
                      outbox[n][k].type = "device_changed"
               PROVE  ToSend'
    BY DEF ToSend
  <2>1. outbox' = [outbox EXCEPT ![requests + 1] = <<Deleted(r)>>]
    BY <1>1 DEF Commit
  <2>2. n # requests + 1
    BY DEF Types
  <2>3. outbox'[n] = outbox[n]
    BY <2>1, <2>2 DEF Types
  <2> QED
    BY <2>3 DEF ToSend
<1> QED
  BY <1>1, <1>2, <1>3, <1>4 DEF Routed

LEMMA ApiRouted == ASSUME Types, Routed, Api PROVE Routed'
<1>1. ASSUME Delete \/ Create PROVE Routed'
  BY <1>1 DEF Delete, Create, Routed
<1> QED
  BY <1>1, ReadRouted, SaveRouted, DeleteRoomRouted DEF Api, Routed

\* An event that is sent is one the consumer has still to begin: when it is busy, it
\* is with an earlier one.
LEMMA SendRouted == ASSUME Types, Routed, NEW n \in Requests, xadd(n) PROVE Routed'
<1> SUFFICES ASSUME proc' \in {"warm", "up"}, faults' = 0, ~missed'
             PROVE  ToSend' \/ ToBegin' \/ Matches(Believed)'
  BY DEF Routed
<1>1. /\ outbox' = [outbox EXCEPT ![n] = Tail(@)] /\ outbox[n] # <<>>
      /\ UNCHANGED <<dbRoom, missed, pos, cons, dcache, proc>>
  BY DEF xadd, cacheVars, procVars
<1>2. stream' = Append(stream, Head(outbox[n])) /\ faults' = faults
  BY DEF xadd, Fault, Types
<1>3. outbox[n] \in Seq(Events) /\ stream \in Seq(Events) /\ pos \in 0 .. Len(stream)
  BY DEF Types
<1>4. /\ Head(outbox[n]) \in Events
      /\ Head(outbox[n]) = outbox[n][1]
      /\ Len(Tail(outbox[n])) = Len(outbox[n]) - 1
      /\ \A k \in 1 .. Len(outbox[n]) - 1 : Tail(outbox[n])[k] = outbox[n][k + 1]
  BY <1>1, <1>3
<1>5. /\ Len(stream) \in Nat /\ Len(stream') = Len(stream) + 1
      /\ \A k \in 1 .. Len(stream) : stream'[k] = stream[k]
      /\ stream'[Len(stream) + 1] = Head(outbox[n])
  BY <1>2, <1>3, <1>4, Appended
<1>6. CASE Matches(Believed)
  BY <1>1, <1>6 DEF Matches, Believed
<1>7. ASSUME NEW k \in pos + 1 .. Len(stream), stream[k].type = "device_changed",
             k > pos + 1 \/ cons.pc = "idle"
      PROVE  ToBegin'
  <2>1. k \in pos' + 1 .. Len(stream') /\ stream'[k] = stream[k]
    BY <1>1, <1>3, <1>5
  <2> QED
    BY <1>1, <1>7, <2>1 DEF ToBegin
<1>8. ASSUME NEW m \in Requests, NEW k \in 1 .. Len(outbox[m]),
             outbox[m][k].type = "device_changed"
      PROVE  ToSend' \/ ToBegin'
  <2>1. CASE m # n
    <3>1. outbox'[m] = outbox[m]
      BY <1>1, <2>1 DEF Types
    <3> QED
      BY <1>8, <3>1 DEF ToSend
  <2>2. CASE m = n /\ k # 1
    <3>1. outbox'[n] = Tail(outbox[n])
      BY <1>1 DEF Types
    <3>2. k - 1 \in 1 .. Len(outbox'[n]) /\ outbox'[n][k - 1] = outbox[n][k]
      BY <1>3, <1>4, <2>2, <3>1
    <3> QED
      BY <1>8, <2>2, <3>2 DEF ToSend
  <2>3. CASE m = n /\ k = 1
    <3> DEFINE j == Len(stream) + 1
    <3>1. stream'[j].type = "device_changed"
      BY <1>4, <1>5, <1>8, <2>3
    <3>2. j \in pos' + 1 .. Len(stream')
      BY <1>1, <1>3, <1>5
    <3>3. j > pos' + 1 \/ cons'.pc = "idle"
      BY <1>1, <1>3, <1>5 DEF Types
    <3> QED
      BY <3>1, <3>2, <3>3 DEF ToBegin
  <2> QED
    BY <2>1, <2>2, <2>3
<1> QED
  BY <1>1, <1>2, <1>6, <1>7, <1>8 DEF Routed, ToSend, ToBegin

\* Once the consumer is busy with, or past, the event at pos + 1, the later ones remain.
LEMMA LaterRemain ==
    ASSUME Types, ToBegin, UNCHANGED stream,
           \/ pos' = pos /\ (cons.pc = "idle" => cons'.pc = "idle")
           \/ pos' = pos + 1 /\ cons'.pc = "idle"
              /\ (cons.pc = "idle" => Event.type # "device_changed")
    PROVE  ToBegin'
<1>1. PICK k \in pos + 1 .. Len(stream) :
         stream[k].type = "device_changed" /\ (k > pos + 1 \/ cons.pc = "idle")
  BY DEF ToBegin
<1>2. pos \in Nat /\ Len(stream) \in Nat
  BY DEF Types
<1>3. CASE pos' = pos /\ (cons.pc = "idle" => cons'.pc = "idle")
  BY <1>1, <1>3 DEF ToBegin
<1>4. CASE pos' = pos + 1 /\ cons'.pc = "idle" /\ (cons.pc = "idle" => Event.type # "device_changed")
  <2>1. k # pos + 1
    BY <1>1, <1>4 DEF Event
  <2>2. k \in pos' + 1 .. Len(stream')
    BY <1>2, <1>4, <2>1
  <2> QED
    BY <1>1, <1>4, <2>2 DEF ToBegin
<1> QED
  BY <1>3, <1>4

LEMMA ConsumerRouted == ASSUME Types, Routed, Consumer PROVE Routed'
<1> SUFFICES ASSUME proc' \in {"warm", "up"}, faults' = 0, ~missed'
             PROVE  ToSend' \/ ToBegin' \/ Matches(Believed)'
  BY DEF Routed
<1>1. CASE DispatchFails
  BY <1>1 DEF DispatchFails, Fault, Types
<1>2. CASE ~DispatchFails
  <2>1. UNCHANGED <<dbRoom, outbox, stream, missed, faults, proc>>
    BY <1>2 DEF Consumer, ReloadDevice, AddDevice, ReloadRoom, AddRoom, onRoomDeleted, apiVars,
                procVars
  <2>2. ToSend \/ ToBegin \/ Matches(Believed)
    BY <2>1 DEF Routed
  <2>3. ToSend => ToSend'
    BY <2>1 DEF ToSend
  <2>4. CASE ReloadDevice
    BY <2>4 DEF ReloadDevice, Matches, Believed, apiVars
  <2>5. CASE AddDevice
    <3>1. /\ cons.pc = "device" /\ cons' = [pc |-> "room", val |-> NoEntry] /\ pos' = pos
          /\ dcache' = IF cons.val = Gone THEN NoEntry ELSE cons.val
      BY <2>5 DEF AddDevice
    <3>2. ToBegin => ToBegin'
      BY <2>1, <3>1, LaterRemain
    <3>3. Matches(Believed) => Matches(Believed)'
      BY <2>1, <3>1, DeviceSyncAssumption DEF Matches, Believed
    <3> QED
      BY <2>2, <2>3, <3>2, <3>3
  <2>6. CASE ReloadRoom
    <3>1. /\ cons.pc = "room" /\ cons'.pc = "add" /\ pos' = pos /\ dcache' = dcache
      BY <2>6 DEF ReloadRoom, cacheVars
    <3>2. ToBegin => ToBegin'
      BY <2>1, <3>1, LaterRemain
    <3>3. Matches(Believed) => Matches(Believed)'
      BY <2>1, <3>1 DEF Matches, Believed
    <3> QED
      BY <2>2, <2>3, <3>2, <3>3
  <2>7. CASE AddRoom \/ onRoomDeleted
    <3>1. /\ cons.pc # "device" /\ cons'.pc = "idle" /\ pos' = pos + 1 /\ dcache' = dcache
          /\ cons.pc = "idle" => Event.type # "device_changed"
      BY <2>7 DEF AddRoom, onRoomDeleted, Handled, Idle, Begins
    <3>2. ToBegin => ToBegin'
      BY <2>1, <3>1, LaterRemain
    <3>3. Matches(Believed) => Matches(Believed)'
      BY <2>1, <3>1 DEF Matches, Believed
    <3> QED
      BY <2>2, <2>3, <3>2, <3>3
  <2> QED
    BY <1>2, <2>4, <2>5, <2>6, <2>7 DEF Consumer
<1> QED
  BY <1>1, <1>2

LEMMA NextRouted == Types /\ Routed /\ [Next]_vars => Routed'
<1> SUFFICES ASSUME Types, Routed, [Next]_vars PROVE Routed'
  OBVIOUS
<1>1. ASSUME UNCHANGED <<dbRoom, outbox, stream, pos, cons, dcache, missed, faults, proc>>
      PROVE  Routed'
  BY <1>1 DEF Routed, ToSend, ToBegin, Matches, Believed
<1>2. ASSUME NEW r \in Rooms, Refresh(r) PROVE Routed'
  BY <1>1, <1>2 DEF Refresh, RefreshFetch, RefreshInstall, apiVars, procVars
<1>3. CASE Crash \/ WarmRooms
  BY <1>3 DEF Crash, WarmRooms, Routed
<1>4. CASE WarmDevices
  <2>1. dcache' = (IF dbRoom \in seen THEN dbRoom ELSE NoEntry) /\ cons'.pc = "idle"
        /\ dbRoom' = dbRoom
    BY <1>4 DEF WarmDevices, Types
  <2>2. dbRoom \in Rooms => dbRoom \in seen
    BY <1>4 DEF WarmDevices, Types
  <2>3. Matches(Believed)'
    BY <2>1, <2>2, DeviceSyncAssumption DEF Matches, Believed, Types
  <2> QED
    BY <2>3 DEF Routed
<1>5. CASE StartAll
  BY <1>5 DEF StartAll, apiVars, Routed, ToSend, ToBegin, Matches, Believed
<1>6. CASE UNCHANGED vars
  BY <1>1, <1>6 DEF vars
<1> QED
  BY <1>2, <1>3, <1>4, <1>5, <1>6, ApiRouted, SendRouted, ConsumerRouted DEF Next, Send, Service

\* When the service is up, nothing was lost and every event is handled, telemetry of the
\* device counts for the room it is in, for any number of rooms, concurrent moves, renames,
\* room deletions, crashes and restarts, except after a last change that is not announced
\* (onDeviceChanged reads the device again at every move).
THEOREM RoutedWhenQuietHolds == Spec => []RoutedWhenQuiet
<1>1. Init => Routed
  BY DeviceSyncAssumption DEF Init, Idle, Routed, Matches, Believed
<1>2. Types /\ Routed => RoutedWhenQuiet
  <2> SUFFICES ASSUME Types, Routed, Quiet, faults = 0, ~missed PROVE Matches(dcache)
    BY DEF RoutedWhenQuiet, Matches
  <2>1. ~ToSend
    BY DEF ToSend, Quiet
  <2>2. ~ToBegin
    <3>1. pos = Len(stream) /\ Len(stream) \in Nat
      BY DEF Quiet, Types
    <3> QED
      BY <3>1 DEF ToBegin
  <2> QED
    BY <2>1, <2>2 DEF Routed, Believed, Quiet, Idle
<1> QED
  BY <1>1, <1>2, InitTypes, NextTypes, NextRouted, PTL DEF Spec
=============================================================================
