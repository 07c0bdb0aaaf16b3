----------------------------- MODULE RoomConfig -----------------------------
(***************************************************************************)
(* The configuration of one room as api-service changes it: schedules and  *)
(* their periods, the room's devices, its desired state.  A request is a   *)
(* process; each of its queries is a step of its own, and other requests   *)
(* run in between (the queries of one check are taken together).  Nothing  *)
(* but Activate runs in a transaction that reads.                          *)
(*                                                                         *)
(* A period has a start and an end in hours; short marks an hour written   *)
(* with one digit, which the "15:04" format accepts and text comparison    *)
(* puts after every hour written with two.  Targets are the kinds of       *)
(* climate (temperature, humidity) for which a value is given.  Any        *)
(* request can be given up where a query fails (Fail), and its event can   *)
(* be lost (NotifyFails).                                                  *)
(***************************************************************************)
EXTENDS Naturals, FiniteSets

CONSTANTS
    Procs,          \* concurrent requests
    Schedules, PeriodIds, Devices, Kinds,
    PeriodInputs,   \* bodies of period requests
    StateInputs,    \* bodies of desired-state requests
    HoursPerDay,
    Sensors(_), Actuators(_),    \* kinds a device has a sensor or actuator for
    MaxRequests     \* bound

Time == [h : Nat, short : BOOLEAN]
Period == [days : SUBSET Nat, start : Time, end : Time, mode : {"OFF", "AUTO"},
           targets : SUBSET Kinds]
State == [manual : BOOLEAN, mode : {"OFF", "AUTO"}, targets : SUBSET Kinds]

ASSUME RoomConfigAssumption ==
    /\ MaxRequests \in Nat /\ HoursPerDay \in Nat
    /\ IsFiniteSet(Schedules)
    /\ PeriodInputs \subseteq Period /\ StateInputs \subseteq State

VARIABLES
    sched,      \* schedule rows: "unused", "inactive", "active" or "deleted"
    period,     \* period rows; is tells a row from an "unused" or "deleted" one
    room,       \* room_id of each device: "here", "away", "none", or no row
    bare,       \* devices whose sensor and actuator rows are gone
    desired,    \* the desired_states row
    req,        \* the request each process handles
    overtaken,  \* history: requests one of whose reads or checks no longer holds
    torn,       \* history: periods that an overtaken request saved last
    unann,      \* history: requests whose change no event announced yet
    dropped,    \* history: those of them whose event was lost
    requests

vars == <<sched, period, room, bare, desired, req, overtaken, torn, unann, dropped, requests>>
tables == <<sched, period, room, bare, desired>>
history == <<overtaken, torn, unann, dropped>>

Exists(s) == sched[s] \in {"inactive", "active"}
Rows == {i \in PeriodIds : period[i].is = "row"}
Registered(d) == room[d] \in {"here", "away", "none"}
Active == {s \in Schedules : sched[s] = "active"}

PeriodRow == [is : {"row"}, sched : Schedules, days : SUBSET (1 .. 7),
              start : Time, end : Time,
              mode : {"OFF", "AUTO"}, targets : SUBSET Kinds]

NoRow == [is : {"unused", "deleted"}]

\* Devices of the room that still have their sensors and actuators.
Usable == {d \in Devices : room[d] = "here"} \ bare

\* What device-service fetches for the room.
Fetched == <<{period[i] : i \in {j \in Rows : period[j].sched \in Active}},
             Usable, desired>>

\* Kinds the devices ds can sense and act on, sensor and actuator on any two of them.
Capable(ds) == (UNION {Sensors(d) : d \in ds \ bare}) \cap (UNION {Actuators(d) : d \in ds \ bare})
Here == {d \in Devices : room[d] = "here"}

\* Targets that can become commands: of an override, and of the active schedule.
Needs == (IF desired.manual /\ desired.mode = "AUTO" THEN desired.targets ELSE {})
         \cup UNION {period[i].targets : i \in {j \in Rows : /\ period[j].sched \in Active
                                                             /\ period[j].mode = "AUTO"}}

Idle == [pc |-> "idle"]
At(p, pc) == req[p].pc = pc

\* Init: earlier requests may have registered the room's devices and created schedules
\* without periods.
Init ==
    /\ sched \in [Schedules -> {"unused", "inactive"}]
    /\ period = [i \in PeriodIds |-> [is |-> "unused"]]
    /\ room \in {[d \in Devices |-> "unused"], [d \in Devices |-> "here"]}
    /\ bare = {}
    /\ desired = [manual |-> FALSE, mode |-> "OFF", targets |-> {}]
    /\ req = [p \in Procs |-> Idle]
    /\ overtaken = {} /\ torn = {} /\ unann = {} /\ dropped = {}
    /\ requests = 0

\* A request of process p arrives and its first queries leave it in state r.
Arrive(p, r) ==
    /\ At(p, "idle") /\ requests < MaxRequests
    /\ requests' = requests + 1
    /\ req' = [req EXCEPT ![p] = r]

Goto(p, pc) == req' = [req EXCEPT ![p].pc = pc]
Finish(p) == req' = [req EXCEPT ![p] = Idle]

\* A write of another request changes what q relies on: a row it has read, or, past its
\* check, the periods it looked at, the devices it counted on or the targets in use.
Overtaken(q) ==
    \/ "s" \in DOMAIN req[q] /\ sched'[req[q].s] # sched[req[q].s]
    \/ "i" \in DOMAIN req[q] /\ period'[req[q].i] # period[req[q].i]
    \/ "exclude" \in DOMAIN req[q] /\ \E i \in req[q].exclude : period'[i] # period[i]
    \/ "d" \in DOMAIN req[q] /\ room'[req[q].d] # room[req[q].d]
    \/ /\ req[q].pc \in {"savePeriod", "others", "commit"}
       /\ \E i \in PeriodIds : /\ period'[i] # period[i] /\ period'[i].is = "row"
                               /\ period'[i].sched = req[q].s
    \/ /\ req[q].pc \in {"saveDevice", "dropDevice", "others", "commit"}
       /\ ~(Usable \subseteq Usable') \/ ~(Needs' \subseteq Needs)

\* After its write, p publishes an event if announce, and is done.
Written(p, announce) ==
    /\ req' = [req EXCEPT ![p] = IF announce THEN [op |-> req[p].op, pc |-> "notify"] ELSE Idle]
    /\ overtaken' = (overtaken \ {p}) \cup {q \in Procs \ {p} : Overtaken(q)}
    /\ unann' = IF Fetched' # Fetched /\ p \notin overtaken THEN unann \cup {req[p].op}
                ELSE unann
    /\ UNCHANGED <<dropped, requests>>

\* The event makes device-service fetch everything.
Notify(p) ==
    /\ At(p, "notify")
    /\ Finish(p)
    /\ unann' = {} /\ dropped' = {}
    /\ UNCHANGED <<tables, overtaken, torn, requests>>

\* XADD fails, which is logged only, or the process ends between commit and XADD.
NotifyFails(p) ==
    /\ At(p, "notify")
    /\ Finish(p)
    /\ dropped' = dropped \cup {req[p].op}
    /\ UNCHANGED <<tables, overtaken, torn, unann, requests>>

\* A query fails, or a check refuses the request.
Fail(p) ==
    /\ ~At(p, "idle") /\ ~At(p, "notify")
    /\ Finish(p)
    /\ overtaken' = overtaken \ {p}
    /\ UNCHANGED <<tables, torn, unann, dropped, requests>>

-----------------------------------------------------------------------------
(* Schedules *)

\* The unique index one_active_schedule_per_room.
IndexHolds(rows) == Cardinality({s \in Schedules : rows[s] = "active"}) <= 1

CreateSchedule(p, s) ==
    /\ Arrive(p, Idle)
    /\ sched[s] = "unused"
    /\ sched' = [sched EXCEPT ![s] = "inactive"]
    /\ UNCHANGED <<period, room, bare, desired, history>>

\* GetByID, then the request's next step pc; wasActive is the IsActive it read.
ReadSchedule(p, s, op, pc) ==
    /\ Exists(s)
    /\ op = "activate" => sched[s] = "inactive"
    /\ op = "deactivate" => sched[s] = "active"
    /\ Arrive(p, [op |-> op, pc |-> pc, s |-> s, wasActive |-> sched[s] = "active"])
    /\ UNCHANGED <<tables, history>>

\* A row that an open transaction of Activate has updated.
Locked(s) == \E q \in Procs : At(q, "commit") /\ s \in req[q].off

\* Save of the whole row read before: updates it, or inserts it again if it is gone.
SaveSchedule(p) ==
    LET s == req[p].s
    IN  /\ At(p, "save") /\ ~Locked(s)
        /\ sched' = [sched EXCEPT ![s] = IF req[p].wasActive THEN "active" ELSE "inactive"]
        /\ IndexHolds(sched')
        /\ UNCHANGED <<period, room, bare, desired, torn>>
        /\ Written(p, FALSE)

\* Mutant: the foreign key does not cascade.
DeleteScheduleOnly(p) ==
    /\ At(p, "drop") /\ ~Locked(req[p].s)
    /\ sched' = [sched EXCEPT ![req[p].s] = "deleted"]
    /\ UNCHANGED <<period, room, bare, desired, torn>>
    /\ Written(p, FALSE)

\* Delete with its cascade to the periods; no event.
DeleteSchedule(p) ==
    LET s == req[p].s
    IN  /\ At(p, "drop") /\ ~Locked(s)
        /\ sched' = [sched EXCEPT ![s] = "deleted"]
        /\ period' = [i \in PeriodIds |->
                        IF i \in Rows /\ period[i].sched = s THEN [is |-> "deleted"] ELSE period[i]]
        /\ UNCHANGED <<room, bare, desired, torn>>
        /\ Written(p, FALSE)

\* Mutant: a sensor is enough.
PeriodsHaveSensors(s) ==
    \A i \in Rows : period[i].sched = s => period[i].targets \subseteq UNION {Sensors(d) : d \in Here \ bare}

PeriodsHaveCapability(s) ==
    \A i \in Rows : period[i].sched = s => period[i].targets \subseteq Capable(Here)

ActivateCheck(p) ==
    /\ At(p, "check")
    /\ PeriodsHaveCapability(req[p].s)
    /\ Goto(p, "others")
    /\ UNCHANGED <<tables, history, requests>>

\* First update of the transaction: the other active schedules of the room.
ActivateOthers(p) ==
    LET off == Active \ {req[p].s}
    IN  /\ At(p, "others")
        /\ \A s \in off : ~Locked(s)
        /\ req' = [req EXCEPT ![p] = [op |-> "activate", pc |-> "commit", s |-> req[p].s,
                                      off |-> off]]
        /\ UNCHANGED <<tables, history, requests>>

\* Second update and commit; a unique violation rolls both back (Fail).
ActivateCommit(p) ==
    LET s == req[p].s
    IN  /\ At(p, "commit") /\ ~Locked(s)
        /\ sched' = [t \in Schedules |->
                       CASE t = s /\ Exists(s) -> "active"
                         [] t # s /\ t \in req[p].off -> "inactive"
                         [] OTHER -> sched[t]]
        /\ IndexHolds(sched')
        /\ UNCHANGED <<period, room, bare, desired, torn>>
        /\ Written(p, TRUE)

\* Mutant: no event after the update.
DeactivateSilently(p) ==
    /\ At(p, "off") /\ ~Locked(req[p].s)
    /\ sched' = [sched EXCEPT ![req[p].s] = IF Exists(req[p].s) THEN "inactive" ELSE @]
    /\ UNCHANGED <<period, room, bare, desired, torn>>
    /\ Written(p, FALSE)

Deactivate(p) ==
    LET s == req[p].s
    IN  /\ At(p, "off") /\ ~Locked(s)
        /\ sched' = [sched EXCEPT ![s] = IF Exists(s) THEN "inactive" ELSE @]
        /\ UNCHANGED <<period, room, bare, desired, torn>>
        /\ Written(p, TRUE)

-----------------------------------------------------------------------------
(* Periods *)

\* Order of the "HH:MM" texts: a one-digit hour (3 to 9) comes after all others.
Rank(t) == IF t.short THEN HoursPerDay + t.h ELSE t.h

validatePeriodRequest(in) ==
    /\ in.days # {} /\ in.days \subseteq 1 .. 7
    /\ in.mode = "AUTO" => in.targets # {}

\* Mutant: the query looks for a period around the new start only.
HasOverlapAtStart(s, in, exclude) ==
    \E i \in Rows : /\ period[i].sched = s
                    /\ period[i].days \cap in.days # {}
                    /\ Rank(period[i].start) < Rank(in.start)
                    /\ Rank(period[i].end) > Rank(in.start)
                    /\ i \notin exclude

HasOverlap(s, in, exclude) ==
    \E i \in Rows : /\ period[i].sched = s
                    /\ period[i].days \cap in.days # {}
                    /\ Rank(period[i].start) < Rank(in.end)
                    /\ Rank(period[i].end) > Rank(in.start)
                    /\ i \notin exclude

CreatePeriodRead(p, s, in) ==
    /\ Exists(s) /\ validatePeriodRequest(in)
    /\ Arrive(p, [op |-> "createPeriod", pc |-> "build", s |-> s, in |-> in,
                  wasActive |-> sched[s] = "active", exclude |-> {}])
    /\ UNCHANGED <<tables, history>>

UpdatePeriodRead(p, i, in) ==
    /\ i \in Rows /\ validatePeriodRequest(in)
    /\ Arrive(p, [op |-> "updatePeriod", pc |-> "build", s |-> period[i].sched, in |-> in,
                  wasActive |-> period[i].sched \in Active, exclude |-> {i}])
    /\ UNCHANGED <<tables, history>>

DeletePeriodRead(p, i) ==
    /\ i \in Rows
    /\ Arrive(p, [op |-> "deletePeriod", pc |-> "dropPeriod", i |-> i, s |-> period[i].sched,
                  wasActive |-> period[i].sched \in Active])
    /\ UNCHANGED <<tables, history>>

buildPeriod(p) ==
    /\ At(p, "build")
    /\ Rank(req[p].in.end) > Rank(req[p].in.start)
    /\ ~HasOverlap(req[p].s, req[p].in, req[p].exclude)
    /\ Goto(p, "savePeriod")
    /\ UNCHANGED <<tables, history, requests>>

\* Insert of a new row, or Save of the row read before (inserted again if it is
\* gone); the schedule must still exist (foreign key).
SavePeriod(p) ==
    /\ At(p, "savePeriod") /\ Exists(req[p].s)
    /\ \E i \in PeriodIds :
         /\ IF req[p].exclude = {} THEN period[i].is = "unused" ELSE i \in req[p].exclude
         /\ period' = [period EXCEPT ![i] =
                         [is |-> "row", sched |-> req[p].s, days |-> req[p].in.days,
                          start |-> req[p].in.start, end |-> req[p].in.end, mode |-> req[p].in.mode,
                          targets |-> req[p].in.targets]]
         /\ torn' = IF p \in overtaken THEN torn \cup {i} ELSE torn \ {i}
    /\ UNCHANGED <<sched, room, bare, desired>>
    /\ Written(p, req[p].wasActive)

DeletePeriod(p) ==
    /\ At(p, "dropPeriod")
    /\ period' = [period EXCEPT ![req[p].i] = [is |-> "deleted"]]
    /\ UNCHANGED <<sched, room, bare, desired, torn>>
    /\ Written(p, req[p].wasActive)
-----------------------------------------------------------------------------
(* Devices and desired state *)

\* A new device is in no room.
CreateDevice(p, d) ==
    /\ Arrive(p, Idle)
    /\ room[d] = "unused"
    /\ room' = [room EXCEPT ![d] = "none"]
    /\ UNCHANGED <<sched, period, bare, desired, history>>

\* Mutant: the sensors of the device itself still count.
ConflictAfterRemovalOwnSensor(d) ==
    LET lost == Kinds \ (UNION {Sensors(e) : e \in Here \ bare}
                         \cap UNION {Actuators(e) : e \in Here \ (bare \cup {d})})
    IN  \/ lost \cap desired.targets # {}
        \/ \E i \in Rows : period[i].sched \in Active /\ lost \cap period[i].targets # {}

\* Without d, the desired state or a period of the active schedule has a target the
\* room cannot meet.
HasCapabilityConflictAfterRemoval(d) ==
    LET lost == Kinds \ Capable(Here \ {d})
    IN  \/ lost \cap desired.targets # {}
        \/ \E i \in Rows : period[i].sched \in Active /\ lost \cap period[i].targets # {}

\* Update (to is the room asked for) and Delete begin by reading the device.
ReadDevice(p, d, op, to) ==
    /\ Registered(d)
    /\ Arrive(p, [op |-> op, pc |-> "leave", d |-> d, from |-> room[d], to |-> to])
    /\ UNCHANGED <<tables, history>>

\* The conflict check, if the device leaves this room (the other room has no targets).
CheckRemoval(p) ==
    /\ At(p, "leave")
    /\ req[p].from = "here" /\ req[p].to # "here" => ~HasCapabilityConflictAfterRemoval(req[p].d)
    /\ Goto(p, IF req[p].op = "deleteDevice" THEN "dropDevice" ELSE "saveDevice")
    /\ UNCHANGED <<tables, history, requests>>

\* Save of the whole row: a device that is gone is inserted again, without its
\* sensors and actuators.  An event goes to the room that is left and to the one entered.
SaveDevice(p) ==
    LET d == req[p].d
    IN  /\ At(p, "saveDevice")
        /\ room' = [room EXCEPT ![d] = req[p].to]
        /\ bare' = IF Registered(d) THEN bare ELSE bare \cup {d}
        /\ UNCHANGED <<sched, period, desired, torn>>
        /\ Written(p, req[p].from # req[p].to /\ "here" \in {req[p].from, req[p].to})

\* Delete with its cascade; no event.
DeleteDevice(p) ==
    /\ At(p, "dropDevice")
    /\ room' = [room EXCEPT ![req[p].d] = "deleted"]
    /\ UNCHANGED <<sched, period, bare, desired, torn>>
    /\ Written(p, FALSE)

\* The capability check applies to an override in AUTO only.
ReadDesiredState(p, in) ==
    /\ in.manual /\ in.mode = "AUTO" => in.targets # {} /\ in.targets \subseteq Capable(Here)
    /\ Arrive(p, [op |-> "updateDesiredState", pc |-> "saveState", in |-> in])
    /\ UNCHANGED <<tables, history>>

UpdateDesiredState(p) ==
    /\ At(p, "saveState")
    /\ desired' = req[p].in
    /\ UNCHANGED <<sched, period, room, bare, torn>>
    /\ Written(p, TRUE)

Step(p) ==
    \/ SaveSchedule(p) \/ DeleteSchedule(p)
    \/ ActivateCheck(p) \/ ActivateOthers(p) \/ ActivateCommit(p) \/ Deactivate(p)
    \/ buildPeriod(p) \/ SavePeriod(p) \/ DeletePeriod(p)
    \/ CheckRemoval(p) \/ SaveDevice(p) \/ DeleteDevice(p)
    \/ UpdateDesiredState(p)
    \/ Notify(p) \/ NotifyFails(p) \/ Fail(p)

Arrival(p) ==
    \/ \E s \in Schedules :
         \/ CreateSchedule(p, s)
         \/ ReadSchedule(p, s, "update", "save")
         \/ ReadSchedule(p, s, "deleteSchedule", "drop")
         \/ ReadSchedule(p, s, "activate", "check")
         \/ ReadSchedule(p, s, "deactivate", "off")
         \/ \E in \in PeriodInputs : CreatePeriodRead(p, s, in)
    \/ \E i \in PeriodIds :
         \/ \E in \in PeriodInputs : UpdatePeriodRead(p, i, in)
         \/ DeletePeriodRead(p, i)
    \/ \E d \in Devices :
         \/ CreateDevice(p, d)
         \/ \E to \in {"here", "away", "none"} : ReadDevice(p, d, "updateDevice", to)
         \/ ReadDevice(p, d, "deleteDevice", "none")
    \/ \E in \in StateInputs : ReadDesiredState(p, in)

Next == \E p \in Procs : Step(p) \/ Arrival(p)

Spec == Init /\ [][Next]_vars

-----------------------------------------------------------------------------
(* Properties *)

\* The requests in progress.
ScheduleReq == [op : {"update", "deleteSchedule", "activate", "deactivate"}, s : Schedules,
                pc : {"save", "drop", "check", "others", "off"}, wasActive : BOOLEAN]
CommitReq == [op : {"activate"}, pc : {"commit"}, s : Schedules, off : SUBSET Schedules]
PeriodReq == [op : {"createPeriod", "updatePeriod"}, pc : {"build", "savePeriod"}, s : Schedules,
              in : {x \in PeriodInputs : validatePeriodRequest(x)}, wasActive : BOOLEAN,
              exclude : SUBSET PeriodIds]
DropPeriodReq == [op : {"deletePeriod"}, pc : {"dropPeriod"}, i : PeriodIds,
                  s : Schedules, wasActive : BOOLEAN]
DeviceReq == [op : {"updateDevice", "deleteDevice"}, pc : {"leave", "saveDevice", "dropDevice"},
              d : Devices, from : {"here", "away", "none"}, to : {"here", "away", "none"}]
StateReq == [op : {"updateDesiredState"}, pc : {"saveState"}, in : StateInputs]
Ops == {"update", "deleteSchedule", "activate", "deactivate", "createPeriod", "updatePeriod",
        "deletePeriod", "updateDevice", "deleteDevice", "updateDesiredState"}
Request == {Idle} \cup [op : Ops, pc : {"notify"}] \cup ScheduleReq \cup CommitReq
           \cup PeriodReq \cup DropPeriodReq \cup DeviceReq \cup StateReq

\* Rows are rows of their tables; in particular a period belongs to a schedule that
\* exists, whatever requests delete schedules and save periods at once.
TypeOK ==
    /\ sched \in [Schedules -> {"unused", "inactive", "active", "deleted"}]
    /\ period \in [PeriodIds -> PeriodRow \cup NoRow]
    /\ \A i \in Rows : Exists(period[i].sched)
    /\ room \in [Devices -> {"unused", "here", "away", "none", "deleted"}]
    /\ bare \subseteq Devices
    /\ desired \in State
    /\ req \in [Procs -> Request]
    /\ requests \in 0 .. MaxRequests

\* No hour of the week belongs to two periods of a schedule whose hours are written
\* with two digits (HasOverlap), whatever requests run at once, but for a period saved
\* after another request had saved one behind its check.
NoOverlap ==
    \A i, j \in Rows \ torn : \A h \in 0 .. HoursPerDay :
        /\ i # j /\ period[i].sched = period[j].sched
        /\ \A k \in {i, j} : ~period[k].start.short /\ ~period[k].end.short
        /\ period[i].days \cap period[j].days # {}
        => ~(/\ period[i].start.h <= h /\ h < period[i].end.h
             /\ period[j].start.h <= h /\ h < period[j].end.h)

\* Moving or deleting a device never takes away what a target in use depends on
\* (HasCapabilityConflictAfterRemoval), whatever requests run at once, unless another
\* request has moved the device, taken away another one or put targets to use since
\* (write skew).
RemovalKeepsCapability ==
    [][\A p \in Procs : /\ SaveDevice(p) \/ DeleteDevice(p)
                        /\ p \notin overtaken
                        /\ Needs \subseteq Capable(Here)
                        => Needs' \subseteq Capable(Here)']_vars

\* A schedule is activated only in a room that can meet the targets of all its
\* periods (Service.Activate), whatever requests run at once, unless one has saved a
\* period of it, or taken away a device, behind the check (write skew).
ActivationIsCapable ==
    [][\A p \in Procs : ActivateCommit(p) /\ p \notin overtaken =>
         \A i \in Rows : period[i].sched = req[p].s => period[i].targets \subseteq Capable(Here)]_vars

\* When no request is running, every change that device-service fetches has been
\* announced by an event, but for deletions, lost events and what overtaken requests
\* wrote (the rows they had read told them wrongly that there is nothing to announce).
OnlyDeletesSilent ==
    (\A p \in Procs : At(p, "idle"))
        => unann \subseteq {"deleteSchedule", "deleteDevice"} \cup dropped

\* "Update saves mutable fields on an existing schedule (name only)"
\* (schedule/repository.go:61): a rename leaves the active schedules as they are.
RenameKeepsActive == [][\A p \in Procs : SaveSchedule(p) => Active' = Active]_vars
=============================================================================
