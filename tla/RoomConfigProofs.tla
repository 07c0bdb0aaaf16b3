-------------------------- MODULE RoomConfigProofs --------------------------
(***************************************************************************)
(* Proofs about RoomConfig, for any number of concurrent requests and any  *)
(* sets of schedules, periods, devices and request bodies.                 *)
(***************************************************************************)
EXTENDS RoomConfig, TLAPS

USE DEF tables, history

(* What the request at a step carries. *)

LEMMA AtSchedule ==
    ASSUME req \in [Procs -> Request], NEW p \in Procs,
           req[p].pc \in {"save", "drop", "check", "others", "off"}
    PROVE  req[p] \in ScheduleReq
BY DEF Request, Idle, ScheduleReq, CommitReq, PeriodReq, DropPeriodReq, DeviceReq, StateReq

LEMMA AtCommit ==
    ASSUME req \in [Procs -> Request], NEW p \in Procs, req[p].pc = "commit"
    PROVE  req[p] \in CommitReq
BY DEF Request, Idle, ScheduleReq, CommitReq, PeriodReq, DropPeriodReq, DeviceReq, StateReq

LEMMA AtPeriod ==
    ASSUME req \in [Procs -> Request], NEW p \in Procs,
           req[p].pc \in {"build", "savePeriod"}
    PROVE  req[p] \in PeriodReq
BY DEF Request, Idle, ScheduleReq, CommitReq, PeriodReq, DropPeriodReq, DeviceReq, StateReq

LEMMA AtDropPeriod ==
    ASSUME req \in [Procs -> Request], NEW p \in Procs, req[p].pc = "dropPeriod"
    PROVE  req[p] \in DropPeriodReq
BY DEF Request, Idle, ScheduleReq, CommitReq, PeriodReq, DropPeriodReq, DeviceReq, StateReq

LEMMA AtDevice ==
    ASSUME req \in [Procs -> Request], NEW p \in Procs,
           req[p].pc \in {"leave", "saveDevice", "dropDevice"}
    PROVE  req[p] \in DeviceReq
BY DEF Request, Idle, ScheduleReq, CommitReq, PeriodReq, DropPeriodReq, DeviceReq, StateReq

LEMMA AtState ==
    ASSUME req \in [Procs -> Request], NEW p \in Procs, req[p].pc = "saveState"
    PROVE  req[p] \in StateReq
BY DEF Request, Idle, ScheduleReq, CommitReq, PeriodReq, DropPeriodReq, DeviceReq, StateReq

-----------------------------------------------------------------------------
(* Requests.  Whatever a request does next, its record fits the step it is at. *)

LEMMA ArriveTypes ==
    ASSUME req \in [Procs -> Request], NEW p \in Procs, NEW r \in Request, Arrive(p, r),
           requests \in 0 .. MaxRequests
    PROVE  req' \in [Procs -> Request] /\ requests' \in 0 .. MaxRequests
BY RoomConfigAssumption DEF Arrive

LEMMA WrittenTypes ==
    ASSUME req \in [Procs -> Request], NEW p \in Procs, NEW b \in BOOLEAN, Written(p, b),
           req[p].op \in Ops
    PROVE  req' \in [Procs -> Request] /\ requests' = requests
<1>1. Idle \in Request /\ [op |-> req[p].op, pc |-> "notify"] \in Request
  BY DEF Request
<1>2. (IF b THEN [op |-> req[p].op, pc |-> "notify"] ELSE Idle) \in Request
  BY <1>1
<1> QED
  BY <1>2 DEF Written

LEMMA FinishTypes ==
    ASSUME req \in [Procs -> Request], NEW p \in Procs, Finish(p)
    PROVE  req' \in [Procs -> Request]
BY DEF Finish, Request

LEMMA StepRequests ==
    ASSUME req \in [Procs -> Request], requests \in 0 .. MaxRequests, NEW p \in Procs, Step(p)
    PROVE  req' \in [Procs -> Request] /\ requests' = requests
<1>1. CASE SaveSchedule(p)
  <2>1. req[p].op \in Ops
    BY <1>1, AtSchedule DEF SaveSchedule, At, ScheduleReq, Ops
  <2> QED
    BY <1>1, <2>1, WrittenTypes DEF SaveSchedule
<1>2. CASE DeleteSchedule(p)
  <2>1. req[p].op \in Ops
    BY <1>2, AtSchedule DEF DeleteSchedule, At, ScheduleReq, Ops
  <2> QED
    BY <1>2, <2>1, WrittenTypes DEF DeleteSchedule
<1>3. CASE ActivateCheck(p)
  <2>1. req[p] \in ScheduleReq
    BY <1>3, AtSchedule DEF ActivateCheck, At
  <2>2. [req[p] EXCEPT !.pc = "others"] \in Request
    BY <2>1 DEF ScheduleReq, Request
  <2> QED
    BY <1>3, <2>2 DEF ActivateCheck, Goto
<1>4. CASE ActivateOthers(p)
  <2>1. req[p] \in ScheduleReq
    BY <1>4, AtSchedule DEF ActivateOthers, At
  <2>2. [op |-> "activate", pc |-> "commit", s |-> req[p].s, off |-> Active \ {req[p].s}] \in Request
    BY <2>1 DEF ScheduleReq, CommitReq, Request, Active
  <2> QED
    BY <1>4, <2>2 DEF ActivateOthers
<1>5. CASE ActivateCommit(p)
  <2>1. req[p].op \in Ops
    BY <1>5, AtCommit DEF ActivateCommit, At, CommitReq, Ops
  <2> QED
    BY <1>5, <2>1, WrittenTypes DEF ActivateCommit
<1>6. CASE Deactivate(p)
  <2>1. req[p].op \in Ops
    BY <1>6, AtSchedule DEF Deactivate, At, ScheduleReq, Ops
  <2> QED
    BY <1>6, <2>1, WrittenTypes DEF Deactivate
<1>7. CASE buildPeriod(p)
  <2>1. req[p] \in PeriodReq
    BY <1>7, AtPeriod DEF buildPeriod, At
  <2>2. [req[p] EXCEPT !.pc = "savePeriod"] \in PeriodReq
    BY <2>1 DEF PeriodReq
  <2>3. [req[p] EXCEPT !.pc = "savePeriod"] \in Request
    BY <2>2 DEF Request
  <2> QED
    BY <1>7, <2>3 DEF buildPeriod, Goto
<1>8. CASE SavePeriod(p)
  <2>1. req[p].op \in Ops /\ req[p].wasActive \in BOOLEAN
    BY <1>8, AtPeriod DEF SavePeriod, At, PeriodReq, Ops
  <2> QED
    BY <1>8, <2>1, WrittenTypes DEF SavePeriod
<1>9. CASE DeletePeriod(p)
  <2>1. req[p].op \in Ops /\ req[p].wasActive \in BOOLEAN
    BY <1>9, AtDropPeriod DEF DeletePeriod, At, DropPeriodReq, Ops
  <2> QED
    BY <1>9, <2>1, WrittenTypes DEF DeletePeriod
<1>10. CASE CheckRemoval(p)
  <2>1. req[p] \in DeviceReq
    BY <1>10, AtDevice DEF CheckRemoval, At
  <2>2. [req[p] EXCEPT !.pc = IF req[p].op = "deleteDevice" THEN "dropDevice" ELSE "saveDevice"]
          \in Request
    BY <2>1 DEF DeviceReq, Request
  <2> QED
    BY <1>10, <2>2 DEF CheckRemoval, Goto
<1>11. CASE SaveDevice(p)
  <2>1. req[p].op \in Ops
    BY <1>11, AtDevice DEF SaveDevice, At, DeviceReq, Ops
  <2>2. (req[p].from # req[p].to /\ "here" \in {req[p].from, req[p].to}) \in BOOLEAN
    OBVIOUS
  <2> QED
    BY <1>11, <2>1, <2>2, WrittenTypes DEF SaveDevice
<1>12. CASE DeleteDevice(p)
  <2>1. req[p].op \in Ops
    BY <1>12, AtDevice DEF DeleteDevice, At, DeviceReq, Ops
  <2> QED
    BY <1>12, <2>1, WrittenTypes DEF DeleteDevice
<1>13. CASE UpdateDesiredState(p)
  <2>1. req[p].op \in Ops
    BY <1>13, AtState DEF UpdateDesiredState, At, StateReq, Ops
  <2> QED
    BY <1>13, <2>1, WrittenTypes DEF UpdateDesiredState
<1>14. CASE Notify(p)
  BY <1>14, FinishTypes DEF Notify
<1>15. CASE Fail(p)
  BY <1>15, FinishTypes DEF Fail
<1>16. CASE NotifyFails(p)
  BY <1>16, FinishTypes DEF NotifyFails
<1> QED
  BY <1>1, <1>2, <1>3, <1>4, <1>5, <1>6, <1>7, <1>8, <1>9, <1>10, <1>11, <1>12, <1>13, <1>14,
     <1>15, <1>16 DEF Step

LEMMA ArrivalRequests ==
    ASSUME TypeOK, NEW p \in Procs, Arrival(p)
    PROVE  req' \in [Procs -> Request] /\ requests' \in 0 .. MaxRequests
<1> USE DEF TypeOK
<1>1. Idle \in Request
  BY DEF Request
<1>2. ASSUME NEW s \in Schedules, CreateSchedule(p, s)
      PROVE  req' \in [Procs -> Request] /\ requests' \in 0 .. MaxRequests
  BY <1>1, <1>2, ArriveTypes DEF CreateSchedule
<1>3. ASSUME NEW s \in Schedules,
             NEW op \in {"update", "deleteSchedule", "activate", "deactivate"},
             NEW pc \in {"save", "drop", "check", "off"}, ReadSchedule(p, s, op, pc)
      PROVE  req' \in [Procs -> Request] /\ requests' \in 0 .. MaxRequests
  <2>1. [op |-> op, pc |-> pc, s |-> s, wasActive |-> sched[s] = "active"] \in Request
    BY DEF ScheduleReq, Request
  <2> QED
    BY <1>3, <2>1, ArriveTypes DEF ReadSchedule
<1>4. ASSUME NEW s \in Schedules, NEW in \in PeriodInputs, CreatePeriodRead(p, s, in)
      PROVE  req' \in [Procs -> Request] /\ requests' \in 0 .. MaxRequests
  <2>1. in \in {x \in PeriodInputs : validatePeriodRequest(x)}
    BY <1>4 DEF CreatePeriodRead
  <2>2. [op |-> "createPeriod", pc |-> "build", s |-> s, in |-> in,
         wasActive |-> sched[s] = "active", exclude |-> {}] \in PeriodReq
    BY <2>1 DEF PeriodReq
  <2>3. PeriodReq \subseteq Request
    BY DEF Request
  <2> QED
    BY <1>4, <2>2, <2>3, ArriveTypes DEF CreatePeriodRead
<1>5. ASSUME NEW i \in PeriodIds, NEW in \in PeriodInputs, UpdatePeriodRead(p, i, in)
      PROVE  req' \in [Procs -> Request] /\ requests' \in 0 .. MaxRequests
  <2>1. in \in {x \in PeriodInputs : validatePeriodRequest(x)}
    BY <1>5 DEF UpdatePeriodRead
  <2>2. period[i].sched \in Schedules
    BY <1>5 DEF UpdatePeriodRead, Rows, PeriodRow, NoRow
  <2>3. [op |-> "updatePeriod", pc |-> "build", s |-> period[i].sched, in |-> in,
         wasActive |-> period[i].sched \in Active, exclude |-> {i}] \in PeriodReq
    BY <2>1, <2>2 DEF PeriodReq
  <2>4. PeriodReq \subseteq Request
    BY DEF Request
  <2> QED
    BY <1>5, <2>3, <2>4, ArriveTypes DEF UpdatePeriodRead
<1>6. ASSUME NEW i \in PeriodIds, DeletePeriodRead(p, i)
      PROVE  req' \in [Procs -> Request] /\ requests' \in 0 .. MaxRequests
  <2>0. period[i].sched \in Schedules
    BY <1>6 DEF DeletePeriodRead, Rows, PeriodRow, NoRow
  <2>1. [op |-> "deletePeriod", pc |-> "dropPeriod", i |-> i, s |-> period[i].sched,
         wasActive |-> period[i].sched \in Active] \in Request
    BY <2>0 DEF DropPeriodReq, Request
  <2> QED
    BY <1>6, <2>1, ArriveTypes DEF DeletePeriodRead
<1>7. ASSUME NEW d \in Devices, CreateDevice(p, d)
      PROVE  req' \in [Procs -> Request] /\ requests' \in 0 .. MaxRequests
  BY <1>1, <1>7, ArriveTypes DEF CreateDevice
<1>8. ASSUME NEW d \in Devices, NEW op \in {"updateDevice", "deleteDevice"},
             NEW to \in {"here", "away", "none"}, ReadDevice(p, d, op, to)
      PROVE  req' \in [Procs -> Request] /\ requests' \in 0 .. MaxRequests
  <2>1. [op |-> op, pc |-> "leave", d |-> d, from |-> room[d], to |-> to] \in Request
    BY <1>8 DEF ReadDevice, Registered, DeviceReq, Request
  <2> QED
    BY <1>8, <2>1, ArriveTypes DEF ReadDevice
<1>9. ASSUME NEW in \in StateInputs, ReadDesiredState(p, in)
      PROVE  req' \in [Procs -> Request] /\ requests' \in 0 .. MaxRequests
  <2>1. [op |-> "updateDesiredState", pc |-> "saveState", in |-> in] \in Request
    BY DEF StateReq, Request
  <2> QED
    BY <1>9, <2>1, ArriveTypes DEF ReadDesiredState
<1> QED
  BY <1>2, <1>3, <1>4, <1>5, <1>6, <1>7, <1>8, <1>9 DEF Arrival

-----------------------------------------------------------------------------
(* Rows.  An arrival changes rows only by creating one that nothing refers to;  *)
(* of the other steps, only those that write to a schedule or a period can      *)
(* leave a period without its schedule.                                         *)

RowsOK ==
    /\ sched \in [Schedules -> {"unused", "inactive", "active", "deleted"}]
    /\ period \in [PeriodIds -> PeriodRow \cup NoRow]
    /\ \A i \in Rows : Exists(period[i].sched)
    /\ room \in [Devices -> {"unused", "here", "away", "none", "deleted"}]
    /\ bare \subseteq Devices
    /\ desired \in State

LEMMA ArrivalRows == ASSUME TypeOK, NEW p \in Procs, Arrival(p) PROVE RowsOK'
<1> USE DEF TypeOK, RowsOK
<1>1. ASSUME NEW s \in Schedules, CreateSchedule(p, s) PROVE RowsOK'
  BY <1>1 DEF CreateSchedule, Rows, Exists
<1>2. ASSUME NEW d \in Devices, CreateDevice(p, d) PROVE RowsOK'
  BY <1>2 DEF CreateDevice, Rows, Exists
<1>3. ASSUME UNCHANGED <<sched, period, room, bare, desired>> PROVE RowsOK'
  BY <1>3 DEF Rows, Exists
<1> QED
  BY <1>1, <1>2, <1>3
  DEF Arrival, ReadSchedule, CreatePeriodRead, UpdatePeriodRead, DeletePeriodRead, ReadDevice,
      ReadDesiredState

LEMMA StepRows == ASSUME TypeOK, NEW p \in Procs, Step(p) PROVE RowsOK'
<1> USE DEF TypeOK, RowsOK
<1>1. CASE SaveSchedule(p)
  <2>1. req[p] \in ScheduleReq
    BY <1>1, AtSchedule DEF SaveSchedule, At
  <2>2. \A s \in Schedules : Exists(s) => Exists(s)'
    BY <1>1 DEF SaveSchedule, Exists
  <2>3. sched' \in [Schedules -> {"unused", "inactive", "active", "deleted"}]
    BY <1>1, <2>1 DEF SaveSchedule, ScheduleReq
  <2>4. \A i \in Rows : period[i].sched \in Schedules
    BY DEF Rows, PeriodRow, NoRow
  <2> QED
    BY <1>1, <2>2, <2>3, <2>4 DEF SaveSchedule, Rows, Exists
<1>2. CASE DeleteSchedule(p)
  <2>1. /\ sched' \in [Schedules -> {"unused", "inactive", "active", "deleted"}]
        /\ UNCHANGED <<room, bare, desired>>
    BY <1>2 DEF DeleteSchedule
  <2>2. period' \in [PeriodIds -> PeriodRow \cup NoRow]
    BY <1>2 DEF DeleteSchedule, NoRow
  <2>3. ASSUME NEW i \in Rows' PROVE Exists(period[i].sched)'
    <3>1. i \in Rows /\ period[i].sched # req[p].s /\ period'[i] = period[i]
      BY <1>2, <2>3 DEF DeleteSchedule, Rows
    <3> QED
      BY <1>2, <3>1 DEF DeleteSchedule, Exists
  <2> QED
    BY <2>1, <2>2, <2>3
<1>3. CASE ActivateCommit(p)
  <2>1. \A s \in Schedules : Exists(s) => Exists(s)'
    BY <1>3 DEF ActivateCommit, Exists
  <2>2. sched' \in [Schedules -> {"unused", "inactive", "active", "deleted"}]
    BY <1>3 DEF ActivateCommit
  <2>3. \A i \in Rows : period[i].sched \in Schedules
    BY DEF Rows, PeriodRow, NoRow
  <2> QED
    BY <1>3, <2>1, <2>2, <2>3 DEF ActivateCommit, Rows, Exists
<1>4. CASE Deactivate(p)
  <2>1. \A s \in Schedules : Exists(s) => Exists(s)'
    BY <1>4 DEF Deactivate, Exists
  <2>2. sched' \in [Schedules -> {"unused", "inactive", "active", "deleted"}]
    BY <1>4 DEF Deactivate
  <2>3. \A i \in Rows : period[i].sched \in Schedules
    BY DEF Rows, PeriodRow, NoRow
  <2> QED
    BY <1>4, <2>1, <2>2, <2>3 DEF Deactivate, Rows, Exists
<1>5. CASE SavePeriod(p)
  <2>1. req[p] \in PeriodReq
    BY <1>5, AtPeriod DEF SavePeriod, At
  <2>2. req[p].in \in Period /\ req[p].in.days \subseteq 1 .. 7 /\ req[p].s \in Schedules
    BY <2>1, RoomConfigAssumption DEF PeriodReq, validatePeriodRequest
  <2> DEFINE new == [is |-> "row", sched |-> req[p].s, days |-> req[p].in.days,
                     start |-> req[p].in.start, end |-> req[p].in.end, mode |-> req[p].in.mode,
                     targets |-> req[p].in.targets]
  <2>3. new \in PeriodRow
    BY <2>2 DEF Period, PeriodRow
  <2>4. PICK i \in PeriodIds : period' = [period EXCEPT ![i] = new]
    BY <1>5 DEF SavePeriod
  <2>5. new.sched = req[p].s /\ Exists(req[p].s)
    BY <1>5 DEF SavePeriod
  <2>6. UNCHANGED <<sched, room, bare, desired>>
    BY <1>5 DEF SavePeriod
  <2> HIDE DEF new
  <2>7. period' \in [PeriodIds -> PeriodRow \cup NoRow]
    BY <2>3, <2>4
  <2>8. ASSUME NEW j \in Rows' PROVE Exists(period[j].sched)'
    BY <2>4, <2>5, <2>6 DEF Rows, Exists
  <2> QED
    BY <2>6, <2>7, <2>8
<1>6. CASE DeletePeriod(p)
  <2>1. period' = [period EXCEPT ![req[p].i] = [is |-> "deleted"]] /\ UNCHANGED <<sched, room, bare, desired>>
    BY <1>6 DEF DeletePeriod
  <2>2. period' \in [PeriodIds -> PeriodRow \cup NoRow]
    BY <2>1 DEF NoRow
  <2>3. ASSUME NEW j \in Rows' PROVE Exists(period[j].sched)'
    BY <2>1 DEF Rows, Exists
  <2> QED
    BY <2>1, <2>2, <2>3
<1>7. CASE SaveDevice(p)
  <2>1. req[p] \in DeviceReq
    BY <1>7, AtDevice DEF SaveDevice, At
  <2> QED
    BY <1>7, <2>1 DEF SaveDevice, DeviceReq, Rows, Exists
<1>8. CASE DeleteDevice(p)
  BY <1>8 DEF DeleteDevice, Rows, Exists
<1>9. CASE UpdateDesiredState(p)
  <2>1. req[p] \in StateReq
    BY <1>9, AtState DEF UpdateDesiredState, At
  <2> QED
    BY <1>9, <2>1, RoomConfigAssumption DEF UpdateDesiredState, StateReq, Rows, Exists
<1>10. CASE UNCHANGED <<sched, period, room, bare, desired>>
  BY <1>10 DEF Rows, Exists
<1> QED
  BY <1>1, <1>2, <1>3, <1>4, <1>5, <1>6, <1>7, <1>8, <1>9, <1>10
  DEF Step, ActivateCheck, ActivateOthers, buildPeriod, CheckRemoval, Notify, NotifyFails, Fail

LEMMA InitTypes == Init => TypeOK
<1> SUFFICES ASSUME Init PROVE TypeOK
  OBVIOUS
<1>1. Idle \in Request
  BY DEF Request
<1>2. [manual |-> FALSE, mode |-> "OFF", targets |-> {}] \in State
  BY DEF State
<1> QED
  BY <1>1, <1>2, RoomConfigAssumption DEF Init, TypeOK, NoRow, Rows

\* Every row of the tables stays well formed and every period keeps an existing
\* schedule, for any number of concurrent requests: the foreign key and its cascade
\* make up for the checks the requests make too early.
THEOREM RoomTypesHold == Spec => []TypeOK
<1>1. TypeOK /\ [Next]_vars => TypeOK'
  <2> SUFFICES ASSUME TypeOK, [Next]_vars PROVE TypeOK'
    OBVIOUS
  <2>1. ASSUME NEW p \in Procs, Step(p) PROVE TypeOK'
    <3>1. RowsOK'
      BY <2>1, StepRows
    <3>2. req' \in [Procs -> Request] /\ requests' \in 0 .. MaxRequests
      BY <2>1, StepRequests DEF TypeOK
    <3> QED
      BY <3>1, <3>2 DEF TypeOK, RowsOK
  <2>2. ASSUME NEW p \in Procs, Arrival(p) PROVE TypeOK'
    <3>1. RowsOK'
      BY <2>2, ArrivalRows
    <3>2. req' \in [Procs -> Request] /\ requests' \in 0 .. MaxRequests
      BY <2>2, ArrivalRequests
    <3> QED
      BY <3>1, <3>2 DEF TypeOK, RowsOK
  <2>3. CASE UNCHANGED vars
    BY <2>3 DEF vars, TypeOK, Rows, Exists
  <2> QED
    BY <2>1, <2>2, <2>3 DEF Next
<1> QED
  BY <1>1, InitTypes, PTL DEF Spec

-----------------------------------------------------------------------------
(* Reads and checks.  What a request has read, and what its checks have found,  *)
(* still holds when it writes, unless another request has overtaken it.         *)

Deletes == {"deleteSchedule", "deleteDevice"}

\* At a step, a request comes from the one operation that has it.
OpOfStep(r) ==
    /\ r.pc = "drop" => r.op = "deleteSchedule"
    /\ r.pc = "dropDevice" => r.op = "deleteDevice"
    /\ r.pc \in {"leave", "dropDevice"} /\ r.op = "deleteDevice" => r.to = "none"

FreshSchedule(r) ==
    /\ r.pc \in {"save", "drop", "check", "others", "off"} =>
         Exists(r.s) /\ r.wasActive = (sched[r.s] = "active")
    /\ r.pc \in {"others", "commit"} => PeriodsHaveCapability(r.s)

FreshPeriod(r) ==
    /\ r.pc \in {"build", "savePeriod"} =>
         /\ r.wasActive = (sched[r.s] = "active")
         /\ r.exclude = {} \/ \E i \in Rows : r.exclude = {i} /\ period[i].sched = r.s
    /\ r.pc = "savePeriod" => ~HasOverlap(r.s, r.in, r.exclude)
    /\ r.pc = "dropPeriod" => /\ r.i \in Rows /\ period[r.i].sched = r.s
                              /\ r.wasActive = (sched[r.s] = "active")

FreshDevice(r) ==
    /\ r.pc \in {"leave", "saveDevice", "dropDevice"} => r.from = room[r.d]
    /\ r.pc \in {"saveDevice", "dropDevice"} /\ r.from = "here" /\ r.to # "here"
         => Needs \subseteq Capable(Here \ {r.d})
    /\ r.pc = "dropDevice" => r.to # "here"

Fresh(r) == FreshSchedule(r) /\ FreshPeriod(r) /\ FreshDevice(r)

Reads == \A p \in Procs : OpOfStep(req[p]) /\ (p \notin overtaken => Fresh(req[p]))

LEMMA CapableMonotonic ==
    ASSUME NEW ds, NEW es, ds \subseteq es
    PROVE  Capable(ds) \subseteq Capable(es)
BY DEF Capable

\* What devices can do depends on those that have sensors and actuators.
LEMMA CapableUsable ==
    ASSUME Usable \subseteq Usable', NEW D
    PROVE  Capable(Here \ D) \subseteq Capable(Here \ D)'
<1> SUFFICES ASSUME NEW k \in Capable(Here \ D) PROVE k \in Capable(Here \ D)'
  OBVIOUS
<1>1. PICK d \in (Here \ D) \ bare : k \in Sensors(d)
  BY DEF Capable
<1>2. PICK e \in (Here \ D) \ bare : k \in Actuators(e)
  BY DEF Capable
<1>3. d \in (Here' \ D) \ bare' /\ e \in (Here' \ D) \ bare'
  BY <1>1, <1>2 DEF Here, Usable
<1> QED
  BY <1>1, <1>2, <1>3 DEF Capable

\* A write that does not overtake a request leaves what the request relies on.
LEMMA KeptFresh ==
    ASSUME TypeOK, NEW q \in Procs, Fresh(req[q]), req'[q] = req[q], ~Overtaken(q)
    PROVE  Fresh(req[q])'
<1> DEFINE r == req[q]
<1>1. /\ r.pc \in {"save", "drop", "check", "others", "off", "commit", "build", "savePeriod",
                    "dropPeriod"} => sched'[r.s] = sched[r.s]
      /\ r.pc = "dropPeriod" => period'[r.i] = period[r.i]
      /\ r.pc \in {"build", "savePeriod"} => \A i \in r.exclude : period'[i] = period[i]
      /\ r.pc \in {"leave", "saveDevice", "dropDevice"} => room'[r.d] = room[r.d]
  <2>1. r.pc \in {"save", "drop", "check", "others", "off"} => "s" \in DOMAIN r
    BY AtSchedule DEF TypeOK, ScheduleReq
  <2>2. r.pc = "commit" => "s" \in DOMAIN r
    BY AtCommit DEF TypeOK, CommitReq
  <2>3. r.pc \in {"build", "savePeriod"} => "s" \in DOMAIN r /\ "exclude" \in DOMAIN r
    BY AtPeriod DEF TypeOK, PeriodReq
  <2>4. r.pc = "dropPeriod" => "s" \in DOMAIN r /\ "i" \in DOMAIN r
    BY AtDropPeriod DEF TypeOK, DropPeriodReq
  <2>5. r.pc \in {"leave", "saveDevice", "dropDevice"} => "d" \in DOMAIN r
    BY AtDevice DEF TypeOK, DeviceReq
  <2> QED
    BY <2>1, <2>2, <2>3, <2>4, <2>5 DEF Overtaken
<1>2. r.pc \in {"savePeriod", "others", "commit"} =>
        \A i \in Rows' : period[i].sched' = r.s => i \in Rows /\ period'[i] = period[i]
  BY DEF Overtaken, Rows
<1>3. r.pc \in {"saveDevice", "dropDevice", "others", "commit"} =>
        Usable \subseteq Usable' /\ Needs' \subseteq Needs
  BY DEF Overtaken
<1>4. FreshSchedule(r)'
  <2>1. r.pc \in {"others", "commit"} => PeriodsHaveCapability(r.s)'
    <3> SUFFICES ASSUME r.pc \in {"others", "commit"}, NEW i \in Rows', period'[i].sched = r.s
                 PROVE  period'[i].targets \subseteq Capable(Here)'
      BY DEF PeriodsHaveCapability
    <3>1. period[i].targets \subseteq Capable(Here) /\ period'[i] = period[i]
      BY <1>2 DEF Fresh, FreshSchedule, PeriodsHaveCapability
    <3>2. Capable(Here) \subseteq Capable(Here)'
      <4>1. Here \ {} = Here /\ Here' \ {} = Here'
        OBVIOUS
      <4>2. Capable(Here \ {}) \subseteq Capable(Here \ {})'
        BY <1>3, CapableUsable
      <4> QED
        BY <4>1, <4>2
    <3> QED
      BY <3>1, <3>2
  <2> QED
    BY <1>1, <2>1 DEF Fresh, FreshSchedule, Exists
<1>5. FreshPeriod(r)'
  <2>1. r.pc = "savePeriod" => ~HasOverlap(r.s, r.in, r.exclude)'
    BY <1>2 DEF Fresh, FreshPeriod, HasOverlap
  <2>2. ASSUME r.pc \in {"build", "savePeriod"}
        PROVE  /\ r.wasActive = (sched'[r.s] = "active")
               /\ r.exclude = {} \/ \E i \in Rows' : r.exclude = {i} /\ period'[i].sched = r.s
    BY <1>1, <2>2 DEF Fresh, FreshPeriod, Rows
  <2>3. ASSUME r.pc = "dropPeriod"
        PROVE  /\ r.i \in Rows' /\ period'[r.i].sched = r.s
               /\ r.wasActive = (sched'[r.s] = "active")
    BY <1>1, <2>3 DEF Fresh, FreshPeriod, Rows
  <2> QED
    BY <2>1, <2>2, <2>3 DEF FreshPeriod
<1>6. FreshDevice(r)'
  <2>1. r.pc \in {"saveDevice", "dropDevice"}
          => Capable(Here \ {r.d}) \subseteq Capable(Here \ {r.d})'
    BY <1>3, CapableUsable
  <2> QED
    BY <1>1, <1>3, <2>1 DEF Fresh, FreshDevice
<1> QED
  BY <1>4, <1>5, <1>6 DEF Fresh

\* Nothing a running request has read changes when a schedule or a device is created.
LEMMA CreationKeepsFresh ==
    ASSUME TypeOK, NEW r \in Request, Fresh(r),
           \/ \E p \in Procs, s \in Schedules : CreateSchedule(p, s)
           \/ \E p \in Procs, d \in Devices : CreateDevice(p, d)
    PROVE  Fresh(r)'
<1>1. CASE \E p \in Procs, s \in Schedules : CreateSchedule(p, s)
  <2>1. PICK p \in Procs, s \in Schedules : CreateSchedule(p, s)
    BY <1>1
  <2>2. /\ sched' = [sched EXCEPT ![s] = "inactive"] /\ sched[s] = "unused"
        /\ UNCHANGED <<period, room, bare, desired>>
    BY <2>1 DEF CreateSchedule
  <2>3. \A t \in Schedules : (sched'[t] = "active") = (sched[t] = "active") /\ (Exists(t) => Exists(t)')
    BY <2>2 DEF Exists, TypeOK
  <2>4. Rows' = Rows /\ Here' = Here /\ Active' = Active
    BY <2>2, <2>3 DEF Rows, Here, Active
  <2>5. Capable(Here)' = Capable(Here)
    BY <2>2, <2>4 DEF Capable
  <2>6. FreshSchedule(r)'
    BY <2>2, <2>3, <2>4, <2>5
    DEF Fresh, FreshSchedule, PeriodsHaveCapability, Request, Idle, ScheduleReq, CommitReq, PeriodReq,
        DropPeriodReq, DeviceReq, StateReq
  <2>7. FreshPeriod(r)'
    BY <2>2, <2>3, <2>4 DEF HasOverlap, Fresh, FreshPeriod, Request, Idle, ScheduleReq, CommitReq, PeriodReq,
        DropPeriodReq, DeviceReq, StateReq, Rows, TypeOK, PeriodRow, NoRow
  <2>8. FreshDevice(r)'
    BY <2>2, <2>4 DEF Fresh, FreshDevice, Capable, Needs
  <2> QED
    BY <2>6, <2>7, <2>8 DEF Fresh
<1>2. CASE \E p \in Procs, d \in Devices : CreateDevice(p, d)
  <2>1. PICK p \in Procs, d \in Devices : CreateDevice(p, d)
    BY <1>2
  <2>2. /\ room' = [room EXCEPT ![d] = "none"] /\ room[d] = "unused"
        /\ UNCHANGED <<sched, period, bare, desired>>
    BY <2>1 DEF CreateDevice
  <2>3. Rows' = Rows /\ Here' = Here /\ Active' = Active
    BY <2>2 DEF Rows, Here, Active, TypeOK
  <2>4. Capable(Here)' = Capable(Here)
    BY <2>2, <2>3 DEF Capable
  <2>5. FreshSchedule(r)' /\ FreshPeriod(r)'
    BY <2>2, <2>3, <2>4 DEF Fresh, FreshSchedule, FreshPeriod, PeriodsHaveCapability, Exists,
                            HasOverlap
  <2>6. FreshDevice(r)'
    <3>1. r.pc \in {"leave", "saveDevice", "dropDevice"} => room'[r.d] = room[r.d]
      BY <2>2 DEF TypeOK, Fresh, FreshDevice, Request, Idle, ScheduleReq, CommitReq, PeriodReq,
                  DropPeriodReq, DeviceReq, StateReq
    <3>2. Needs' = Needs /\ \A e : Capable(Here \ {e})' = Capable(Here \ {e})
      BY <2>2, <2>3 DEF Needs, Capable
    <3> QED
      BY <3>1, <3>2 DEF Fresh, FreshDevice
  <2> QED
    BY <2>5, <2>6 DEF Fresh
<1> QED
  BY <1>1, <1>2

LEMMA CreationIdle ==
    ASSUME TypeOK, Reads, NEW p \in Procs,
           \/ \E s \in Schedules : CreateSchedule(p, s)
           \/ \E d \in Devices : CreateDevice(p, d)
    PROVE  Reads'
<1>1. req' = req /\ overtaken' = overtaken
  BY DEF CreateSchedule, CreateDevice, Arrive, At, TypeOK, Idle, Request, ScheduleReq, CommitReq,
         PeriodReq, DropPeriodReq, DeviceReq, StateReq
<1>2. \A q \in Procs : q \notin overtaken => Fresh(req[q])'
  BY CreationKeepsFresh, <1>1 DEF Reads, TypeOK
<1> QED
  BY <1>1, <1>2 DEF Reads, OpOfStep

\* Targets of the room are kinds of climate.
LEMMA NeedsKinds == TypeOK => Needs \subseteq Kinds
<1> SUFFICES ASSUME TypeOK PROVE Needs \subseteq Kinds
  OBVIOUS
<1>1. desired.targets \subseteq Kinds
  BY DEF TypeOK, State
<1>2. \A i \in Rows : period[i].targets \subseteq Kinds
  BY DEF TypeOK, Rows, PeriodRow, NoRow
<1> QED
  BY <1>1, <1>2 DEF Needs

\* A device that leaves after the check takes away nothing that is needed.
LEMMA RemovalChecked ==
    ASSUME TypeOK, NEW d \in Devices, ~HasCapabilityConflictAfterRemoval(d)
    PROVE  Needs \subseteq Capable(Here \ {d})
<1>1. (Kinds \ Capable(Here \ {d})) \cap desired.targets = {}
  BY DEF HasCapabilityConflictAfterRemoval
<1>2. \A i \in Rows : period[i].sched \in Active
                        => (Kinds \ Capable(Here \ {d})) \cap period[i].targets = {}
  BY DEF HasCapabilityConflictAfterRemoval
<1>3. \A k \in Needs : k \in Capable(Here \ {d})
  <2> SUFFICES ASSUME NEW k \in Needs, k \notin Capable(Here \ {d}) PROVE FALSE
    OBVIOUS
  <2>1. k \in Kinds
    BY NeedsKinds
  <2> QED
    BY <1>1, <1>2, <2>1 DEF Needs
<1> QED
  BY <1>3

\* What a request checks in a step of its own is fresh.
LEMMA StepReads ==
    ASSUME TypeOK, Reads, NEW p \in Procs, Step(p)
    PROVE  OpOfStep(req[p])' /\ (p \notin overtaken' => Fresh(req[p])')
<1> USE DEF Fresh, FreshSchedule, FreshPeriod, FreshDevice, OpOfStep
<1>1. CASE ActivateCheck(p)
  <2>1. /\ req[p] \in ScheduleReq /\ req'[p] = [req[p] EXCEPT !.pc = "others"]
        /\ UNCHANGED <<sched, period, room, bare, desired, overtaken>>
        /\ req[p].pc = "check" /\ PeriodsHaveCapability(req[p].s)
    BY <1>1, AtSchedule DEF ActivateCheck, At, Goto, TypeOK
  <2>2. /\ req'[p].pc = "others" /\ req'[p].s = req[p].s /\ req'[p].wasActive = req[p].wasActive
    BY <2>1 DEF ScheduleReq
  <2>3. p \notin overtaken => Exists(req[p].s) /\ req[p].wasActive = (sched[req[p].s] = "active")
    BY <2>1 DEF Reads
  <2>4. PeriodsHaveCapability(req[p].s)' = PeriodsHaveCapability(req[p].s)
    BY <2>1, <2>2 DEF PeriodsHaveCapability, Capable, Here, Rows
  <2> QED
    BY <2>1, <2>2, <2>3, <2>4 DEF Exists
<1>2. CASE ActivateOthers(p)
  <2>1. /\ req'[p] = [op |-> "activate", pc |-> "commit", s |-> req[p].s, off |-> Active \ {req[p].s}]
        /\ UNCHANGED <<sched, period, room, bare, desired, overtaken>>
        /\ req[p].pc = "others"
    BY <1>2 DEF ActivateOthers, At, TypeOK
  <2>2. p \notin overtaken => PeriodsHaveCapability(req[p].s)
    BY <2>1 DEF Reads
  <2>3. req'[p].pc = "commit" /\ req'[p].s = req[p].s
    BY <2>1
  <2>4. PeriodsHaveCapability(req[p].s)' = PeriodsHaveCapability(req[p].s)
    BY <2>1, <2>3 DEF PeriodsHaveCapability, Capable, Here, Rows
  <2> QED
    BY <2>1, <2>2, <2>3, <2>4
<1>3. CASE buildPeriod(p)
  <2>1. /\ req[p] \in PeriodReq /\ req'[p] = [req[p] EXCEPT !.pc = "savePeriod"]
        /\ UNCHANGED <<sched, period, room, bare, desired, overtaken>>
        /\ req[p].pc = "build" /\ ~HasOverlap(req[p].s, req[p].in, req[p].exclude)
    BY <1>3, AtPeriod DEF buildPeriod, At, Goto, TypeOK
  <2>2. /\ req'[p].pc = "savePeriod" /\ req'[p].s = req[p].s /\ req'[p].in = req[p].in
        /\ req'[p].wasActive = req[p].wasActive /\ req'[p].exclude = req[p].exclude
    BY <2>1 DEF PeriodReq
  <2>3. p \notin overtaken => FreshPeriod(req[p])
    BY DEF Reads
  <2>4. ~HasOverlap(req[p].s, req[p].in, req[p].exclude)'
    BY <2>1, <2>2 DEF HasOverlap, Rows
  <2> QED
    BY <2>1, <2>2, <2>3, <2>4 DEF Rows
<1>4. CASE CheckRemoval(p)
  <2> DEFINE pc == IF req[p].op = "deleteDevice" THEN "dropDevice" ELSE "saveDevice"
             d  == req[p].d
  <2>1. /\ req[p] \in DeviceReq /\ req'[p] = [req[p] EXCEPT !.pc = pc]
        /\ UNCHANGED <<sched, period, room, bare, desired, overtaken>>
        /\ req[p].pc = "leave"
        /\ req[p].from = "here" /\ req[p].to # "here" => ~HasCapabilityConflictAfterRemoval(d)
    BY <1>4, AtDevice DEF CheckRemoval, At, Goto, TypeOK
  <2>2. /\ req'[p].pc = pc /\ req'[p].op = req[p].op /\ req'[p].d = d
        /\ req'[p].from = req[p].from /\ req'[p].to = req[p].to
    BY <2>1 DEF DeviceReq
  <2>3. /\ p \notin overtaken => req[p].from = room[d]
        /\ req[p].op = "deleteDevice" => req[p].to = "none"
    BY <2>1 DEF Reads
  <2>4. d \in Devices /\ req[p].op \in {"updateDevice", "deleteDevice"}
    BY <2>1 DEF DeviceReq
  <2>5. req[p].from = "here" /\ req[p].to # "here" => Needs \subseteq Capable(Here \ {d})
    BY <2>1, <2>4, RemovalChecked
  <2>6. Needs' = Needs /\ Here' = Here /\ bare' = bare
    BY <2>1 DEF Needs, Here, Rows, Active
  <2>7. Capable(Here \ {d})' = Capable(Here \ {d})
    BY <2>2, <2>6 DEF Capable
  <2>8. OpOfStep(req'[p]) /\ (req'[p].pc = "dropDevice" => req'[p].to # "here")
    BY <2>2, <2>3, <2>4
  <2> HIDE DEF pc
  <2>9. pc \in {"dropDevice", "saveDevice"}
    BY DEF pc
  <2>10. FreshSchedule(req[p])' /\ FreshPeriod(req[p])'
    BY <2>2, <2>9
  <2>11. p \notin overtaken' => FreshDevice(req[p])'
    BY <2>1, <2>2, <2>3, <2>5, <2>6, <2>7, <2>8
  <2> QED
    BY <2>8, <2>10, <2>11
<1>5. CASE ~(ActivateCheck(p) \/ ActivateOthers(p) \/ buildPeriod(p) \/ CheckRemoval(p))
  <2>1. req'[p].pc \in {"idle", "notify"}
    BY <1>5 DEF Step, SaveSchedule, DeleteSchedule, ActivateCommit, Deactivate, SavePeriod,
                DeletePeriod, SaveDevice, DeleteDevice, UpdateDesiredState, Notify, NotifyFails,
                Fail, Written, Finish, Idle, TypeOK
  <2> QED
    BY <2>1
<1> QED
  BY <1>1, <1>2, <1>3, <1>4, <1>5

\* A request that arrives has just read what it keeps.
LEMMA ArrivalReads ==
    ASSUME TypeOK, NEW p \in Procs, Arrival(p),
           ~(\E s \in Schedules : CreateSchedule(p, s)), ~(\E d \in Devices : CreateDevice(p, d))
    PROVE  OpOfStep(req[p])' /\ Fresh(req[p])'
<1> USE DEF Fresh, FreshSchedule, FreshPeriod, FreshDevice, OpOfStep, TypeOK
<1>1. ASSUME NEW s \in Schedules, ReadSchedule(p, s, "update", "save")
      PROVE  OpOfStep(req[p])' /\ Fresh(req[p])'
  BY <1>1 DEF ReadSchedule, Arrive, Exists
<1>2. ASSUME NEW s \in Schedules, ReadSchedule(p, s, "deleteSchedule", "drop")
      PROVE  OpOfStep(req[p])' /\ Fresh(req[p])'
  BY <1>2 DEF ReadSchedule, Arrive, Exists
<1>3. ASSUME NEW s \in Schedules, ReadSchedule(p, s, "activate", "check")
      PROVE  OpOfStep(req[p])' /\ Fresh(req[p])'
  BY <1>3 DEF ReadSchedule, Arrive, Exists
<1>4. ASSUME NEW s \in Schedules, ReadSchedule(p, s, "deactivate", "off")
      PROVE  OpOfStep(req[p])' /\ Fresh(req[p])'
  BY <1>4 DEF ReadSchedule, Arrive, Exists
<1>5. ASSUME NEW s \in Schedules, NEW in \in PeriodInputs, CreatePeriodRead(p, s, in)
      PROVE  OpOfStep(req[p])' /\ Fresh(req[p])'
  BY <1>5 DEF CreatePeriodRead, Arrive
<1>6. ASSUME NEW i \in PeriodIds, NEW in \in PeriodInputs, UpdatePeriodRead(p, i, in)
      PROVE  OpOfStep(req[p])' /\ Fresh(req[p])'
  <2>1. /\ req'[p] = [op |-> "updatePeriod", pc |-> "build", s |-> period[i].sched, in |-> in,
                      wasActive |-> period[i].sched \in Active, exclude |-> {i}]
        /\ i \in Rows /\ UNCHANGED <<sched, period>>
    BY <1>6 DEF UpdatePeriodRead, Arrive
  <2>2. period[i].sched \in Schedules
    BY <2>1 DEF Rows, PeriodRow, NoRow
  <2> QED
    BY <2>1, <2>2 DEF Active, Rows
<1>7. ASSUME NEW i \in PeriodIds, DeletePeriodRead(p, i)
      PROVE  OpOfStep(req[p])' /\ Fresh(req[p])'
  <2>1. /\ req'[p] = [op |-> "deletePeriod", pc |-> "dropPeriod", i |-> i,
                      s |-> period[i].sched, wasActive |-> period[i].sched \in Active]
        /\ i \in Rows /\ UNCHANGED <<sched, period>>
    BY <1>7 DEF DeletePeriodRead, Arrive
  <2>2. period[i].sched \in Schedules
    BY <2>1 DEF Rows, PeriodRow, NoRow
  <2> QED
    BY <2>1, <2>2 DEF Active, Rows
<1>8. ASSUME NEW d \in Devices, NEW to \in {"here", "away", "none"},
             ReadDevice(p, d, "updateDevice", to)
      PROVE  OpOfStep(req[p])' /\ Fresh(req[p])'
  BY <1>8 DEF ReadDevice, Arrive
<1>9. ASSUME NEW d \in Devices, ReadDevice(p, d, "deleteDevice", "none")
      PROVE  OpOfStep(req[p])' /\ Fresh(req[p])'
  BY <1>9 DEF ReadDevice, Arrive
<1>10. ASSUME NEW in \in StateInputs, ReadDesiredState(p, in)
       PROVE  OpOfStep(req[p])' /\ Fresh(req[p])'
  BY <1>10 DEF ReadDesiredState, Arrive
<1> QED
  BY <1>1, <1>2, <1>3, <1>4, <1>5, <1>6, <1>7, <1>8, <1>9, <1>10 DEF Arrival

\* A step or an arrival changes the record of its own request only.
LEMMA OthersKept ==
    ASSUME TypeOK, NEW p \in Procs, Step(p) \/ Arrival(p)
    PROVE  \A q \in Procs \ {p} : req'[q] = req[q]
BY DEF TypeOK, Step, Arrival, SaveSchedule, DeleteSchedule, ActivateCheck, ActivateOthers,
       ActivateCommit, Deactivate, buildPeriod, SavePeriod, DeletePeriod, CheckRemoval, SaveDevice,
       DeleteDevice, UpdateDesiredState, Notify, NotifyFails, Fail, CreateSchedule, ReadSchedule,
       CreatePeriodRead, UpdatePeriodRead, DeletePeriodRead, CreateDevice, ReadDevice,
       ReadDesiredState, Arrive, Goto, Finish, Written

\* A step writes, and tells which requests it overtakes, or leaves the tables alone.
LEMMA WriteOrNot ==
    ASSUME TypeOK, NEW p \in Procs, Step(p)
    PROVE  \/ overtaken' = (overtaken \ {p}) \cup {q \in Procs \ {p} : Overtaken(q)}
           \/ UNCHANGED tables /\ overtaken \subseteq overtaken' \cup {p}
BY DEF Step, SaveSchedule, DeleteSchedule, ActivateCheck, ActivateOthers, ActivateCommit, Deactivate,
       buildPeriod, SavePeriod, DeletePeriod, CheckRemoval, SaveDevice, DeleteDevice,
       UpdateDesiredState, Notify, NotifyFails, Fail, Written

LEMMA QuietTables == ASSUME UNCHANGED tables, NEW q \in Procs PROVE ~Overtaken(q)
BY DEF Overtaken, Usable, Needs, Rows, Active

LEMMA NextReads == TypeOK /\ Reads /\ [Next]_vars => Reads'
<1> SUFFICES ASSUME TypeOK, Reads, [Next]_vars PROVE Reads'
  OBVIOUS
<1>1. CASE UNCHANGED vars
  <2>1. ASSUME NEW q \in Procs PROVE OpOfStep(req[q])' /\ (q \notin overtaken' => Fresh(req[q])')
    <3>1. UNCHANGED tables /\ req' = req /\ overtaken' = overtaken
      BY <1>1 DEF vars
    <3>2. ~Overtaken(q)
      BY <3>1, QuietTables
    <3> QED
      BY <3>1, <3>2, KeptFresh DEF Reads, OpOfStep
  <2> QED
    BY <2>1 DEF Reads
<1>2. ASSUME NEW p \in Procs, Step(p) PROVE Reads'
  <2>1. ASSUME NEW q \in Procs \ {p}
        PROVE  OpOfStep(req[q])' /\ (q \notin overtaken' => Fresh(req[q])')
    <3>1. req'[q] = req[q]
      BY <1>2, OthersKept
    <3>2. q \notin overtaken' => q \notin overtaken /\ ~Overtaken(q)
      BY <1>2, WriteOrNot, QuietTables
    <3> QED
      BY <3>1, <3>2, KeptFresh DEF Reads, OpOfStep
  <2> QED
    BY <1>2, <2>1, StepReads DEF Reads
<1>3. ASSUME NEW p \in Procs, Arrival(p),
             ~(\E s \in Schedules : CreateSchedule(p, s)), ~(\E d \in Devices : CreateDevice(p, d))
      PROVE  Reads'
  <2>1. UNCHANGED tables /\ overtaken' = overtaken
    BY <1>3 DEF Arrival, ReadSchedule, CreatePeriodRead, UpdatePeriodRead, DeletePeriodRead,
                ReadDevice, ReadDesiredState
  <2>2. ASSUME NEW q \in Procs \ {p}
        PROVE  OpOfStep(req[q])' /\ (q \notin overtaken' => Fresh(req[q])')
    <3>1. req'[q] = req[q]
      BY <1>3, OthersKept
    <3> QED
      BY <2>1, <3>1, QuietTables, KeptFresh DEF Reads, OpOfStep
  <2> QED
    BY <1>3, <2>2, ArrivalReads DEF Reads
<1> QED
  BY <1>1, <1>2, <1>3, CreationIdle DEF Next

LEMMA InitReads == Init => Reads
BY DEF Init, Idle, Reads, OpOfStep, Fresh, FreshSchedule, FreshPeriod, FreshDevice

LEMMA ReadsHold == Spec => [](TypeOK /\ Reads)
<1>1. TypeOK /\ Reads /\ [Next]_vars => Reads'
  BY NextReads
<1> QED
  BY <1>1, InitReads, RoomTypesHold, PTL DEF Spec

-----------------------------------------------------------------------------
(* Capabilities.                                                               *)

LEMMA RemovalStep ==
    ASSUME TypeOK, Reads, NEW p \in Procs, SaveDevice(p) \/ DeleteDevice(p), p \notin overtaken,
           Needs \subseteq Capable(Here)
    PROVE  Needs' \subseteq Capable(Here)'
<1>1. /\ req[p] \in DeviceReq /\ req[p].pc \in {"saveDevice", "dropDevice"}
      /\ UNCHANGED <<sched, period, desired>>
  BY AtDevice DEF SaveDevice, DeleteDevice, At, TypeOK
<1>2. /\ req[p].d \in Devices /\ req[p].from = room[req[p].d] /\ Registered(req[p].d)
      /\ req[p].from = "here" /\ req[p].to # "here" => Needs \subseteq Capable(Here \ {req[p].d})
      /\ req[p].pc = "dropDevice" => req[p].to # "here"
  BY <1>1 DEF Reads, Fresh, FreshDevice, Registered, DeviceReq
<1>3. bare' = bare /\ Needs' = Needs
  <2>1. bare' = bare
    BY <1>1, <1>2 DEF SaveDevice, DeleteDevice
  <2>2. Needs' = Needs
    BY <1>1 DEF Needs, Rows, Active
  <2> QED
    BY <2>1, <2>2
<1>4. Capable(Here)' = Capable(Here')
  BY <1>3 DEF Capable, Here
<1>5. \/ room' = [room EXCEPT ![req[p].d] = req[p].to] /\ req[p].pc = "saveDevice"
      \/ room' = [room EXCEPT ![req[p].d] = "deleted"] /\ req[p].pc = "dropDevice"
  BY DEF SaveDevice, DeleteDevice, At
<1>6. CASE req[p].from = "here" /\ req[p].to # "here"
  <2>1. Here \ {req[p].d} \subseteq Here'
    BY <1>5 DEF Here, TypeOK
  <2>2. Capable(Here \ {req[p].d}) \subseteq Capable(Here')
    BY <2>1, CapableMonotonic
  <2> QED
    BY <1>2, <1>3, <1>4, <1>6, <2>2
<1>7. CASE ~(req[p].from = "here" /\ req[p].to # "here")
  <2>1. Here \subseteq Here'
    BY <1>2, <1>5, <1>7 DEF Here, TypeOK
  <2> QED
    BY <1>3, <1>4, <2>1, CapableMonotonic
<1> QED
  BY <1>6, <1>7

\* Whatever requests run at once, a device on which a target in use depends is never
\* moved or deleted by a request that no other has overtaken
\* (HasCapabilityConflictAfterRemoval), for any devices and any kinds of climate.
THEOREM RemovalsKeepCapability == Spec => RemovalKeepsCapability
<1>1. TypeOK /\ Reads /\ [Next]_vars =>
        [\A p \in Procs : /\ SaveDevice(p) \/ DeleteDevice(p)
                          /\ p \notin overtaken
                          /\ Needs \subseteq Capable(Here)
                          => Needs' \subseteq Capable(Here)']_vars
  <2> SUFFICES ASSUME TypeOK, Reads, NEW p \in Procs, SaveDevice(p) \/ DeleteDevice(p),
                      p \notin overtaken, Needs \subseteq Capable(Here)
               PROVE  Needs' \subseteq Capable(Here)'
    OBVIOUS
  <2> QED
    BY RemovalStep
<1> QED
  BY <1>1, ReadsHold, PTL DEF Spec, RemovalKeepsCapability

\* Whatever requests run at once, a schedule is activated only in a room that can meet
\* the targets of all its periods, by a request that no other has overtaken: what the
\* check has found before the transaction still holds when the transaction commits.
THEOREM ActivationsAreCapable == Spec => ActivationIsCapable
<1>1. TypeOK /\ Reads /\ [Next]_vars =>
        [\A p \in Procs : ActivateCommit(p) /\ p \notin overtaken =>
           \A i \in Rows : period[i].sched = req[p].s => period[i].targets \subseteq Capable(Here)]_vars
  BY DEF Reads, Fresh, FreshSchedule, ActivateCommit, At, PeriodsHaveCapability
<1> QED
  BY <1>1, ReadsHold, PTL DEF Spec, ActivationIsCapable

-----------------------------------------------------------------------------
(* Events.  What is not announced is a deletion, what an overtaken request     *)
(* wrote, or a change whose event is still to come or was lost.                *)

Announced == unann \subseteq Deletes \cup dropped \cup {req[p].op : p \in {q \in Procs : At(q, "notify")}}

\* A running request that does not announce what it does changes nothing that
\* device-service fetches, unless it deletes.
LEMMA QuietWrite ==
    ASSUME TypeOK, Reads, NEW p \in Procs, Step(p), ~At(p, "notify"), ~At(p, "notify")',
           p \notin overtaken
    PROVE  unann' \subseteq unann \cup Deletes
<1>1. CASE SaveSchedule(p)
  <2>1. req[p].pc = "save" /\ sched' = [sched EXCEPT ![req[p].s] =
                                          IF req[p].wasActive THEN "active" ELSE "inactive"]
    BY <1>1 DEF SaveSchedule, At
  <2>2. Exists(req[p].s) /\ req[p].wasActive = (sched[req[p].s] = "active")
    BY <2>1 DEF Reads, Fresh, FreshSchedule
  <2>3. sched' = sched
    BY <2>1, <2>2 DEF Exists, TypeOK
  <2>4. Fetched' = Fetched
    BY <1>1, <2>3 DEF SaveSchedule, Fetched, Usable, Rows, Active
  <2> QED
    BY <1>1, <2>4 DEF SaveSchedule, Written
<1>2. CASE DeleteSchedule(p)
  <2>1. req[p].op = "deleteSchedule"
    BY <1>2 DEF DeleteSchedule, At, Reads, OpOfStep
  <2> QED
    BY <1>2, <2>1 DEF DeleteSchedule, Written, Deletes
<1>3. CASE ActivateCommit(p) \/ Deactivate(p) \/ UpdateDesiredState(p)
  BY <1>3 DEF ActivateCommit, Deactivate, UpdateDesiredState, Written, At, TypeOK
<1>4. CASE SavePeriod(p)
  <2>1. /\ req[p] \in PeriodReq /\ req[p].pc = "savePeriod"
        /\ Written(p, req[p].wasActive) /\ UNCHANGED <<sched, room, bare, desired>>
    BY <1>4, AtPeriod DEF SavePeriod, At, TypeOK
  <2>2. ~req[p].wasActive
    BY <2>1 DEF Written, At, TypeOK
  <2>3. /\ req[p].s \in Schedules /\ sched[req[p].s] # "active"
        /\ req[p].exclude = {} \/ \E i \in Rows : req[p].exclude = {i} /\ period[i].sched = req[p].s
    BY <2>1, <2>2 DEF Reads, Fresh, FreshPeriod, PeriodReq
  <2> DEFINE new == [is |-> "row", sched |-> req[p].s, days |-> req[p].in.days,
                     start |-> req[p].in.start, end |-> req[p].in.end, mode |-> req[p].in.mode,
                     targets |-> req[p].in.targets]
  <2>4. PICK i \in PeriodIds :
          /\ IF req[p].exclude = {} THEN period[i].is = "unused" ELSE i \in req[p].exclude
          /\ period' = [period EXCEPT ![i] = new]
    BY <1>4 DEF SavePeriod
  <2>5. i \in Rows => period[i].sched = req[p].s
    BY <2>3, <2>4 DEF Rows
  <2>6. new.sched = req[p].s
    OBVIOUS
  <2> HIDE DEF new
  <2> DEFINE used == {j \in Rows : period[j].sched \in Active}
  <2>7. i \notin used /\ i \notin used'
    BY <2>1, <2>3, <2>4, <2>5, <2>6 DEF Active, Rows, TypeOK
  <2>8. \A j \in PeriodIds : j # i => period'[j] = period[j]
    BY <2>4 DEF TypeOK
  <2>9. used' = used /\ \A j \in used : period'[j] = period[j]
    BY <2>1, <2>7, <2>8 DEF Rows, Active
  <2>10. Fetched' = Fetched
    <3>1. {period[j] : j \in used}' = {period[j] : j \in used}
      BY <2>9
    <3> QED
      BY <2>1, <3>1 DEF Fetched, Usable
  <2> QED
    BY <2>1, <2>10 DEF Written
<1>5. CASE DeletePeriod(p)
  <2>1. /\ req[p] \in DropPeriodReq /\ req[p].pc = "dropPeriod"
        /\ Written(p, req[p].wasActive) /\ UNCHANGED <<sched, room, bare, desired>>
        /\ period' = [period EXCEPT ![req[p].i] = [is |-> "deleted"]]
    BY <1>5, AtDropPeriod DEF DeletePeriod, At, TypeOK
  <2>2. ~req[p].wasActive
    BY <2>1 DEF Written, At, TypeOK
  <2>3. req[p].i \in Rows /\ sched[period[req[p].i].sched] # "active"
    BY <2>1, <2>2 DEF Reads, Fresh, FreshPeriod
  <2> DEFINE used == {j \in Rows : period[j].sched \in Active}
  <2>4. req[p].i \notin used /\ req[p].i \notin used'
    BY <2>1, <2>3 DEF Active, Rows, TypeOK
  <2>5. \A j \in PeriodIds : j # req[p].i => period'[j] = period[j]
    BY <2>1 DEF TypeOK
  <2>6. used' = used /\ \A j \in used : period'[j] = period[j]
    BY <2>1, <2>4, <2>5 DEF Rows, Active
  <2>7. Fetched' = Fetched
    <3>1. {period[j] : j \in used}' = {period[j] : j \in used}
      BY <2>6
    <3> QED
      BY <2>1, <3>1 DEF Fetched, Usable
  <2> QED
    BY <2>1, <2>7 DEF Written
<1>6. CASE SaveDevice(p)
  <2>1. /\ req[p] \in DeviceReq /\ req[p].pc = "saveDevice"
        /\ Written(p, req[p].from # req[p].to /\ "here" \in {req[p].from, req[p].to})
        /\ UNCHANGED <<sched, period, desired>>
        /\ room' = [room EXCEPT ![req[p].d] = req[p].to]
        /\ bare' = IF Registered(req[p].d) THEN bare ELSE bare \cup {req[p].d}
    BY <1>6, AtDevice DEF SaveDevice, At, TypeOK
  <2>2. ~(req[p].from # req[p].to /\ "here" \in {req[p].from, req[p].to})
    BY <2>1 DEF Written, At, TypeOK
  <2>3. req[p].from = room[req[p].d] /\ Registered(req[p].d)
    BY <2>1 DEF Reads, Fresh, FreshDevice, Registered, DeviceReq
  <2>4. \A d \in Devices : (room'[d] = "here") = (room[d] = "here")
    BY <2>1, <2>2, <2>3 DEF TypeOK
  <2>5. Fetched' = Fetched
    BY <2>1, <2>3, <2>4 DEF Fetched, Usable, Rows, Active
  <2> QED
    BY <2>1, <2>5 DEF Written
<1>7. CASE DeleteDevice(p)
  <2>1. req[p].op = "deleteDevice"
    BY <1>7 DEF DeleteDevice, At, Reads, OpOfStep
  <2> QED
    BY <1>7, <2>1 DEF DeleteDevice, Written, Deletes
<1>8. CASE ActivateCheck(p) \/ ActivateOthers(p) \/ buildPeriod(p) \/ CheckRemoval(p)
           \/ Fail(p)
  BY <1>8 DEF ActivateCheck, ActivateOthers, buildPeriod, CheckRemoval, Fail
<1> QED
  BY <1>1, <1>2, <1>3, <1>4, <1>5, <1>6, <1>7, <1>8 DEF Step, Notify, NotifyFails

\* A step that writes and goes on to its event leaves the event to come.
LEMMA WriteAnnounced ==
    ASSUME TypeOK, Announced, NEW p \in Procs, Step(p), ~At(p, "notify"),
           unann' \subseteq unann \cup Deletes \/ At(p, "notify")'
    PROVE  Announced'
<1>1. \A q \in Procs \ {p} : req'[q] = req[q]
  BY OthersKept
<1>2. dropped' = dropped
  BY DEF Step, SaveSchedule, DeleteSchedule, ActivateCheck, ActivateOthers, ActivateCommit,
         Deactivate, buildPeriod, SavePeriod, DeletePeriod, CheckRemoval, SaveDevice, DeleteDevice,
         UpdateDesiredState, Notify, NotifyFails, Fail, Written
<1>3. \/ unann' \subseteq unann \cup Deletes
      \/ unann' \subseteq unann \cup {req[p].op} /\ At(p, "notify")' /\ req'[p].op = req[p].op
  <2>1. CASE ~At(p, "notify")'
    BY <2>1
  <2>2. CASE ActivateCheck(p) \/ ActivateOthers(p) \/ buildPeriod(p) \/ CheckRemoval(p) \/ Fail(p)
    BY <2>2 DEF ActivateCheck, ActivateOthers, buildPeriod, CheckRemoval, Fail
  <2>3. CASE \E b : Written(p, b) /\ At(p, "notify")'
    BY <2>3 DEF Written, At, Idle, TypeOK
  <2> QED
    BY <2>1, <2>2, <2>3
    DEF Step, SaveSchedule, DeleteSchedule, ActivateCommit, Deactivate, SavePeriod, DeletePeriod,
        SaveDevice, DeleteDevice, UpdateDesiredState, Notify, NotifyFails
<1> QED
  BY <1>1, <1>2, <1>3 DEF Announced, At

LEMMA NextAnnounced == TypeOK /\ Reads /\ Announced /\ [Next]_vars => Announced'
<1> SUFFICES ASSUME TypeOK, Reads, Announced, [Next]_vars PROVE Announced'
  OBVIOUS
<1>1. CASE UNCHANGED vars
  BY <1>1 DEF vars, Announced, At
<1>2. ASSUME NEW p \in Procs, Arrival(p) PROVE Announced'
  <2>1. unann' = unann /\ dropped' = dropped /\ At(p, "idle")
    BY <1>2 DEF Arrival, CreateSchedule, ReadSchedule, CreatePeriodRead, UpdatePeriodRead,
                DeletePeriodRead, CreateDevice, ReadDevice, ReadDesiredState, Arrive
  <2>2. \A q \in Procs : At(q, "notify") => req'[q] = req[q]
    BY <1>2, <2>1, OthersKept DEF At
  <2> QED
    BY <2>1, <2>2 DEF Announced, At
<1>3. ASSUME NEW p \in Procs, Step(p) PROVE Announced'
  <2>1. CASE At(p, "notify")
    <3>1. Notify(p) \/ NotifyFails(p)
      BY <1>3, <2>1 DEF Step, SaveSchedule, DeleteSchedule, ActivateCheck, ActivateOthers,
                ActivateCommit, Deactivate, buildPeriod, SavePeriod, DeletePeriod, CheckRemoval,
                SaveDevice, DeleteDevice, UpdateDesiredState, Fail, At
    <3>2. CASE Notify(p)
      BY <3>2 DEF Notify, Announced
    <3>3. CASE NotifyFails(p)
      <4>1. \A q \in Procs \ {p} : req'[q] = req[q]
        BY <1>3, OthersKept
      <4>2. unann' = unann /\ dropped' = dropped \cup {req[p].op}
        BY <3>3 DEF NotifyFails
      <4> QED
        BY <4>1, <4>2 DEF Announced, At
    <3> QED
      BY <3>1, <3>2, <3>3
  <2>2. CASE ~At(p, "notify") /\ (At(p, "notify")' \/ p \notin overtaken)
    BY <1>3, <2>2, QuietWrite, WriteAnnounced
  <2>3. CASE ~At(p, "notify") /\ p \in overtaken
    <3>1. unann' = unann
      BY <1>3, <2>3
      DEF Step, SaveSchedule, DeleteSchedule, ActivateCheck, ActivateOthers, ActivateCommit,
          Deactivate, buildPeriod, SavePeriod, DeletePeriod, CheckRemoval, SaveDevice, DeleteDevice,
          UpdateDesiredState, Notify, NotifyFails, Fail, Written
    <3> QED
      BY <1>3, <2>3, <3>1, WriteAnnounced
  <2> QED
    BY <2>1, <2>2, <2>3
<1> QED
  BY <1>1, <1>2, <1>3 DEF Next

\* Whatever requests run at once, every change that device-service fetches is announced,
\* but for deletions, lost events and what overtaken requests wrote: what a request
\* decides to announce from (IsActive, the room of the device) is still true at its write.
THEOREM ChangesAreAnnounced == Spec => []OnlyDeletesSilent
<1>1. Init => Announced
  BY DEF Init, Announced
<1>2. Announced => OnlyDeletesSilent
  BY DEF Announced, OnlyDeletesSilent, Deletes, At
<1> QED
  BY <1>1, <1>2, NextAnnounced, ReadsHold, PTL DEF Spec

-----------------------------------------------------------------------------
(* Periods.  HasOverlap is checked before the row is saved, and the only thing *)
(* that can make its answer wrong in between is another period that is saved.  *)

Crosses(x, y) == /\ x.sched = y.sched /\ x.days \cap y.days # {}
                 /\ Rank(x.start) < Rank(y.end) /\ Rank(x.end) > Rank(y.start)

NoCrossing == \A i, j \in Rows \ torn : i # j => ~Crosses(period[i], period[j])

LEMMA RankType == ASSUME NEW t \in Time PROVE Rank(t) \in Nat
BY RoomConfigAssumption DEF Rank, Time

\* No other step brings a period, or changes one.
LEMMA StepFrame ==
    ASSUME TypeOK, NEW p \in Procs, Step(p) \/ Arrival(p), ~SavePeriod(p)
    PROVE  /\ \A i \in Rows' : i \in Rows /\ period'[i] = period[i]
           /\ torn' = torn
<1>1. CASE DeleteSchedule(p)
  BY <1>1 DEF DeleteSchedule, Rows
<1>2. CASE DeletePeriod(p)
  BY <1>2 DEF DeletePeriod, Rows, TypeOK
<1>3. CASE ~DeleteSchedule(p) /\ ~DeletePeriod(p)
  <2>1. period' = period /\ torn' = torn
    BY <1>3 DEF Step, Arrival, SaveSchedule, ActivateCheck, ActivateOthers,
         ActivateCommit, Deactivate, buildPeriod, CheckRemoval, SaveDevice,
         DeleteDevice, UpdateDesiredState, Notify, NotifyFails, Fail, CreateSchedule, ReadSchedule,
         CreatePeriodRead, UpdatePeriodRead, DeletePeriodRead, CreateDevice, ReadDevice,
         ReadDesiredState
  <2> QED
    BY <2>1 DEF Rows
<1> QED
  BY <1>1, <1>2, <1>3

LEMMA SaveCrossing ==
    ASSUME TypeOK, Reads, NoCrossing, NEW p \in Procs, SavePeriod(p)
    PROVE  NoCrossing'
<1>1. req[p] \in PeriodReq /\ req[p].pc = "savePeriod"
  BY AtPeriod DEF SavePeriod, At, TypeOK
<1> DEFINE new == [is |-> "row", sched |-> req[p].s, days |-> req[p].in.days,
                   start |-> req[p].in.start, end |-> req[p].in.end, mode |-> req[p].in.mode,
                   targets |-> req[p].in.targets]
<1>2. PICK i \in PeriodIds :
        /\ IF req[p].exclude = {} THEN period[i].is = "unused" ELSE i \in req[p].exclude
        /\ period' = [period EXCEPT ![i] = new]
        /\ torn' = IF p \in overtaken THEN torn \cup {i} ELSE torn \ {i}
  BY DEF SavePeriod
<1>3. CASE p \in overtaken
  <2>1. \A j \in Rows' \ torn' : j \in Rows \ torn /\ period'[j] = period[j]
    BY <1>2, <1>3 DEF Rows, TypeOK
  <2> QED
    BY <2>1 DEF NoCrossing, Crosses
<1>4. CASE p \notin overtaken
  <2>1. \A j \in Rows : j # i => ~Crosses(period[j], new)
    <3>1. ~HasOverlap(req[p].s, req[p].in, req[p].exclude)
      BY <1>1, <1>4 DEF Reads, Fresh, FreshPeriod
    <3>2. \A j \in Rows : j # i => j \notin req[p].exclude
      BY <1>1, <1>2, <1>4 DEF Reads, Fresh, FreshPeriod
    <3> QED
      BY <3>1, <3>2 DEF HasOverlap, Crosses
  <2>2. \A j \in Rows : j # i => ~Crosses(new, period[j])
    <3> SUFFICES ASSUME NEW j \in Rows, j # i, Crosses(new, period[j]) PROVE FALSE
      OBVIOUS
    <3>1. period[j] \in PeriodRow /\ req[p].in \in Period
      BY <1>1, RoomConfigAssumption DEF Rows, TypeOK, NoRow, PeriodReq
    <3>2. /\ Rank(period[j].start) \in Nat /\ Rank(period[j].end) \in Nat
          /\ Rank(new.start) \in Nat /\ Rank(new.end) \in Nat
      BY <3>1, RankType DEF PeriodRow, Period
    <3>3. Crosses(period[j], new)
      BY <3>2 DEF Crosses
    <3> QED
      BY <2>1, <3>3
  <2> HIDE DEF new
  <2>3. \A j \in Rows' \ torn' : j = i \/ (j \in Rows \ torn /\ period'[j] = period[j])
    BY <1>2, <1>4 DEF Rows, TypeOK
  <2>4. period'[i] = new
    BY <1>2 DEF TypeOK
  <2> QED
    BY <2>1, <2>2, <2>3, <2>4 DEF NoCrossing, Crosses
<1> QED
  BY <1>3, <1>4

LEMMA NextCrossing == TypeOK /\ Reads /\ NoCrossing /\ [Next]_vars => NoCrossing'
<1> SUFFICES ASSUME TypeOK, Reads, NoCrossing, [Next]_vars PROVE NoCrossing'
  OBVIOUS
<1>1. ASSUME NEW p \in Procs, Step(p) \/ Arrival(p), ~SavePeriod(p) PROVE NoCrossing'
  BY <1>1, StepFrame DEF NoCrossing, Crosses
<1>2. CASE UNCHANGED vars
  BY <1>2 DEF vars, NoCrossing, Rows, Crosses
<1> QED
  BY <1>1, <1>2, SaveCrossing DEF Next

\* Whatever requests run at once, no hour belongs to two periods of a schedule, but by
\* a request that saves a period after another has saved one behind its check, for any
\* number of requests and any periods (HasOverlap).
THEOREM PeriodsDoNotOverlap == Spec => []NoOverlap
<1>1. Init => NoCrossing
  BY DEF Init, NoCrossing, Rows
<1>2. TypeOK /\ NoCrossing => NoOverlap
  <2> SUFFICES ASSUME TypeOK, NoCrossing, NEW i \in Rows \ torn, NEW j \in Rows \ torn,
                      NEW h \in 0 .. HoursPerDay, i # j, period[i].sched = period[j].sched,
                      \A k \in {i, j} : ~period[k].start.short /\ ~period[k].end.short,
                      period[i].days \cap period[j].days # {},
                      period[i].start.h <= h, h < period[i].end.h,
                      period[j].start.h <= h, h < period[j].end.h
               PROVE  FALSE
    BY DEF NoOverlap
  <2>1. period[i] \in PeriodRow /\ period[j] \in PeriodRow
    BY DEF Rows, TypeOK, NoRow
  <2>2. /\ period[i].start.h \in Nat /\ period[i].end.h \in Nat
        /\ period[j].start.h \in Nat /\ period[j].end.h \in Nat /\ h \in Nat
    BY <2>1, RoomConfigAssumption DEF PeriodRow, Time
  <2>3. Crosses(period[i], period[j])
    BY <2>2 DEF Crosses, Rank
  <2> QED
    BY <2>3 DEF NoCrossing
<1> QED
  BY <1>1, <1>2, NextCrossing, ReadsHold, PTL DEF Spec
=============================================================================
