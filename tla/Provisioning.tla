---------------------------- MODULE Provisioning ----------------------------
(***************************************************************************)
(* Provisioning of a simulation: the simulator-service process (run and    *)
(* teardown), its HTTP client, and the api-service endpoints it calls.     *)
(*                                                                         *)
(* Every call is a step.  A call can fail with or without its effect (an   *)
(* error before the commit, a lost answer, the client's timeout) and the   *)
(* process can be stopped between any two calls; what it has created stays *)
(* in the database for the next run.  Meanwhile the people who log in with *)
(* the credentials of interactive groups edit what was provisioned.        *)
(*                                                                         *)
(* The files ask for one kind of climate: a room can meet a target if its  *)
(* devices include a sensor and an actuator.  A person can also ask for    *)
(* the kind that no device of the file serves.  Names are the indices from *)
(* which the code builds them (the names of one file are distinct); with a *)
(* 0 it is a name that only a person gives.  People make no rooms, devices *)
(* and schedules of their own.                                             *)
(***************************************************************************)
EXTENDS Naturals, Sequences, FiniteSets, SequencesExt

CONSTANTS
    Groups,      \* cfg.Simulation.UserGroups
    Edits,       \* what people do to a simulation
    MaxRuns,     \* bound on the processes started
    MaxFaults,   \* bound on failing calls
    MaxEdits     \* bound on edits

\* count copies of every element.
Expand(defs) == FlattenSeq([i \in DOMAIN defs |-> [k \in 1 .. defs[i].count |-> defs[i]]])

UserDefs == Expand(Groups)
Users == DOMAIN UserDefs
RoomDefs(u) == Expand(UserDefs[u].rooms)
DeviceDefs(u, r) == Expand(RoomDefs(u)[r].devices)

\* The last user of each group.
LastOfGroup == {Len(Expand(SubSeq(Groups, 1, g))) : g \in DOMAIN Groups}
GroupOf(u) == CHOOSE g \in DOMAIN Groups :
                /\ u <= Len(Expand(SubSeq(Groups, 1, g)))
                /\ u > Len(Expand(SubSeq(Groups, 1, g - 1)))

DeviceDef == [count : Nat \ {0}, caps : SUBSET {"sensor", "actuator"}]
RoomDef == [count : Nat \ {0}, devices : Seq(DeviceDef),
            goal : {"none", "desired", "schedule"}, periods : Nat]
Group == [count : Nat \ {0}, interactive : BOOLEAN, rooms : Seq(RoomDef)]

ASSUME ProvisioningAssumption ==
    /\ Groups \in Seq(Group) /\ Groups # <<>>
    /\ Edits \subseteq {"deleteRoom", "renameRoom", "moveDevice", "renameDevice", "deleteDevice",
                 "clearTargets", "deactivate", "deleteSchedule", "deletePeriod", "ownPeriod"}
    /\ MaxRuns \in Nat /\ MaxFaults \in Nat /\ MaxEdits \in Nat

VARIABLES
    db,       \* rows of appdb: users, rooms, devices, schedules, periods
    sim,      \* the simulator-service process
    creds,    \* users in the credentials file
    nextID, runs, faults, edits,
    calm,     \* history: no call of the process has failed
    touched,  \* history: users edited since the process started
    skipped   \* history: users whose login failed in this teardown

vars == <<db, sim, creds, nextID, runs, faults, edits, calm, touched, skipped>>

Off == [pc |-> "off", u |-> 0, r |-> 0, d |-> 0, p |-> 0, room |-> 0, device |-> 0,
        sched |-> 0, roomsByName |-> {}, devicesByHwID |-> {}]

Init ==
    /\ db = [users |-> {}, rooms |-> {}, devices |-> {}, scheds |-> {}, periods |-> {}]
    /\ sim = Off /\ creds = {} /\ nextID = 1 /\ runs = 0 /\ faults = 0 /\ edits = 0
    /\ calm = TRUE /\ touched = {} /\ skipped = {}

-----------------------------------------------------------------------------
(* api-service: what a request answers and leaves in the database *)

Answer(status, rows) == [status |-> status, db |-> rows]

RoomOf(u, id) == \E m \in db.rooms : m.id = id /\ m.user = u
Capable(ds) == {"sensor", "actuator"} \subseteq UNION {d.caps : d \in ds}
DevicesIn(id) == {d \in db.devices : d.room = id}
PeriodsOf(s) == {p \in db.periods : p.sched = s}

\* The room has a target, in its desired state or in a period of its active schedule.
Wants(id) ==
    \/ \E m \in db.rooms : m.id = id /\ m.targets
    \/ \E s \in db.scheds : s.room = id /\ s.active /\ PeriodsOf(s.id) # {}

\* The schedule has a period that the devices of a file do not serve.
Unserved(s) == \E p \in PeriodsOf(s) : ~p.served

HasCapabilityConflictAfterRemoval(d) ==
    \/ Wants(d.room) /\ ~Capable(DevicesIn(d.room) \ {d})
    \/ \E s \in db.scheds : s.room = d.room /\ s.active /\ Unserved(s.id)

Login(u) == Answer(IF u \in db.users THEN "ok" ELSE "unauthorized", db)

Register(u) ==
    IF u \in db.users THEN Answer("conflict", db)
    ELSE Answer("created", [db EXCEPT !.users = @ \cup {u}])

\* The foreign keys cascade.
DeleteMe(u) ==
    LET ids == {m.id : m \in {n \in db.rooms : n.user = u}}
        gone == {s \in db.scheds : s.room \in ids}
    IN  IF u \notin db.users THEN Answer("notfound", db)
        ELSE Answer("deleted",
               [users |-> db.users \ {u},
                rooms |-> {m \in db.rooms : m.user # u},
                devices |-> {d \in db.devices : d.user # u},
                scheds |-> db.scheds \ gone,
                periods |-> {p \in db.periods : \A s \in gone : p.sched # s.id}])

CreateRoom(u, name) ==
    IF \E m \in db.rooms : m.user = u /\ m.name = name THEN Answer("conflict", db)
    ELSE Answer("created", [db EXCEPT !.rooms =
             @ \cup {[id |-> nextID, user |-> u, name |-> name, targets |-> FALSE]}])

\* UNIQUE (user_id, name) refuses to call a device of the user so, other than this one.
NameTaken(u, name, id) == \E d \in db.devices : d.user = u /\ d.name = name /\ d.id # id

\* hw_id is unique over all users.
CreateDevice(u, hwID, name, caps) ==
    IF (\E d \in db.devices : d.hwID = hwID) \/ NameTaken(u, name, nextID)
    THEN Answer("conflict", db)
    ELSE Answer("created", [db EXCEPT !.devices =
             @ \cup {[id |-> nextID, user |-> u, hwID |-> hwID, name |-> name, room |-> 0,
                      caps |-> caps]}])

\* device.Service.Update sets both; room 0 takes the device out of its room.
UpdateDevice(u, id, room, name) ==
    LET ds == {d \in db.devices : d.id = id /\ d.user = u} IN
    IF ds = {} \/ (room # 0 /\ ~RoomOf(u, room)) THEN Answer("notfound", db)
    ELSE IF \/ \E d \in ds : d.room \notin {0, room} /\ HasCapabilityConflictAfterRemoval(d)
            \/ NameTaken(u, name, id)
    THEN Answer("conflict", db)
    ELSE Answer("ok", [db EXCEPT !.devices =
             (@ \ ds) \cup {[d EXCEPT !.room = room, !.name = name] : d \in ds}])

\* AUTO with targets (on), or without them.
UpdateDesiredState(u, id, on) ==
    IF ~RoomOf(u, id) THEN Answer("notfound", db)
    ELSE IF on /\ ~Capable(DevicesIn(id)) THEN Answer("unprocessable", db)
    ELSE Answer("ok", [db EXCEPT !.rooms =
             {IF m.id = id THEN [m EXCEPT !.targets = on] ELSE m : m \in @}])

CreateSchedule(u, id) ==
    IF ~RoomOf(u, id) THEN Answer("notfound", db)
    ELSE IF \E s \in db.scheds : s.room = id /\ s.name = 1 THEN Answer("conflict", db)
    ELSE Answer("created", [db EXCEPT !.scheds =
             @ \cup {[id |-> nextID, room |-> id, name |-> 1, active |-> FALSE]}])

\* The periods of one schedule of a file do not overlap (nothing validates that); one of
\* somebody's own (0) overlaps them all.  Nothing checks that the devices serve a period.
CreatePeriod(s, p, served) ==
    IF ~(\E x \in db.scheds : x.id = s) THEN Answer("notfound", db)
    ELSE IF \E q \in PeriodsOf(s) : q.p = p \/ q.p = 0 \/ p = 0 THEN Answer("conflict", db)
    ELSE Answer("created", [db EXCEPT !.periods =
             @ \cup {[sched |-> s, p |-> p, served |-> served]}])

Activate(s) ==
    IF ~(\E x \in db.scheds : x.id = s) THEN Answer("notfound", db)
    ELSE LET row == CHOOSE x \in db.scheds : x.id = s IN
         IF row.active THEN Answer("already", db)
         ELSE IF (PeriodsOf(s) # {} /\ ~Capable(DevicesIn(row.room))) \/ Unserved(s)
         THEN Answer("incapable", db)
         ELSE Answer("ok", [db EXCEPT !.scheds =
                {IF x.room = row.room THEN [x EXCEPT !.active = (x = row)] ELSE x : x \in @}])

-----------------------------------------------------------------------------
(* The process *)

\* The answers of the client: the endpoint's, or an error after or before its effect.
Answers(a) ==
    {a} \cup (IF faults < MaxFaults THEN {[a EXCEPT !.status = "failed"], Answer("failed", db)}
              ELSE {})

\* A call is made, answered with a, and leaves the process in state s.
Call(a, s) ==
    /\ db' = a.db
    /\ sim' = s
    /\ nextID' = nextID + (IF a.db # db THEN 1 ELSE 0)
    /\ faults' = faults + (IF a.status = "failed" THEN 1 ELSE 0)
    /\ calm' = (calm /\ a.status # "failed")

\* log.Fatalf
Fatal == [Off EXCEPT !.pc = "failed", !.u = sim.u]

At(pc) == sim.pc = pc
Goto(pc) == [sim EXCEPT !.pc = pc]

\* Mutant: globalUserIdx starts again in every group.
generateEmailPerGroup(u) == u - Len(Expand(SubSeq(Groups, 1, GroupOf(u) - 1)))

\* The account of the user with this globalUserIdx.
generateEmail(u) == u

me == generateEmail(sim.u)

\* generateHwID of the device at the cursor.
hwID == <<sim.u, sim.r, sim.d>>

\* The name that the file gives the device at d in the room at r.
DeviceName(r, d) == <<r, d>>

\* Where the loops of Run continue; one clause of the nest each.
NextUser(s) == IF s.u < Len(UserDefs) THEN [Off EXCEPT !.pc = "login", !.u = s.u + 1]
               ELSE [Off EXCEPT !.pc = "running", !.u = s.u]
EndUser(s) == IF s.u \in LastOfGroup /\ UserDefs[s.u].interactive
              THEN [s EXCEPT !.pc = "credentials"] ELSE NextUser(s)
NextRoom(s) == IF s.r < Len(RoomDefs(s.u))
               THEN [s EXCEPT !.pc = "room", !.r = @ + 1, !.room = 0, !.sched = 0] ELSE EndUser(s)
Goal(s) == CASE RoomDefs(s.u)[s.r].goal = "desired" -> [s EXCEPT !.pc = "desired"]
             [] RoomDefs(s.u)[s.r].goal = "schedule" -> [s EXCEPT !.pc = "schedule"]
             [] OTHER -> NextRoom(s)
NextDevice(s) == IF s.d < Len(DeviceDefs(s.u, s.r))
                 THEN [s EXCEPT !.pc = "device", !.d = @ + 1] ELSE Goal([s EXCEPT !.d = 0])
NextPeriod(s) == IF s.p < RoomDefs(s.u)[s.r].periods
                 THEN [s EXCEPT !.pc = "period", !.p = @ + 1]
                 ELSE [s EXCEPT !.pc = "activate", !.p = 0]

Start ==
    /\ sim.pc \in {"off", "running", "failed", "torn"}
    /\ runs < MaxRuns /\ runs' = runs + 1
    /\ sim' \in {[Off EXCEPT !.pc = pc, !.u = 1] : pc \in {"login", "teardown"}}
    /\ calm' = TRUE /\ touched' = {} /\ skipped' = {}
    /\ UNCHANGED <<db, creds, nextID, faults, edits>>

\* SIGTERM or a crash; the handler for signals is not there before provisioning ends.
Stop ==
    /\ sim.pc # "off"
    /\ sim' = Off
    /\ UNCHANGED <<db, creds, nextID, runs, faults, edits, calm, touched, skipped>>

\* Any error of Login leads to Register, whose conflict is fatal.
RunLogin ==
    /\ At("login")
    /\ \E a \in Answers(Login(me)) :
         Call(a, Goto(IF a.status = "ok" THEN "listRooms" ELSE "register"))
    /\ UNCHANGED <<creds, runs, edits, touched, skipped>>

RunRegister ==
    /\ At("register")
    /\ \E a \in Answers(Register(me)) :
         Call(a, IF a.status = "created" THEN Goto("relogin") ELSE Fatal)
    /\ UNCHANGED <<creds, runs, edits, touched, skipped>>

RunRelogin ==
    /\ At("relogin")
    /\ \E a \in Answers(Login(me)) :
         Call(a, IF a.status = "ok" THEN Goto("listRooms") ELSE Fatal)
    /\ UNCHANGED <<creds, runs, edits, touched, skipped>>

\* The lists are read once per user; lookups after a conflict use them.
ListRooms ==
    /\ At("listRooms")
    /\ \E a \in Answers(Answer("ok", db)) :
         Call(a, IF a.status = "ok"
                 THEN [Goto("listDevices") EXCEPT
                         !.roomsByName = {m \in db.rooms : m.user = me}]
                 ELSE Fatal)
    /\ UNCHANGED <<creds, runs, edits, touched, skipped>>

ListDevices ==
    /\ At("listDevices")
    /\ \E a \in Answers(Answer("ok", db)) :
         Call(a, IF a.status = "ok"
                 THEN NextRoom([sim EXCEPT !.devicesByHwID = {d \in db.devices : d.user = me}])
                 ELSE Fatal)
    /\ UNCHANGED <<creds, runs, edits, touched, skipped>>

\* Mutant: a conflict is an error like any other.
ProvisionRoomConflictFatal ==
    /\ At("room")
    /\ \E a \in Answers(CreateRoom(me, sim.r)) :
         Call(a, IF a.status = "created" THEN NextDevice([sim EXCEPT !.room = nextID]) ELSE Fatal)
    /\ UNCHANGED <<creds, runs, edits, touched, skipped>>

ProvisionRoom ==
    /\ At("room")
    /\ \E a \in Answers(CreateRoom(me, sim.r)) :
         LET known == {m \in sim.roomsByName : m.name = sim.r} IN
         Call(a, CASE a.status = "created" -> NextDevice([sim EXCEPT !.room = nextID])
                   [] a.status = "conflict" /\ known # {} ->
                        NextDevice([sim EXCEPT !.room = (CHOOSE m \in known : TRUE).id])
                   [] OTHER -> Fatal)
    /\ UNCHANGED <<creds, runs, edits, touched, skipped>>

ProvisionDevice ==
    /\ At("device")
    /\ \E a \in Answers(CreateDevice(me, hwID, DeviceName(sim.r, sim.d),
                                 DeviceDefs(sim.u, sim.r)[sim.d].caps)) :
         LET known == {d \in sim.devicesByHwID : d.hwID = hwID} IN
         Call(a, CASE a.status = "created" -> [Goto("assign") EXCEPT !.device = nextID]
                   [] a.status = "conflict" /\ known # {} ->
                        [Goto("assign") EXCEPT !.device = (CHOOSE d \in known : TRUE).id]
                   [] OTHER -> Fatal)
    /\ UNCHANGED <<creds, runs, edits, touched, skipped>>

AssignDevice ==
    /\ At("assign")
    /\ \E a \in Answers(UpdateDevice(me, sim.device, sim.room, DeviceName(sim.r, sim.d))) :
         Call(a, IF a.status = "ok" THEN NextDevice([sim EXCEPT !.device = 0]) ELSE Fatal)
    /\ UNCHANGED <<creds, runs, edits, touched, skipped>>

SetDesiredState ==
    /\ At("desired")
    /\ \E a \in Answers(UpdateDesiredState(me, sim.room, TRUE)) :
         Call(a, IF a.status = "ok" THEN NextRoom(sim) ELSE Fatal)
    /\ UNCHANGED <<creds, runs, edits, touched, skipped>>

ProvisionSchedule ==
    /\ At("schedule")
    /\ \E a \in Answers(CreateSchedule(me, sim.room)) :
         Call(a, CASE a.status = "created" -> NextPeriod([sim EXCEPT !.sched = nextID])
                   [] a.status = "conflict" -> Goto("listSchedules")
                   [] OTHER -> Fatal)
    /\ UNCHANGED <<creds, runs, edits, touched, skipped>>

ListSchedules ==
    /\ At("listSchedules")
    /\ \E a \in Answers(Answer(IF RoomOf(me, sim.room) THEN "ok" ELSE "notfound", db)) :
         LET named == {s \in db.scheds : s.room = sim.room /\ s.name = 1} IN
         Call(a, IF a.status = "ok" /\ named # {}
                 THEN NextPeriod([sim EXCEPT !.sched = (CHOOSE s \in named : TRUE).id])
                 ELSE Fatal)
    /\ UNCHANGED <<creds, runs, edits, touched, skipped>>

\* A conflict counts as success.
ProvisionPeriod ==
    /\ At("period")
    /\ \E a \in Answers(CreatePeriod(sim.sched, sim.p, TRUE)) :
         Call(a, IF a.status \in {"created", "conflict"} THEN NextPeriod(sim) ELSE Fatal)
    /\ UNCHANGED <<creds, runs, edits, touched, skipped>>

ActivateSchedule ==
    /\ At("activate")
    /\ \E a \in Answers(Activate(sim.sched)) :
         Call(a, IF a.status \in {"ok", "already"} THEN NextRoom(sim) ELSE Fatal)
    /\ UNCHANGED <<creds, runs, edits, touched, skipped>>

\* The file has the name of the simulation, and os.Create truncates it.
WriteCredentials ==
    /\ At("credentials")
    /\ \/ /\ creds' = {u \in Users : GroupOf(u) = GroupOf(sim.u)}
          /\ sim' = NextUser(sim)
          /\ UNCHANGED <<faults, calm>>
       \/ /\ faults < MaxFaults /\ faults' = faults + 1 /\ calm' = FALSE
          /\ creds' \in {creds, {}}
          /\ sim' = Fatal
    /\ UNCHANGED <<db, nextID, runs, edits, touched, skipped>>

\* Mutant: one user too many.
NextTeardownPastEnd == IF sim.u <= Len(UserDefs) THEN [Goto("teardown") EXCEPT !.u = @ + 1]
                       ELSE Goto("torn")

NextTeardown == IF sim.u < Len(UserDefs) THEN [Goto("teardown") EXCEPT !.u = @ + 1]
                ELSE Goto("torn")

\* Mutant: a user that does not exist ends the teardown.
TeardownLoginReturns ==
    /\ At("teardown")
    /\ \E a \in Answers(Login(me)) :
         /\ Call(a, CASE a.status = "ok" -> Goto("deleteMe")
                      [] a.status = "unauthorized" -> Goto("torn")
                      [] OTHER -> NextTeardown)
         /\ skipped' = IF a.status = "failed" THEN skipped \cup {me} ELSE skipped
    /\ UNCHANGED <<creds, runs, edits, touched>>

\* Any error of Login means that there is no such user.
TeardownLogin ==
    /\ At("teardown")
    /\ \E a \in Answers(Login(me)) :
         /\ Call(a, IF a.status = "ok" THEN Goto("deleteMe") ELSE NextTeardown)
         /\ skipped' = IF a.status = "failed" THEN skipped \cup {me} ELSE skipped
    /\ UNCHANGED <<creds, runs, edits, touched>>

TeardownDelete ==
    /\ At("deleteMe")
    /\ \E a \in Answers(DeleteMe(me)) :
         Call(a, IF a.status = "deleted" THEN NextTeardown ELSE Fatal)
    /\ UNCHANGED <<creds, runs, edits, touched, skipped>>

-----------------------------------------------------------------------------
(* People *)

\* The schedules with these ids are deleted, and their periods with them.
WithoutSched(ids) == [db EXCEPT !.scheds = {s \in @ : s.id \notin ids},
                                !.periods = {p \in @ : p.sched \notin ids}]

\* A room is deleted: its schedules go, its devices stay without a room.
WithoutRoom(m) ==
    [WithoutSched({s.id : s \in {x \in db.scheds : x.room = m.id}}) EXCEPT
        !.rooms = @ \ {m},
        !.devices = {IF d.room = m.id THEN [d EXCEPT !.room = 0] ELSE d : d \in @}]

\* The names that u's file gives devices.
DeviceNames(u) ==
    UNION {{DeviceName(r, d) : d \in DOMAIN DeviceDefs(u, r)} : r \in DOMAIN RoomDefs(u)}

\* The databases that an edit of user u can lead to.
Edited(kind, u) ==
    LET mine == {m \in db.rooms : m.user = u}
        devs == {d \in db.devices : d.user = u}
        plans == {s \in db.scheds : RoomOf(u, s.room)}
    IN  CASE kind = "deleteRoom" -> {WithoutRoom(m) : m \in mine}
          [] kind = "renameRoom" ->
               {[db EXCEPT !.rooms = (@ \ {m}) \cup {[m EXCEPT !.name = 0]}] : m \in mine}
          [] kind = "moveDevice" ->
               {UpdateDevice(u, d.id, to, d.name).db :
                d \in devs, to \in {0} \cup {m.id : m \in mine}}
          [] kind = "renameDevice" ->
               {UpdateDevice(u, d.id, d.room, n).db : d \in devs, n \in DeviceNames(u)} \cup
               {UpdateDevice(u, d.id, d.room, <<0, d.id>>).db : d \in devs}
          [] kind = "deleteDevice" ->
               {[db EXCEPT !.devices = @ \ {d}] :
                d \in {e \in devs : e.room = 0 \/ ~HasCapabilityConflictAfterRemoval(e)}}
          [] kind = "clearTargets" -> {UpdateDesiredState(u, m.id, FALSE).db : m \in mine}
          [] kind = "deactivate" ->
               {[db EXCEPT !.scheds = (@ \ {s}) \cup {[s EXCEPT !.active = FALSE]}] : s \in plans}
          [] kind = "deleteSchedule" -> {WithoutSched({s.id}) : s \in plans}
          [] kind = "deletePeriod" ->
               {[db EXCEPT !.periods = @ \ {p}] :
                p \in {q \in db.periods : \E s \in plans : q.sched = s.id}}
          [] kind = "ownPeriod" ->
               {CreatePeriod(s.id, 0, served).db : s \in plans, served \in BOOLEAN}

\* Somebody logged in as an interactive user edits through the web client.
Edit(u) ==
    /\ UserDefs[u].interactive /\ edits < MaxEdits
    /\ \E kind \in Edits : db' \in Edited(kind, u) \ {db}
    /\ edits' = edits + 1
    /\ touched' = touched \cup {u}
    /\ UNCHANGED <<sim, creds, nextID, runs, faults, calm, skipped>>

Run == \/ RunLogin \/ RunRegister \/ RunRelogin \/ ListRooms \/ ListDevices
       \/ ProvisionRoom \/ ProvisionDevice \/ AssignDevice \/ SetDesiredState
       \/ ProvisionSchedule \/ ListSchedules \/ ProvisionPeriod \/ ActivateSchedule
       \/ WriteCredentials

Teardown == TeardownLogin \/ TeardownDelete

Next == Start \/ Stop \/ Run \/ Teardown \/ (\E u \in Users : Edit(u))

Spec == Init /\ [][Next]_vars

-----------------------------------------------------------------------------
(* Properties *)

TypeOK ==
    /\ db.users \subseteq Users
    /\ db.rooms \subseteq [id : Nat, user : Users, name : Nat, targets : BOOLEAN]
    /\ db.devices \subseteq [id : Nat, user : Users, hwID : Nat \X Nat \X Nat, name : Nat \X Nat,
                             room : Nat, caps : SUBSET {"sensor", "actuator"}]
    /\ db.scheds \subseteq [id : Nat, room : Nat, name : Nat, active : BOOLEAN]
    /\ db.periods \subseteq [sched : Nat, p : Nat, served : BOOLEAN]
    /\ sim.u \in 0 .. Len(UserDefs) /\ creds \subseteq Users /\ skipped \subseteq Users
    /\ calm \in BOOLEAN /\ touched \subseteq Users

\* The room that user u's file asks for at index r is there, with its devices in it and
\* its targets in force; periods can be missing where one of a person's own is in the way
\* (and where another of the file is: periods of one file are taken not to overlap).
RoomProvisioned(u, r) ==
    \E m \in db.rooms :
        /\ m.user = u /\ m.name = r
        /\ \A d \in DOMAIN DeviceDefs(u, r) :
             \E x \in db.devices : /\ x.user = u /\ x.hwID = <<u, r, d>>
                                   /\ x.name = DeviceName(r, d) /\ x.room = m.id
        /\ RoomDefs(u)[r].goal = "desired" => m.targets
        /\ RoomDefs(u)[r].goal = "schedule" =>
             \E s \in db.scheds :
                /\ s.room = m.id /\ s.name = 1 /\ s.active
                /\ \A p \in 1 .. RoomDefs(u)[r].periods :
                     \E q \in PeriodsOf(s.id) : q.p \in {0, p}

\* When Run has returned, all of the simulation that nobody has edited since it began is
\* in the database, whatever earlier runs, failed calls and edits had left there.
RunEstablishes ==
    At("running") =>
        \A u \in Users \ touched :
            u \in db.users /\ \A r \in DOMAIN RoomDefs(u) : RoomProvisioned(u, r)

\* A run in which no call fails and nobody edits gets through, unless a person has put a
\* device into a room other than its own (moving it back may be refused), given a device
\* the name of another one, or planned what the devices of the file do not serve.
OnlyEditsBlock ==
    At("failed") /\ calm /\ touched = {} =>
        \/ \E d \in db.devices, m \in db.rooms :
              d.room = m.id /\ <<m.user, m.name>> # <<d.hwID[1], d.hwID[2]>>
        \/ \E d \in db.devices :
              d.name[1] # 0 /\ d.name # DeviceName(d.hwID[2], d.hwID[3])
        \/ \E p \in db.periods : ~p.served

\* After a teardown only users are left whose login failed, and nothing of the others.
TeardownComplete ==
    At("torn") =>
        /\ db.users \subseteq skipped
        /\ \A m \in db.rooms : m.user \in db.users
        /\ \A d \in db.devices : d.user \in db.users
        /\ \A s \in db.scheds : \E m \in db.rooms : m.id = s.room
        /\ \A p \in db.periods : \E s \in db.scheds : s.id = p.sched
=============================================================================
