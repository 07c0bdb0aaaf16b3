------------------------- MODULE ProvisioningProofs -------------------------
(***************************************************************************)
(* Proofs about Provisioning, for any configuration, any number of runs,   *)
(* failing calls and edits.                                                *)
(*                                                                         *)
(* The endpoints and the edits are first shown to be steps of a few        *)
(* classes (a row more, a row less, a column set), and the classes to keep *)
(* the constraints of appdb; then every action of the process is described *)
(* by its outcomes, and the invariants are proved from those alone.        *)
(***************************************************************************)
EXTENDS Provisioning, SequenceTheorems, WellFoundedInduction, TLAPS

LEMMA LeastNumber ==
    ASSUME NEW T \in SUBSET Nat, T # {}
    PROVE  \E n \in T : \A m \in T : n <= m
<1>1. PICK n \in T : \A m \in T : ~(<<m, n>> \in OpToRel(<, Nat))
  BY WFMin, NatLessThanWellFounded DEF OpToRel
<1>2. \A m \in T : ~(m < n)
  BY <1>1 DEF OpToRel
<1> QED
  BY <1>2

LEMMA Induction ==
    ASSUME NEW S, 0 \in S, \A n \in Nat : n \in S => n + 1 \in S
    PROVE  Nat \subseteq S
<1> SUFFICES ASSUME NEW k \in Nat \ S PROVE FALSE
  OBVIOUS
<1>1. PICK n \in Nat \ S : \A m \in Nat \ S : n <= m
  BY LeastNumber
<1>2. n # 0 /\ n - 1 \in Nat
  BY <1>1
<1>3. n - 1 \in S
  BY <1>1, <1>2
<1>4. (n - 1) + 1 \in S
  BY <1>2, <1>3
<1> QED
  BY <1>1, <1>4

\* The function that FlattenSeq folds the sequences with, up to the n-th.
Flattens(ss, n, f) == f = [i \in 1 .. n |-> IF i = 1 THEN ss[i] ELSE f[i - 1] \o ss[i]]

LEMMA FlattensExists == ASSUME NEW ss, NEW n \in Nat PROVE \E f : Flattens(ss, n, f)
<1> DEFINE S == {m \in Nat : \E f : Flattens(ss, m, f)}
<1>1. 0 \in S
  <2>1. Flattens(ss, 0, [i \in 1 .. 0 |-> 0])
    BY DEF Flattens
  <2> QED
    BY <2>1
<1>2. ASSUME NEW m \in Nat, m \in S PROVE m + 1 \in S
  <2>1. PICK f : Flattens(ss, m, f)
    BY <1>2
  <2> DEFINE g == [i \in 1 .. m + 1 |->
                     IF i = m + 1 THEN IF i = 1 THEN ss[i] ELSE f[i - 1] \o ss[i] ELSE f[i]]
  <2>2. \A i \in 1 .. m : f[i] = IF i = 1 THEN ss[i] ELSE f[i - 1] \o ss[i]
    BY <2>1 DEF Flattens
  <2>3. \A i \in 1 .. m + 1 : g[i] = IF i = 1 THEN ss[i] ELSE g[i - 1] \o ss[i]
    <3> SUFFICES ASSUME NEW i \in 1 .. m + 1
                 PROVE  g[i] = IF i = 1 THEN ss[i] ELSE g[i - 1] \o ss[i]
      OBVIOUS
    <3>1. i # 1 => g[i - 1] = f[i - 1]
      OBVIOUS
    <3>2. g[i] = IF i = 1 THEN ss[i] ELSE f[i - 1] \o ss[i]
      BY <2>2
    <3> QED
      BY <3>1, <3>2
  <2> HIDE DEF g
  <2>4. g = [i \in 1 .. m + 1 |-> g[i]]
    BY DEF g
  <2>5. Flattens(ss, m + 1, g)
    BY <2>3, <2>4 DEF Flattens
  <2> QED
    BY <2>5
<1> HIDE DEF S
<1>3. Nat \subseteq S
  BY <1>1, <1>2, Induction
<1> QED
  BY <1>3 DEF S

\* Sequences of S, one after another, are a sequence of S, and one of them that is not
\* empty makes it so.
LEMMA FlattenType ==
    ASSUME NEW S, NEW ss \in Seq(Seq(S))
    PROVE  /\ FlattenSeq(ss) \in Seq(S)
           /\ ss # <<>> /\ (\A i \in 1 .. Len(ss) : ss[i] # <<>>) => FlattenSeq(ss) # <<>>
<1>1. CASE ss = <<>>
  BY <1>1 DEF FlattenSeq
<1>2. CASE ss # <<>>
  <2> DEFINE n == Len(ss)
             f == CHOOSE g : Flattens(ss, n, g)
             Q == \A i \in 1 .. n : ss[i] # <<>>
  <2>1. n \in Nat \ {0} /\ \A i \in 1 .. n : ss[i] \in Seq(S)
    BY <1>2
  <2>2. Flattens(ss, n, f)
    BY <2>1, FlattensExists
  <2>3. FlattenSeq(ss) = f[n]
    BY <1>2, <2>1 DEF FlattenSeq, Flattens
  <2> HIDE DEF f
  <2>4. \A i \in 1 .. n : f[i] = IF i = 1 THEN ss[i] ELSE f[i - 1] \o ss[i]
    BY <2>2 DEF Flattens
  <2> DEFINE P == {m \in Nat : m + 1 \in 1 .. n =>
                     f[m + 1] \in Seq(S) /\ (Q => f[m + 1] # <<>>)}
  <2>5. 0 \in P
    BY <2>1, <2>4
  <2>6. ASSUME NEW m \in Nat, m \in P PROVE m + 1 \in P
    <3> SUFFICES ASSUME (m + 1) + 1 \in 1 .. n
                 PROVE  f[(m + 1) + 1] \in Seq(S) /\ (Q => f[(m + 1) + 1] # <<>>)
      OBVIOUS
    <3>1. m + 1 \in 1 .. n
      BY <2>1
    <3>2. f[m + 1] \in Seq(S) /\ (Q => f[m + 1] # <<>>)
      BY <2>6, <3>1
    <3>3. f[(m + 1) + 1] = f[m + 1] \o ss[(m + 1) + 1]
      <4>1. (m + 1) + 1 # 1 /\ ((m + 1) + 1) - 1 = m + 1
        OBVIOUS
      <4> QED
        BY <2>4, <4>1
    <3> QED
      BY <2>1, <3>2, <3>3, ConcatProperties, ConcatEqualIffEmpty
  <2> HIDE DEF P
  <2>7. Nat \subseteq P
    BY <2>5, <2>6, Induction
  <2>8. n - 1 \in P /\ (n - 1) + 1 = n
    BY <2>1, <2>7
  <2> QED
    BY <2>1, <2>3, <2>8 DEF P
<1> QED
  BY <1>1, <1>2

LEMMA ExpandType ==
    ASSUME NEW S, NEW defs \in Seq(S), \A i \in 1 .. Len(defs) : defs[i].count \in Nat \ {0}
    PROVE  Expand(defs) \in Seq(S) /\ (defs # <<>> => Expand(defs) # <<>>)
<1> DEFINE ss == [i \in DOMAIN defs |-> [k \in 1 .. defs[i].count |-> defs[i]]]
<1>1. DOMAIN defs = 1 .. Len(defs) /\ Len(defs) \in Nat
  OBVIOUS
<1>2. ASSUME NEW i \in 1 .. Len(defs)
      PROVE  ss[i] \in Seq(S) /\ ss[i] # <<>>
  <2>1. defs[i].count \in Nat \ {0} /\ defs[i] \in S
    BY <1>2
  <2> DEFINE c == defs[i].count
             d == defs[i]
  <2>2. ss[i] = [k \in 1 .. c |-> d]
    BY <1>1
  <2> HIDE DEF c, d, ss
  <2>3. [k \in 1 .. c |-> d] \in Seq(S) /\ Len([k \in 1 .. c |-> d]) = c
    BY <2>1 DEF c, d
  <2>4. Len(<<>>) = 0
    OBVIOUS
  <2> QED
    BY <2>1, <2>2, <2>3, <2>4 DEF c
<1>3. ss \in Seq(Seq(S)) /\ Len(ss) = Len(defs)
  BY <1>1, <1>2
<1> HIDE DEF ss
<1>4. defs # <<>> => ss # <<>>
  BY <1>3
<1> QED
  BY <1>2, <1>3, <1>4, FlattenType DEF Expand, ss

-----------------------------------------------------------------------------
(* The configuration. *)

LEMMA Defs ==
    /\ UserDefs \in Seq(Group) /\ UserDefs # <<>>
    /\ Len(UserDefs) \in Nat \ {0} /\ Users = 1 .. Len(UserDefs)
<1>1. UserDefs \in Seq(Group) /\ UserDefs # <<>>
  <2>1. Groups \in Seq(Group) /\ Groups # <<>>
    BY ProvisioningAssumption
  <2>2. \A i \in 1 .. Len(Groups) : Groups[i].count \in Nat \ {0}
    <3>1. \A i \in 1 .. Len(Groups) : Groups[i] \in Group
      BY <2>1, ElementOfSeq
    <3> QED
      BY <3>1 DEF Group
  <2> QED
    BY <2>1, <2>2, ExpandType DEF UserDefs
<1> QED
  BY <1>1 DEF Users

LEMMA RoomDefsType ==
    ASSUME NEW u \in Users
    PROVE  /\ RoomDefs(u) \in Seq(RoomDef) /\ Len(RoomDefs(u)) \in Nat
           /\ DOMAIN RoomDefs(u) = 1 .. Len(RoomDefs(u))
<1>1. UserDefs[u].rooms \in Seq(RoomDef)
  <2>1. UserDefs[u] \in Group
    BY Defs, ElementOfSeq
  <2> QED
    BY <2>1 DEF Group
<1>2. \A i \in 1 .. Len(UserDefs[u].rooms) : UserDefs[u].rooms[i].count \in Nat \ {0}
  <2>1. \A i \in 1 .. Len(UserDefs[u].rooms) : UserDefs[u].rooms[i] \in RoomDef
    BY <1>1, ElementOfSeq
  <2> QED
    BY <2>1 DEF RoomDef
<1>3. RoomDefs(u) \in Seq(RoomDef)
  BY <1>1, <1>2, ExpandType DEF RoomDefs
<1> QED
  BY <1>3

LEMMA DeviceDefsType ==
    ASSUME NEW u \in Users, NEW r \in DOMAIN RoomDefs(u)
    PROVE  /\ DeviceDefs(u, r) \in Seq(DeviceDef) /\ Len(DeviceDefs(u, r)) \in Nat
           /\ DOMAIN DeviceDefs(u, r) = 1 .. Len(DeviceDefs(u, r))
           /\ RoomDefs(u)[r].periods \in Nat
<1>1. RoomDefs(u)[r] \in RoomDef
  BY RoomDefsType
<1>2. RoomDefs(u)[r].devices \in Seq(DeviceDef) /\ RoomDefs(u)[r].periods \in Nat
  BY <1>1 DEF RoomDef
<1>3. \A i \in 1 .. Len(RoomDefs(u)[r].devices) : RoomDefs(u)[r].devices[i].count \in Nat \ {0}
  <2>1. \A i \in 1 .. Len(RoomDefs(u)[r].devices) : RoomDefs(u)[r].devices[i] \in DeviceDef
    BY <1>2, ElementOfSeq
  <2> QED
    BY <2>1 DEF DeviceDef
<1>4. DeviceDefs(u, r) \in Seq(DeviceDef)
  BY <1>2, <1>3, ExpandType DEF DeviceDefs
<1> QED
  BY <1>2, <1>4

-----------------------------------------------------------------------------
(* Rows *)

Caps == {"sensor", "actuator"}
RoomRow == [id : Nat, user : Users, name : Nat, targets : BOOLEAN]
DeviceRow == [id : Nat, user : Users, hwID : Nat \X Nat \X Nat, name : Nat \X Nat, room : Nat,
              caps : SUBSET Caps]
SchedRow == [id : Nat, room : Nat, name : Nat, active : BOOLEAN]
PeriodRow == [sched : Nat, p : Nat, served : BOOLEAN]

Rows == [users : SUBSET Users, rooms : SUBSET RoomRow, devices : SUBSET DeviceRow,
         scheds : SUBSET SchedRow, periods : SUBSET PeriodRow]

\* A device has the place and the capabilities that the configuration gives it.
Configured(d) ==
    /\ d.hwID[1] = d.user /\ d.hwID[2] \in DOMAIN RoomDefs(d.user)
    /\ d.hwID[3] \in DOMAIN DeviceDefs(d.user, d.hwID[2])
    /\ d.caps = DeviceDefs(d.user, d.hwID[2])[d.hwID[3]].caps

IdsUsed ==
    /\ nextID \in Nat \ {0}
    /\ \A m \in db.rooms : 0 < m.id /\ m.id < nextID
    /\ \A d \in db.devices : 0 < d.id /\ d.id < nextID
    /\ \A s \in db.scheds : 0 < s.id /\ s.id < nextID

\* The unique indices of appdb, and the names that the process gives.
Unique ==
    /\ \A m, n \in db.rooms :
         m.id = n.id \/ (m.user = n.user /\ m.name = n.name /\ m.name # 0) => m = n
    /\ \A d, e \in db.devices : d.id = e.id \/ d.hwID = e.hwID => d = e
    /\ \A s, t \in db.scheds : s.id = t.id \/ s.room = t.room => s = t
    /\ \A s \in db.scheds : s.name = 1

\* The foreign keys.
Referenced ==
    /\ \A m \in db.rooms : m.user \in db.users
    /\ \A d \in db.devices :
         d.user \in db.users /\ (d.room # 0 => \E m \in db.rooms : m.id = d.room /\ m.user = d.user)
    /\ \A s \in db.scheds : \E m \in db.rooms : m.id = s.room
    /\ \A p \in db.periods : \E s \in db.scheds : s.id = p.sched

DbOK == /\ db \in Rows /\ IdsUsed /\ Unique /\ Referenced
        /\ \A d \in db.devices : Configured(d)

-----------------------------------------------------------------------------
(* What a step may do to the database, table by table. *)

Becomes(us, ms, ds, ss, ps) ==
    /\ db' = [users |-> us, rooms |-> ms, devices |-> ds, scheds |-> ss, periods |-> ps]
    /\ nextID' \in {nextID, nextID + 1}

NewUser(u) == u \in Users /\ Becomes(db.users \cup {u}, db.rooms, db.devices, db.scheds, db.periods)

UserGone(u) ==
    LET gone == {s \in db.scheds : RoomOf(u, s.room)} IN
    Becomes(db.users \ {u}, {m \in db.rooms : m.user # u}, {d \in db.devices : d.user # u},
            db.scheds \ gone, {p \in db.periods : \A s \in gone : p.sched # s.id})

NewRoom(u, n) ==
    /\ u \in db.users /\ n \in Nat \ {0} /\ nextID' = nextID + 1
    /\ \A m \in db.rooms : ~(m.user = u /\ m.name = n)
    /\ Becomes(db.users, db.rooms \cup {[id |-> nextID, user |-> u, name |-> n, targets |-> FALSE]},
               db.devices, db.scheds, db.periods)

NewDevice(u, r, d) ==
    /\ u \in db.users /\ r \in DOMAIN RoomDefs(u) /\ d \in DOMAIN DeviceDefs(u, r)
    /\ nextID' = nextID + 1
    /\ \A x \in db.devices : x.hwID # <<u, r, d>>
    /\ Becomes(db.users, db.rooms,
               db.devices \cup {[id |-> nextID, user |-> u, hwID |-> <<u, r, d>>,
                                 name |-> DeviceName(r, d), room |-> 0,
                                 caps |-> DeviceDefs(u, r)[d].caps]},
               db.scheds, db.periods)

\* The device gets this room and this name.
Moved(x, room, n) ==
    /\ x \in db.devices /\ room \in Nat /\ n \in Nat \X Nat
    /\ room # 0 => RoomOf(x.user, room)
    /\ Becomes(db.users, db.rooms,
               (db.devices \ {x}) \cup {[x EXCEPT !.room = room, !.name = n]},
               db.scheds, db.periods)

DeviceGone(x) == Becomes(db.users, db.rooms, db.devices \ {x}, db.scheds, db.periods)

Targeted(id, on) ==
    /\ on \in BOOLEAN
    /\ Becomes(db.users, {IF m.id = id THEN [m EXCEPT !.targets = on] ELSE m : m \in db.rooms},
               db.devices, db.scheds, db.periods)

Renamed(m) ==
    /\ m \in db.rooms
    /\ Becomes(db.users, (db.rooms \ {m}) \cup {[m EXCEPT !.name = 0]}, db.devices, db.scheds,
               db.periods)

RoomGone(m) ==
    /\ m \in db.rooms
    /\ Becomes(db.users, db.rooms \ {m},
               {IF d.room = m.id THEN [d EXCEPT !.room = 0] ELSE d : d \in db.devices},
               {s \in db.scheds : s.room # m.id},
               {p \in db.periods : \A s \in db.scheds : s.id = p.sched => s.room # m.id})

NewSched(id) ==
    /\ \E m \in db.rooms : m.id = id
    /\ \A s \in db.scheds : s.room # id
    /\ nextID' = nextID + 1
    /\ Becomes(db.users, db.rooms, db.devices,
               db.scheds \cup {[id |-> nextID, room |-> id, name |-> 1, active |-> FALSE]},
               db.periods)

SchedSet(s, on) ==
    /\ s \in db.scheds /\ on \in BOOLEAN
    /\ Becomes(db.users, db.rooms, db.devices, (db.scheds \ {s}) \cup {[s EXCEPT !.active = on]},
               db.periods)

SchedGone(s) ==
    /\ s \in db.scheds
    /\ Becomes(db.users, db.rooms, db.devices, db.scheds \ {s},
               {p \in db.periods : p.sched # s.id})

NewPeriod(s, p, k) ==
    /\ k \in BOOLEAN /\ s \in db.scheds /\ p \in Nat
    /\ Becomes(db.users, db.rooms, db.devices, db.scheds,
               db.periods \cup {[sched |-> s.id, p |-> p, served |-> k]})

PeriodGone(p) ==
    Becomes(db.users, db.rooms, db.devices, db.scheds, db.periods \ {p})

Untouched == UNCHANGED <<db, nextID>>

Fields == /\ db.users \subseteq Users /\ db.rooms \subseteq RoomRow /\ db.devices \subseteq DeviceRow
          /\ db.scheds \subseteq SchedRow /\ db.periods \subseteq PeriodRow

LEMMA RowsFields == db \in Rows => Fields
BY DEF Rows, Fields

LEMMA BecomesFields ==
    ASSUME NEW us, NEW ms, NEW ds, NEW ss, NEW ps, Becomes(us, ms, ds, ss, ps)
    PROVE  /\ db'.users = us /\ db'.rooms = ms /\ db'.devices = ds
           /\ db'.scheds = ss /\ db'.periods = ps
           /\ (us \subseteq Users /\ ms \subseteq RoomRow /\ ds \subseteq DeviceRow
                 /\ ss \subseteq SchedRow /\ ps \subseteq PeriodRow) => db' \in Rows
           /\ nextID' \in {nextID, nextID + 1}
BY DEF Becomes, Rows

LEMMA NewUserKeeps == ASSUME DbOK, NEW u, NewUser(u) PROVE DbOK'
<1>1. /\ db'.users = db.users \cup {u} /\ db'.rooms = db.rooms /\ db'.devices = db.devices
      /\ db'.scheds = db.scheds /\ db'.periods = db.periods
      /\ db' \in Rows /\ nextID' \in {nextID, nextID + 1}
  BY RowsFields, BecomesFields DEF NewUser, DbOK, Fields
<1>2. IdsUsed'
  BY <1>1 DEF DbOK, IdsUsed, Rows, RoomRow, DeviceRow, SchedRow
<1>3. Unique' /\ Referenced' /\ \A d \in db'.devices : Configured(d)
  BY <1>1 DEF DbOK, Unique, Referenced
<1> QED
  BY <1>1, <1>2, <1>3 DEF DbOK, Configured

LEMMA UserGoneKeeps == ASSUME DbOK, NEW u, UserGone(u) PROVE DbOK'
<1> DEFINE gone == {s \in db.scheds : RoomOf(u, s.room)}
<1>1. /\ db'.users = db.users \ {u} /\ db'.rooms = {m \in db.rooms : m.user # u}
      /\ db'.devices = {d \in db.devices : d.user # u}
      /\ db'.scheds = db.scheds \ gone
      /\ db'.periods = {p \in db.periods : \A s \in gone : p.sched # s.id}
      /\ db' \in Rows /\ nextID' \in {nextID, nextID + 1}
  BY RowsFields, BecomesFields DEF UserGone, DbOK, Fields
<1>2. IdsUsed' /\ Unique'
  BY <1>1 DEF DbOK, IdsUsed, Unique, Rows, RoomRow, DeviceRow, SchedRow
<1>3. Referenced'
  BY <1>1 DEF DbOK, Referenced, Unique, RoomOf
<1>4. \A d \in db'.devices : Configured(d)
  BY <1>1 DEF DbOK
<1> QED
  BY <1>1, <1>2, <1>3, <1>4 DEF DbOK, Configured

LEMMA NewRoomKeeps == ASSUME DbOK, NEW u, NEW n, NewRoom(u, n) PROVE DbOK'
<1> DEFINE x == [id |-> nextID, user |-> u, name |-> n, targets |-> FALSE]
<1>1. Fields /\ x \in RoomRow
  BY RowsFields DEF NewRoom, DbOK, Fields, IdsUsed, RoomRow
<1>2. /\ db'.users = db.users /\ db'.rooms = db.rooms \cup {x} /\ db'.devices = db.devices
      /\ db'.scheds = db.scheds /\ db'.periods = db.periods /\ db' \in Rows /\ nextID' = nextID + 1
  <2>1. /\ Becomes(db.users, db.rooms \cup {x}, db.devices, db.scheds, db.periods)
        /\ nextID' = nextID + 1
    BY DEF NewRoom
  <2>2. db.rooms \cup {x} \subseteq RoomRow
    BY <1>1 DEF Fields
  <2> HIDE DEF x
  <2> QED
    BY <1>1, <2>1, <2>2, BecomesFields DEF Fields
<1>3. /\ x.id = nextID /\ x.user = u /\ x.name = n /\ u \in db.users
      /\ \A m \in db.rooms : ~(m.user = u /\ m.name = n)
  BY DEF NewRoom
<1> HIDE DEF x
<1>4. IdsUsed'
  BY <1>1, <1>2, <1>3 DEF DbOK, IdsUsed, Fields, RoomRow, DeviceRow, SchedRow
<1>5. Unique'
  BY <1>2, <1>3 DEF DbOK, Unique, IdsUsed
<1>6. Referenced'
  BY <1>2, <1>3 DEF DbOK, Referenced
<1>7. \A d \in db'.devices : Configured(d)
  BY <1>2 DEF DbOK
<1> QED
  BY <1>2, <1>4, <1>5, <1>6, <1>7 DEF DbOK, Configured

LEMMA NewDeviceKeeps == ASSUME DbOK, NEW u, NEW r, NEW d, NewDevice(u, r, d) PROVE DbOK'
<1> DEFINE x == [id |-> nextID, user |-> u, hwID |-> <<u, r, d>>, name |-> DeviceName(r, d),
                 room |-> 0, caps |-> DeviceDefs(u, r)[d].caps]
<1>1. u \in Users /\ u \in Nat /\ r \in Nat /\ d \in Nat
  BY RowsFields, Defs, RoomDefsType, DeviceDefsType DEF NewDevice, DbOK, Fields
<1>2. DeviceDefs(u, r)[d].caps \in SUBSET Caps
  <2>1. DeviceDefs(u, r)[d] \in DeviceDef
    BY <1>1, DeviceDefsType, ElementOfSeq DEF NewDevice
  <2> QED
    BY <2>1 DEF DeviceDef, Caps
<1>3. Fields /\ x \in DeviceRow
  BY <1>1, <1>2, RowsFields DEF DbOK, IdsUsed, DeviceRow, DeviceName
<1>4. /\ db'.users = db.users /\ db'.rooms = db.rooms /\ db'.devices = db.devices \cup {x}
      /\ db'.scheds = db.scheds /\ db'.periods = db.periods /\ db' \in Rows /\ nextID' = nextID + 1
  BY <1>3, BecomesFields DEF NewDevice, Fields
<1>5. /\ x.id = nextID /\ x.user = u /\ x.hwID = <<u, r, d>> /\ x.room = 0 /\ u \in db.users
      /\ \A y \in db.devices : y.hwID # x.hwID
  BY DEF NewDevice
<1>6. Configured(x)
  BY DEF NewDevice, Configured
<1> HIDE DEF x
<1>7. IdsUsed'
  BY <1>3, <1>4, <1>5 DEF DbOK, IdsUsed, Fields, RoomRow, DeviceRow, SchedRow
<1>8. Unique'
  BY <1>4, <1>5 DEF DbOK, Unique, IdsUsed
<1>9. Referenced'
  BY <1>4, <1>5 DEF DbOK, Referenced
<1>10. \A y \in db'.devices : Configured(y)
  BY <1>4, <1>6 DEF DbOK
<1> QED
  BY <1>4, <1>7, <1>8, <1>9, <1>10 DEF DbOK, Configured

LEMMA MovedKeeps == ASSUME DbOK, NEW x, NEW room, NEW n, Moved(x, room, n) PROVE DbOK'
<1> DEFINE y == [x EXCEPT !.room = room, !.name = n]
<1>1. Fields /\ x \in db.devices /\ x \in DeviceRow /\ room \in Nat /\ n \in Nat \X Nat
  BY RowsFields DEF Moved, DbOK, Fields
<1>2. /\ y \in DeviceRow /\ y.id = x.id /\ y.user = x.user /\ y.hwID = x.hwID /\ y.room = room
      /\ y.caps = x.caps
  BY <1>1 DEF DeviceRow
<1>3. room # 0 => \E m \in db.rooms : m.id = room /\ m.user = x.user
  BY DEF Moved, RoomOf
<1>4. /\ db'.users = db.users /\ db'.rooms = db.rooms /\ db'.devices = (db.devices \ {x}) \cup {y}
      /\ db'.scheds = db.scheds /\ db'.periods = db.periods /\ db' \in Rows
      /\ nextID' \in {nextID, nextID + 1}
  BY <1>1, <1>2, BecomesFields DEF Moved, Fields
<1> HIDE DEF y
<1>5. IdsUsed'
  BY <1>1, <1>2, <1>4 DEF DbOK, IdsUsed, Fields, RoomRow, DeviceRow, SchedRow
<1>6. Unique'
  BY <1>1, <1>2, <1>4 DEF DbOK, Unique
<1>7. Referenced'
  BY <1>1, <1>2, <1>3, <1>4 DEF DbOK, Referenced
<1>8. \A d \in db'.devices : Configured(d)
  BY <1>1, <1>2, <1>4 DEF DbOK, Configured
<1> QED
  BY <1>4, <1>5, <1>6, <1>7, <1>8 DEF DbOK, Configured

LEMMA DeviceGoneKeeps == ASSUME DbOK, NEW x, DeviceGone(x) PROVE DbOK'
<1>1. /\ db'.users = db.users /\ db'.rooms = db.rooms /\ db'.devices = db.devices \ {x}
      /\ db'.scheds = db.scheds /\ db'.periods = db.periods /\ db' \in Rows
      /\ nextID' \in {nextID, nextID + 1}
  BY RowsFields, BecomesFields DEF DeviceGone, DbOK, Fields
<1>2. IdsUsed'
  BY <1>1 DEF DbOK, IdsUsed, Rows, RoomRow, DeviceRow, SchedRow
<1>3. Unique' /\ Referenced' /\ \A d \in db'.devices : Configured(d)
  BY <1>1 DEF DbOK, Unique, Referenced
<1> QED
  BY <1>1, <1>2, <1>3 DEF DbOK, Configured

LEMMA TargetedKeeps == ASSUME DbOK, NEW id, NEW on, Targeted(id, on) PROVE DbOK'
<1> DEFINE new(m) == IF m.id = id THEN [m EXCEPT !.targets = on] ELSE m
<1>1. Fields /\ Becomes(db.users, {new(m) : m \in db.rooms}, db.devices, db.scheds, db.periods)
  BY RowsFields DEF Targeted, DbOK
<1>2. ASSUME NEW m \in db.rooms
      PROVE  new(m) \in RoomRow /\ new(m).id = m.id /\ new(m).user = m.user /\ new(m).name = m.name
  BY <1>1 DEF Targeted, Fields, RoomRow
<1> HIDE DEF new
<1>3. /\ db'.users = db.users /\ db'.rooms = {new(m) : m \in db.rooms} /\ db'.devices = db.devices
      /\ db'.scheds = db.scheds /\ db'.periods = db.periods /\ db' \in Rows
      /\ nextID' \in {nextID, nextID + 1}
  BY <1>1, <1>2, BecomesFields DEF Fields
<1>4. IdsUsed'
  BY <1>1, <1>2, <1>3 DEF DbOK, IdsUsed, Fields, RoomRow, DeviceRow, SchedRow
<1>5. Unique'
  BY <1>2, <1>3 DEF DbOK, Unique
<1>6. Referenced' /\ \A d \in db'.devices : Configured(d)
  BY <1>2, <1>3 DEF DbOK, Referenced
<1> QED
  BY <1>3, <1>4, <1>5, <1>6 DEF DbOK, Configured

LEMMA RenamedKeeps == ASSUME DbOK, NEW m, Renamed(m) PROVE DbOK'
<1> DEFINE n == [m EXCEPT !.name = 0]
<1>1. /\ Fields /\ m \in db.rooms /\ m \in RoomRow
      /\ Becomes(db.users, (db.rooms \ {m}) \cup {n}, db.devices, db.scheds, db.periods)
  BY RowsFields DEF Renamed, DbOK, Fields
<1>2. n \in RoomRow /\ n.id = m.id /\ n.user = m.user /\ n.name = 0
  BY <1>1 DEF RoomRow
<1> HIDE DEF n
<1>3. /\ db'.users = db.users /\ db'.rooms = (db.rooms \ {m}) \cup {n} /\ db'.devices = db.devices
      /\ db'.scheds = db.scheds /\ db'.periods = db.periods /\ db' \in Rows
      /\ nextID' \in {nextID, nextID + 1}
  BY <1>1, <1>2, BecomesFields DEF Fields
<1>4. IdsUsed'
  BY <1>1, <1>2, <1>3 DEF DbOK, IdsUsed, Fields, RoomRow, DeviceRow, SchedRow
<1>5. Unique'
  BY <1>1, <1>2, <1>3 DEF DbOK, Unique
<1>6. Referenced' /\ \A d \in db'.devices : Configured(d)
  BY <1>1, <1>2, <1>3 DEF DbOK, Referenced
<1> QED
  BY <1>3, <1>4, <1>5, <1>6 DEF DbOK, Configured

LEMMA RoomGoneKeeps == ASSUME DbOK, NEW m, RoomGone(m) PROVE DbOK'
<1> DEFINE new(d) == IF d.room = m.id THEN [d EXCEPT !.room = 0] ELSE d
           ps == {p \in db.periods : \A s \in db.scheds : s.id = p.sched => s.room # m.id}
<1>1. /\ Fields /\ m \in db.rooms
      /\ Becomes(db.users, db.rooms \ {m}, {new(d) : d \in db.devices},
                 {s \in db.scheds : s.room # m.id}, ps)
  BY RowsFields DEF RoomGone, DbOK
<1>2. ASSUME NEW d \in db.devices
      PROVE  /\ new(d) \in DeviceRow /\ new(d).id = d.id /\ new(d).user = d.user
             /\ new(d).hwID = d.hwID /\ new(d).caps = d.caps
             /\ new(d).room = IF d.room = m.id THEN 0 ELSE d.room
  BY <1>1 DEF Fields, DeviceRow
<1> HIDE DEF new
<1>3. /\ db'.users = db.users /\ db'.rooms = db.rooms \ {m}
      /\ db'.devices = {new(d) : d \in db.devices}
      /\ db'.scheds = {s \in db.scheds : s.room # m.id} /\ db'.periods = ps /\ db' \in Rows
      /\ nextID' \in {nextID, nextID + 1}
  BY <1>1, <1>2, BecomesFields DEF Fields
<1>4. IdsUsed'
  BY <1>1, <1>2, <1>3 DEF DbOK, IdsUsed, Fields, RoomRow, DeviceRow, SchedRow
<1>5. Unique'
  BY <1>2, <1>3 DEF DbOK, Unique
<1>6. Referenced'
  <2>1. \A d \in db'.devices :
          d.user \in db'.users /\ (d.room # 0 => \E n \in db'.rooms : n.id = d.room /\ n.user = d.user)
    BY <1>2, <1>3 DEF DbOK, Referenced
  <2>2. \A n \in db'.rooms : n.user \in db'.users
    BY <1>3 DEF DbOK, Referenced
  <2>3. \A s \in db'.scheds : \E n \in db'.rooms : n.id = s.room
    BY <1>3 DEF DbOK, Referenced
  <2>4. \A p \in db'.periods : \E s \in db'.scheds : s.id = p.sched
    BY <1>3 DEF DbOK, Referenced
  <2> QED
    BY <2>1, <2>2, <2>3, <2>4 DEF Referenced
<1>7. \A d \in db'.devices : Configured(d)
  BY <1>2, <1>3 DEF DbOK, Configured
<1> QED
  BY <1>3, <1>4, <1>5, <1>6, <1>7 DEF DbOK, Configured

LEMMA NewSchedKeeps == ASSUME DbOK, NEW id, NewSched(id) PROVE DbOK'
<1> DEFINE x == [id |-> nextID, room |-> id, name |-> 1, active |-> FALSE]
<1>1. Fields /\ id \in Nat /\ x \in SchedRow
  BY RowsFields DEF NewSched, DbOK, Fields, RoomRow, SchedRow, IdsUsed
<1>2. /\ db'.users = db.users /\ db'.rooms = db.rooms /\ db'.devices = db.devices
      /\ db'.scheds = db.scheds \cup {x} /\ db'.periods = db.periods /\ db' \in Rows
      /\ nextID' = nextID + 1
  <2>1. /\ Becomes(db.users, db.rooms, db.devices, db.scheds \cup {x}, db.periods)
        /\ nextID' = nextID + 1
    BY DEF NewSched
  <2>2. db.scheds \cup {x} \subseteq SchedRow
    BY <1>1 DEF Fields
  <2> HIDE DEF x
  <2> QED
    BY <1>1, <2>1, <2>2, BecomesFields DEF Fields
<1>3. /\ x.id = nextID /\ x.room = id /\ x.name = 1 /\ \A s \in db.scheds : s.room # id
      /\ \E m \in db.rooms : m.id = id
  BY DEF NewSched
<1> HIDE DEF x
<1>4. IdsUsed'
  BY <1>1, <1>2, <1>3 DEF DbOK, IdsUsed, Fields, RoomRow, DeviceRow, SchedRow
<1>5. Unique'
  BY <1>2, <1>3 DEF DbOK, Unique, IdsUsed
<1>6. Referenced' /\ \A d \in db'.devices : Configured(d)
  BY <1>2, <1>3 DEF DbOK, Referenced
<1> QED
  BY <1>2, <1>4, <1>5, <1>6 DEF DbOK, Configured

LEMMA SchedSetKeeps == ASSUME DbOK, NEW s, NEW on, SchedSet(s, on) PROVE DbOK'
<1> DEFINE x == [s EXCEPT !.active = on]
<1>1. /\ Fields /\ s \in db.scheds /\ s \in SchedRow /\ on \in BOOLEAN
      /\ Becomes(db.users, db.rooms, db.devices, (db.scheds \ {s}) \cup {x}, db.periods)
  BY RowsFields DEF SchedSet, DbOK, Fields
<1>2. x \in SchedRow /\ x.id = s.id /\ x.room = s.room /\ x.name = s.name
  BY <1>1 DEF SchedRow
<1> HIDE DEF x
<1>3. /\ db'.users = db.users /\ db'.rooms = db.rooms /\ db'.devices = db.devices
      /\ db'.scheds = (db.scheds \ {s}) \cup {x} /\ db'.periods = db.periods /\ db' \in Rows
      /\ nextID' \in {nextID, nextID + 1}
  BY <1>1, <1>2, BecomesFields DEF Fields
<1>4. IdsUsed'
  BY <1>1, <1>2, <1>3 DEF DbOK, IdsUsed, Fields, RoomRow, DeviceRow, SchedRow
<1>5. Unique'
  BY <1>1, <1>2, <1>3 DEF DbOK, Unique
<1>6. Referenced' /\ \A d \in db'.devices : Configured(d)
  BY <1>1, <1>2, <1>3 DEF DbOK, Referenced
<1> QED
  BY <1>3, <1>4, <1>5, <1>6 DEF DbOK, Configured

LEMMA SchedGoneKeeps == ASSUME DbOK, NEW s, SchedGone(s) PROVE DbOK'
<1>1. /\ db'.users = db.users /\ db'.rooms = db.rooms /\ db'.devices = db.devices
      /\ db'.scheds = db.scheds \ {s} /\ db'.periods = {p \in db.periods : p.sched # s.id}
      /\ db' \in Rows /\ nextID' \in {nextID, nextID + 1}
  BY RowsFields, BecomesFields DEF SchedGone, DbOK, Fields
<1>2. IdsUsed'
  BY <1>1 DEF DbOK, IdsUsed, Rows, RoomRow, DeviceRow, SchedRow
<1>3. Unique' /\ Referenced' /\ \A d \in db'.devices : Configured(d)
  BY <1>1 DEF DbOK, Unique, Referenced
<1> QED
  BY <1>1, <1>2, <1>3 DEF DbOK, Configured

LEMMA NewPeriodKeeps == ASSUME DbOK, NEW s, NEW p, NEW k, NewPeriod(s, p, k) PROVE DbOK'
<1> DEFINE x == [sched |-> s.id, p |-> p, served |-> k]
<1>1. Fields /\ s \in db.scheds /\ x \in PeriodRow /\ x.sched = s.id
  BY RowsFields DEF NewPeriod, DbOK, Fields, SchedRow, PeriodRow
<1>2. /\ db'.users = db.users /\ db'.rooms = db.rooms /\ db'.devices = db.devices
      /\ db'.scheds = db.scheds /\ db'.periods = db.periods \cup {x}
      /\ db' \in Rows /\ nextID' \in {nextID, nextID + 1}
  BY <1>1, BecomesFields DEF NewPeriod, Fields
<1> HIDE DEF x
<1>3. IdsUsed'
  BY <1>2 DEF DbOK, IdsUsed, Rows, RoomRow, DeviceRow, SchedRow
<1>4. Unique' /\ Referenced' /\ \A d \in db'.devices : Configured(d)
  BY <1>1, <1>2 DEF DbOK, Unique, Referenced
<1> QED
  BY <1>2, <1>3, <1>4 DEF DbOK, Configured

LEMMA PeriodGoneKeeps == ASSUME DbOK, NEW p, PeriodGone(p) PROVE DbOK'
<1>1. /\ db'.users = db.users /\ db'.rooms = db.rooms /\ db'.devices = db.devices
      /\ db'.scheds = db.scheds /\ db'.periods = db.periods \ {p}
      /\ db' \in Rows /\ nextID' \in {nextID, nextID + 1}
  BY RowsFields, BecomesFields DEF PeriodGone, DbOK, Fields
<1>2. IdsUsed'
  BY <1>1 DEF DbOK, IdsUsed, Rows, RoomRow, DeviceRow, SchedRow
<1>3. Unique' /\ Referenced' /\ \A d \in db'.devices : Configured(d)
  BY <1>1 DEF DbOK, Unique, Referenced
<1> QED
  BY <1>1, <1>2, <1>3 DEF DbOK, Configured

-----------------------------------------------------------------------------
(* The endpoints as steps of the database. *)

LEMMA ExceptRows ==
    ASSUME db \in Rows, NEW X, NEW Y, NEW Z
    PROVE  /\ [db EXCEPT !.users = X] =
                [users |-> X, rooms |-> db.rooms, devices |-> db.devices,
                 scheds |-> db.scheds, periods |-> db.periods]
           /\ [db EXCEPT !.rooms = X] =
                [users |-> db.users, rooms |-> X, devices |-> db.devices,
                 scheds |-> db.scheds, periods |-> db.periods]
           /\ [db EXCEPT !.devices = X] =
                [users |-> db.users, rooms |-> db.rooms, devices |-> X,
                 scheds |-> db.scheds, periods |-> db.periods]
           /\ [db EXCEPT !.scheds = X] =
                [users |-> db.users, rooms |-> db.rooms, devices |-> db.devices,
                 scheds |-> X, periods |-> db.periods]
           /\ [db EXCEPT !.periods = X] =
                [users |-> db.users, rooms |-> db.rooms, devices |-> db.devices,
                 scheds |-> db.scheds, periods |-> X]
           /\ [db EXCEPT !.scheds = X, !.periods = Y] =
                [users |-> db.users, rooms |-> db.rooms, devices |-> db.devices,
                 scheds |-> X, periods |-> Y]
<1>1. db = [users |-> db.users, rooms |-> db.rooms, devices |-> db.devices,
            scheds |-> db.scheds, periods |-> db.periods]
  BY DEF Rows
<1> DEFINE us == db.users
           ms == db.rooms
           ds == db.devices
           ss == db.scheds
           ps == db.periods
           rows == [users |-> us, rooms |-> ms, devices |-> ds, scheds |-> ss, periods |-> ps]
<1> HIDE DEF us, ms, ds, ss, ps
<1>2. [rows EXCEPT !.users = X] =
        [users |-> X, rooms |-> ms, devices |-> ds, scheds |-> ss, periods |-> ps]
  OBVIOUS
<1>3. [rows EXCEPT !.rooms = X] =
        [users |-> us, rooms |-> X, devices |-> ds, scheds |-> ss, periods |-> ps]
  OBVIOUS
<1>4. [rows EXCEPT !.devices = X] =
        [users |-> us, rooms |-> ms, devices |-> X, scheds |-> ss, periods |-> ps]
  OBVIOUS
<1>5. [rows EXCEPT !.scheds = X] =
        [users |-> us, rooms |-> ms, devices |-> ds, scheds |-> X, periods |-> ps]
  OBVIOUS
<1>6. [rows EXCEPT !.periods = X] =
        [users |-> us, rooms |-> ms, devices |-> ds, scheds |-> ss, periods |-> X]
  OBVIOUS
<1>7. [rows EXCEPT !.scheds = X, !.periods = Y] =
        [users |-> us, rooms |-> ms, devices |-> ds, scheds |-> X, periods |-> Y]
  <2> DEFINE z == [rows EXCEPT !.scheds = X, !.periods = Y]
  <2>1. /\ z = [f \in {"users", "rooms", "devices", "scheds", "periods"} |-> z[f]]
        /\ z.users = us /\ z.rooms = ms /\ z.devices = ds /\ z.scheds = X /\ z.periods = Y
    OBVIOUS
  <2> HIDE DEF z
  <2>2. z = [users |-> us, rooms |-> ms, devices |-> ds, scheds |-> X, periods |-> Y]
    BY <2>1
  <2> QED
    BY <2>2 DEF z
<1>8. db = rows
  BY <1>1 DEF us, ms, ds, ss, ps
<1> QED
  BY <1>2, <1>3, <1>4, <1>5, <1>6, <1>7, <1>8 DEF us, ms, ds, ss, ps

-----------------------------------------------------------------------------
(* The cursor of Run. *)

InRoom == {"room", "device", "assign", "desired", "schedule", "listSchedules", "period", "activate"}
LoggedIn == {"listRooms", "listDevices", "credentials", "deleteMe"} \cup InRoom
AtUser == {"login", "register", "relogin", "teardown"} \cup LoggedIn
Pcs == {"off", "running", "failed", "torn"} \cup AtUser

SimType == [pc : Pcs, u : Nat, r : Nat, d : Nat, p : Nat, room : Nat, device : Nat, sched : Nat,
            roomsByName : SUBSET RoomRow, devicesByHwID : SUBSET DeviceRow]

Cursor(s) ==
    /\ s \in SimType /\ s.u <= Len(UserDefs)
    /\ s.pc \in AtUser => s.u \in Users
    /\ s.pc \in InRoom => s.r \in DOMAIN RoomDefs(s.u)
    /\ s.pc \in {"device", "assign"} => s.d \in DOMAIN DeviceDefs(s.u, s.r)
    /\ s.pc \notin {"device", "assign"} => s.d = 0
    /\ s.pc = "period" => s.p \in 1 .. RoomDefs(s.u)[s.r].periods
    /\ s.pc # "period" => s.p = 0
    /\ s.pc \in {"login", "register", "relogin", "listRooms", "listDevices"} => s.r = 0

\* From s the process gets to t, logged in as the same user or not at all.
Gets(s, t) == Cursor(t) /\ (t.pc \in LoggedIn => t.u = s.u)

LEMMA SimFields ==
    ASSUME NEW s \in SimType
    PROVE  /\ s.pc \in Pcs /\ s.u \in Nat /\ s.r \in Nat /\ s.d \in Nat /\ s.p \in Nat
           /\ s.room \in Nat /\ s.device \in Nat /\ s.sched \in Nat
           /\ s.roomsByName \subseteq RoomRow /\ s.devicesByHwID \subseteq DeviceRow
BY DEF SimType

LEMMA PcFacts ==
    /\ {"room", "device", "assign", "desired", "schedule", "listSchedules", "period", "activate"} = InRoom
    /\ InRoom \subseteq LoggedIn /\ LoggedIn \subseteq AtUser /\ AtUser \subseteq Pcs
    /\ {"listRooms", "listDevices", "credentials", "deleteMe"} \subseteq LoggedIn
    /\ {"login", "register", "relogin", "teardown"} \subseteq AtUser
    /\ {"listRooms", "listDevices", "credentials", "deleteMe", "login", "register", "relogin",
        "teardown", "off", "running", "failed", "torn"} \cap InRoom = {}
    /\ {"login", "register", "relogin", "teardown", "off", "running", "failed", "torn"} \cap LoggedIn = {}
BY DEF InRoom, LoggedIn, AtUser, Pcs

LEMMA OffType == Off \in SimType /\ Off.pc = "off" /\ Off.u = 0 /\ Off.r = 0 /\ Off.d = 0 /\ Off.p = 0
BY DEF Off, SimType, Pcs

LEMMA OffCursor == Cursor(Off)
<1>1. Len(UserDefs) \in Nat
  BY Defs
<1> QED
  BY <1>1, OffType DEF Cursor, AtUser, LoggedIn, InRoom

\* Where the process has nothing to do with a user.
LEMMA AwayCursor ==
    ASSUME NEW pc \in {"off", "running", "failed", "torn"}, NEW u \in Nat, u <= Len(UserDefs)
    PROVE  Cursor([Off EXCEPT !.pc = pc, !.u = u])
<1> DEFINE t == [Off EXCEPT !.pc = pc, !.u = u]
<1>1. t \in SimType /\ t.pc = pc /\ t.u = u /\ t.d = 0 /\ t.p = 0
  BY OffType DEF SimType, Pcs
<1> HIDE DEF t
<1>2. Cursor(t)
  BY <1>1 DEF Cursor, AtUser, LoggedIn, InRoom
<1> QED
  BY <1>2 DEF t

LEMMA LoginCursor ==
    ASSUME NEW pc \in {"login", "teardown"}, NEW u \in Users
    PROVE  Cursor([Off EXCEPT !.pc = pc, !.u = u])
<1> DEFINE t == [Off EXCEPT !.pc = pc, !.u = u]
<1>1. t \in SimType /\ t.pc = pc /\ t.u = u /\ t.r = 0 /\ t.d = 0 /\ t.p = 0
  <2>1. pc \in Pcs /\ u \in Nat
    BY PcFacts, Defs
  <2> QED
    BY <2>1, OffType DEF SimType
<1> HIDE DEF t
<1>2. Cursor(t)
  BY <1>1, Defs DEF Cursor, InRoom
<1> QED
  BY <1>2 DEF t

LEMMA GotoCursor ==
    ASSUME NEW s \in SimType, s.u \in Users, NEW pc \in AtUser,
           pc \in InRoom => s.r \in DOMAIN RoomDefs(s.u),
           pc \in {"device", "assign"} => s.d \in DOMAIN DeviceDefs(s.u, s.r),
           pc \notin {"device", "assign"} => s.d = 0, pc # "period", s.p = 0,
           pc \in {"login", "register", "relogin", "listRooms", "listDevices"} => s.r = 0
    PROVE  Gets(s, [s EXCEPT !.pc = pc]) /\ [s EXCEPT !.pc = pc].pc = pc
<1> DEFINE t == [s EXCEPT !.pc = pc]
<1>1. t \in SimType /\ t.pc = pc /\ t.u = s.u /\ t.r = s.r /\ t.d = s.d /\ t.p = s.p
  BY DEF SimType, Pcs
<1> HIDE DEF t
<1>2. Gets(s, t)
  BY <1>1, Defs DEF Gets, Cursor
<1> QED
  BY <1>1, <1>2 DEF t

LEMMA NextUserCursor ==
    ASSUME NEW s \in SimType, s.u \in Users
    PROVE  Gets(s, NextUser(s)) /\ NextUser(s).pc \in {"login", "running"}
<1>1. s.u \in Nat /\ s.u <= Len(UserDefs) /\ Len(UserDefs) \in Nat
  BY Defs
<1>2. CASE s.u < Len(UserDefs)
  <2>1. NextUser(s) = [Off EXCEPT !.pc = "login", !.u = s.u + 1] /\ s.u + 1 \in Users
    BY <1>1, <1>2, Defs DEF NextUser
  <2>2. NextUser(s).pc = "login"
    BY <2>1 DEF Off
  <2> QED
    BY <2>1, <2>2, LoginCursor DEF Gets, LoggedIn, InRoom
<1>3. CASE ~(s.u < Len(UserDefs))
  <2>1. NextUser(s) = [Off EXCEPT !.pc = "running", !.u = s.u]
    BY <1>3 DEF NextUser
  <2>2. NextUser(s).pc = "running"
    BY <2>1 DEF Off
  <2> QED
    BY <1>1, <2>1, <2>2, AwayCursor DEF Gets, LoggedIn, InRoom
<1> QED
  BY <1>2, <1>3

LEMMA EndUserCursor ==
    ASSUME NEW s \in SimType, s.u \in Users, s.d = 0, s.p = 0
    PROVE  Gets(s, EndUser(s)) /\ EndUser(s).pc \in {"credentials", "login", "running"}
<1>1. CASE s.u \in LastOfGroup /\ UserDefs[s.u].interactive
  <2>1. EndUser(s) = [s EXCEPT !.pc = "credentials"]
    BY <1>1 DEF EndUser
  <2>2. EndUser(s).pc = "credentials"
    BY <2>1 DEF SimType
  <2> QED
    BY <2>1, <2>2, GotoCursor DEF AtUser, LoggedIn, InRoom
<1>2. CASE ~(s.u \in LastOfGroup /\ UserDefs[s.u].interactive)
  BY <1>2, NextUserCursor DEF EndUser
<1> QED
  BY <1>1, <1>2

LEMMA NextRoomCursor ==
    ASSUME NEW s \in SimType, s.u \in Users, s.r <= Len(RoomDefs(s.u)), s.d = 0, s.p = 0
    PROVE  Gets(s, NextRoom(s)) /\ NextRoom(s).pc \in {"room", "credentials", "login", "running"}
<1>1. s.r \in Nat /\ Len(RoomDefs(s.u)) \in Nat /\ DOMAIN RoomDefs(s.u) = 1 .. Len(RoomDefs(s.u))
  BY SimFields, RoomDefsType
<1>2. CASE s.r < Len(RoomDefs(s.u))
  <2> DEFINE t == [s EXCEPT !.pc = "room", !.r = s.r + 1, !.room = 0, !.sched = 0]
  <2>1. NextRoom(s) = t
    BY <1>2 DEF NextRoom
  <2>2. t \in SimType /\ t.pc = "room" /\ t.u = s.u /\ t.r = s.r + 1 /\ t.d = s.d /\ t.p = s.p
    <3>1. "room" \in Pcs /\ s.r + 1 \in Nat
      BY <1>1, PcFacts
    <3> QED
      BY <3>1 DEF SimType
  <2> HIDE DEF t
  <2>3. Gets(s, t)
    BY <1>1, <1>2, <2>2, Defs DEF Gets, Cursor
  <2> QED
    BY <2>1, <2>2, <2>3
<1>3. CASE ~(s.r < Len(RoomDefs(s.u)))
  BY <1>3, EndUserCursor DEF NextRoom
<1> QED
  BY <1>2, <1>3

LEMMA GoalCursor ==
    ASSUME NEW s \in SimType, s.u \in Users, s.r \in DOMAIN RoomDefs(s.u), s.d = 0, s.p = 0
    PROVE  /\ Gets(s, Goal(s))
           /\ Goal(s).pc \in {"desired", "schedule", "room", "credentials", "login", "running"}
<1> DEFINE goal == RoomDefs(s.u)[s.r].goal
<1>1. \/ goal = "desired" /\ Goal(s) = [s EXCEPT !.pc = "desired"]
      \/ goal = "schedule" /\ Goal(s) = [s EXCEPT !.pc = "schedule"]
      \/ goal \notin {"desired", "schedule"} /\ Goal(s) = NextRoom(s)
  BY DEF Goal
<1>2. ASSUME NEW pc \in {"desired", "schedule"}, Goal(s) = [s EXCEPT !.pc = pc]
      PROVE  Gets(s, Goal(s)) /\ Goal(s).pc = pc
  <2>1. Goal(s).pc = pc
    BY <1>2 DEF SimType
  <2> QED
    BY <1>2, <2>1, PcFacts, GotoCursor
<1>3. s.r <= Len(RoomDefs(s.u))
  BY RoomDefsType
<1> QED
  BY <1>1, <1>2, <1>3, NextRoomCursor

LEMMA NextDeviceCursor ==
    ASSUME NEW s \in SimType, s.u \in Users, s.r \in DOMAIN RoomDefs(s.u),
           s.d <= Len(DeviceDefs(s.u, s.r)), s.p = 0
    PROVE  Gets(s, NextDevice(s))
<1>1. /\ s.d \in Nat /\ Len(DeviceDefs(s.u, s.r)) \in Nat
      /\ DOMAIN DeviceDefs(s.u, s.r) = 1 .. Len(DeviceDefs(s.u, s.r))
  BY SimFields, DeviceDefsType
<1>2. CASE s.d < Len(DeviceDefs(s.u, s.r))
  <2> DEFINE t == [s EXCEPT !.pc = "device", !.d = s.d + 1]
  <2>1. NextDevice(s) = t
    BY <1>2 DEF NextDevice
  <2>2. t \in SimType /\ t.pc = "device" /\ t.u = s.u /\ t.r = s.r /\ t.d = s.d + 1 /\ t.p = s.p
    <3>1. "device" \in Pcs /\ s.d + 1 \in Nat
      BY <1>1, PcFacts
    <3> QED
      BY <3>1 DEF SimType
  <2> HIDE DEF t
  <2>3. Gets(s, t)
    BY <1>1, <1>2, <2>2, Defs DEF Gets, Cursor
  <2> QED
    BY <2>1, <2>3
<1>3. CASE ~(s.d < Len(DeviceDefs(s.u, s.r)))
  <2> DEFINE t == [s EXCEPT !.d = 0]
  <2>1. NextDevice(s) = Goal(t)
    BY <1>3 DEF NextDevice
  <2>2. t \in SimType /\ t.u = s.u /\ t.r = s.r /\ t.d = 0 /\ t.p = s.p
    BY DEF SimType
  <2> HIDE DEF t
  <2> QED
    BY <2>1, <2>2, GoalCursor DEF Gets
<1> QED
  BY <1>2, <1>3

LEMMA NextPeriodCursor ==
    ASSUME NEW s \in SimType, s.u \in Users, s.r \in DOMAIN RoomDefs(s.u), s.d = 0,
           s.p <= RoomDefs(s.u)[s.r].periods
    PROVE  Gets(s, NextPeriod(s))
<1>1. s.p \in Nat /\ RoomDefs(s.u)[s.r].periods \in Nat
  BY SimFields, DeviceDefsType
<1>2. CASE s.p < RoomDefs(s.u)[s.r].periods
  <2> DEFINE t == [s EXCEPT !.pc = "period", !.p = s.p + 1]
  <2>1. t \in SimType /\ t.pc = "period" /\ t.u = s.u /\ t.r = s.r /\ t.d = s.d /\ t.p = s.p + 1
    <3>1. "period" \in Pcs /\ s.p + 1 \in Nat
      BY <1>1, PcFacts
    <3> QED
      BY <3>1 DEF SimType
  <2>2. NextPeriod(s) = t
    BY <1>2 DEF NextPeriod
  <2> HIDE DEF t
  <2>3. Gets(s, t)
    BY <1>1, <1>2, <2>1, Defs DEF Gets, Cursor
  <2> QED
    BY <2>2, <2>3
<1>3. CASE ~(s.p < RoomDefs(s.u)[s.r].periods)
  <2> DEFINE t == [s EXCEPT !.pc = "activate", !.p = 0]
  <2>1. t \in SimType /\ t.pc = "activate" /\ t.u = s.u /\ t.r = s.r /\ t.d = s.d /\ t.p = 0
    <3>1. "activate" \in Pcs
      BY PcFacts
    <3> QED
      BY <3>1 DEF SimType
  <2>2. NextPeriod(s) = t
    BY <1>3 DEF NextPeriod
  <2> HIDE DEF t
  <2>3. Gets(s, t)
    BY <2>1, Defs DEF Gets, Cursor
  <2> QED
    BY <2>2, <2>3
<1> QED
  BY <1>2, <1>3

-----------------------------------------------------------------------------
(* The endpoints as steps of the database. *)

\* A call is answered by the endpoint, or fails before or after its effect.
LEMMA CallFacts ==
    ASSUME NEW st, NEW rows, st # "failed", NEW b \in Answers(Answer(st, rows)), NEW t, Call(b, t),
           nextID \in Nat
    PROVE  /\ sim' = t /\ calm' = (calm /\ b.status # "failed")
           /\ \/ b.status = st /\ db' = rows
              \/ b.status = "failed" /\ db' \in {db, rows}
           /\ db' # db => nextID' = nextID + 1
           /\ db' = db => nextID' = nextID
<1>1. Answer(st, rows) = [status |-> st, db |-> rows]
  BY DEF Answer
<1>2. \/ b = [status |-> st, db |-> rows] \/ b = [status |-> "failed", db |-> rows]
      \/ b = [status |-> "failed", db |-> db]
  BY <1>1 DEF Answers, Answer
<1>3. /\ sim' = t /\ db' = b.db /\ nextID' = nextID + (IF b.db # db THEN 1 ELSE 0)
      /\ calm' = (calm /\ b.status # "failed")
  BY DEF Call
<1>4. CASE b = [status |-> st, db |-> rows]
  <2>1. b.status = st /\ b.db = rows
    BY <1>4
  <2> QED
    BY <1>3, <2>1
<1>5. CASE b = [status |-> "failed", db |-> rows] \/ b = [status |-> "failed", db |-> db]
  <2>1. b.status = "failed" /\ b.db \in {rows, db}
    BY <1>5
  <2> QED
    BY <1>3, <2>1
<1> QED
  BY <1>2, <1>4, <1>5

\* The endpoint leaves the database as it is.
LEMMA QuietCall ==
    ASSUME NEW st, st # "failed", NEW b \in Answers(Answer(st, db)), NEW t, Call(b, t), nextID \in Nat
    PROVE  /\ sim' = t /\ calm' = (calm /\ b.status # "failed") /\ b.status \in {st, "failed"}
           /\ Untouched
BY CallFacts DEF Untouched


\* What holds of every call with the answers of a set: its caller goes on as t says.
Called(b, t, answers) ==
    sim' = t /\ calm' = (calm /\ b.status # "failed") /\ b.status \in answers \cup {"failed"}

LEMMA LoginEffect ==
    ASSUME DbOK, NEW u, NEW b \in Answers(Login(u)), NEW t, Call(b, t)
    PROVE  /\ Called(b, t, {"ok", "unauthorized"}) /\ Untouched
           /\ b.status = "ok" => u \in db.users
           /\ b.status = "unauthorized" => u \notin db.users
<1>1. PICK st \in {"ok", "unauthorized"} :
        Login(u) = Answer(st, db) /\ (st = "ok" <=> u \in db.users)
  BY DEF Login
<1> QED
  BY <1>1, QuietCall DEF Called, DbOK, IdsUsed

LEMMA RegisterEffect ==
    ASSUME DbOK, NEW u \in Users, NEW b \in Answers(Register(u)), NEW t, Call(b, t)
    PROVE  /\ Called(b, t, {"created", "conflict"})
           /\ Untouched \/ NewUser(u)
           /\ b.status = "created" => NewUser(u)
           /\ b.status = "conflict" => u \in db.users
<1>1. nextID \in Nat /\ db \in Rows
  BY DEF DbOK, IdsUsed
<1>2. CASE u \in db.users
  <2>1. Register(u) = Answer("conflict", db)
    BY <1>2 DEF Register
  <2> QED
    BY <1>1, <1>2, <2>1, QuietCall DEF Called
<1>3. CASE u \notin db.users
  <2> DEFINE rows == [db EXCEPT !.users = @ \cup {u}]
  <2>1. Register(u) = Answer("created", rows)
    BY <1>3 DEF Register
  <2>2. rows = [users |-> db.users \cup {u}, rooms |-> db.rooms, devices |-> db.devices,
                scheds |-> db.scheds, periods |-> db.periods]
    BY <1>1, ExceptRows
  <2>3. db' = rows => NewUser(u)
    <3>1. db' = rows => nextID' \in {nextID, nextID + 1}
      BY <1>1, <2>1, CallFacts
    <3> QED
      BY <2>2, <3>1 DEF NewUser, Becomes
  <2> HIDE DEF rows
  <2> QED
    BY <1>1, <2>1, <2>3, CallFacts DEF Called, Untouched
<1> QED
  BY <1>2, <1>3

LEMMA DeleteMeEffect ==
    ASSUME DbOK, NEW u, NEW b \in Answers(DeleteMe(u)), NEW t, Call(b, t)
    PROVE  /\ Called(b, t, {"deleted", "notfound"})
           /\ Untouched \/ UserGone(u)
           /\ b.status = "deleted" => UserGone(u)
           /\ b.status = "notfound" => u \notin db.users
<1>1. nextID \in Nat /\ db \in Rows
  BY DEF DbOK, IdsUsed
<1>2. CASE u \notin db.users
  <2>1. DeleteMe(u) = Answer("notfound", db)
    BY <1>2 DEF DeleteMe
  <2> QED
    BY <1>1, <1>2, <2>1, QuietCall DEF Called
<1>3. CASE u \in db.users
  <2> DEFINE gone == {x \in db.scheds : x.room \in {m.id : m \in {n \in db.rooms : n.user = u}}}
             rows == [users |-> db.users \ {u}, rooms |-> {m \in db.rooms : m.user # u},
                      devices |-> {d \in db.devices : d.user # u}, scheds |-> db.scheds \ gone,
                      periods |-> {p \in db.periods : \A x \in gone : p.sched # x.id}]
  <2>1. DeleteMe(u) = Answer("deleted", rows)
    BY <1>3 DEF DeleteMe
  <2>2. gone = {x \in db.scheds : RoomOf(u, x.room)}
    BY DEF RoomOf
  <2>3. db' = rows => UserGone(u)
    <3>1. db' = rows => nextID' \in {nextID, nextID + 1}
      BY <1>1, <2>1, CallFacts
    <3> HIDE DEF gone
    <3> QED
      BY <2>2, <3>1 DEF UserGone, Becomes
  <2> HIDE DEF rows
  <2> QED
    BY <1>1, <2>1, <2>3, CallFacts DEF Called, Untouched
<1> QED
  BY <1>2, <1>3

LEMMA CreateRoomEffect ==
    ASSUME DbOK, NEW u \in db.users, NEW n \in Nat \ {0}, NEW b \in Answers(CreateRoom(u, n)),
           NEW t, Call(b, t)
    PROVE  /\ Called(b, t, {"created", "conflict"})
           /\ Untouched \/ NewRoom(u, n)
           /\ b.status = "created" => NewRoom(u, n)
           /\ b.status = "conflict" => Untouched /\ \E m \in db.rooms : m.user = u /\ m.name = n
<1>1. nextID \in Nat /\ db \in Rows
  BY DEF DbOK, IdsUsed
<1>2. CASE \E m \in db.rooms : m.user = u /\ m.name = n
  <2>1. CreateRoom(u, n) = Answer("conflict", db)
    BY <1>2 DEF CreateRoom
  <2> QED
    BY <1>1, <1>2, <2>1, QuietCall DEF Called
<1>3. CASE ~\E m \in db.rooms : m.user = u /\ m.name = n
  <2> DEFINE x == [id |-> nextID, user |-> u, name |-> n, targets |-> FALSE]
             rows == [db EXCEPT !.rooms = @ \cup {x}]
  <2>1. CreateRoom(u, n) = Answer("created", rows)
    BY <1>3 DEF CreateRoom
  <2>2. rows = [users |-> db.users, rooms |-> db.rooms \cup {x}, devices |-> db.devices,
                scheds |-> db.scheds, periods |-> db.periods]
    BY <1>1, ExceptRows
  <2>3. rows # db
    <3>1. x.user = u /\ x.name = n /\ x \notin db.rooms
      BY <1>3
    <3>2. rows.rooms = db.rooms \cup {x}
      BY <2>2
    <3> QED
      BY <3>1, <3>2
  <2>4. db' = rows => NewRoom(u, n)
    <3>1. db' = rows => nextID' = nextID + 1
      BY <1>1, <2>1, <2>3, CallFacts
    <3> QED
      BY <1>3, <2>2, <3>1 DEF NewRoom, Becomes
  <2> HIDE DEF rows
  <2> QED
    BY <1>1, <2>1, <2>4, CallFacts DEF Called, Untouched
<1> QED
  BY <1>2, <1>3

LEMMA CreateDeviceEffect ==
    ASSUME DbOK, NEW u \in db.users, NEW r \in DOMAIN RoomDefs(u), NEW d \in DOMAIN DeviceDefs(u, r),
           NEW b \in Answers(CreateDevice(u, <<u, r, d>>, DeviceName(r, d), DeviceDefs(u, r)[d].caps)),
           NEW t, Call(b, t)
    PROVE  /\ Called(b, t, {"created", "conflict"})
           /\ Untouched \/ NewDevice(u, r, d)
           /\ b.status = "created" => NewDevice(u, r, d)
           /\ b.status = "conflict" =>
                Untouched /\ \E x \in db.devices :
                   x.hwID = <<u, r, d>> \/ (x.user = u /\ x.name = DeviceName(r, d))
<1> DEFINE h == <<u, r, d>>
           n == DeviceName(r, d)
           c == DeviceDefs(u, r)[d].caps
           taken == (\E x \in db.devices : x.hwID = h) \/ NameTaken(u, n, nextID)
<1>1. nextID \in Nat /\ db \in Rows
  BY DEF DbOK, IdsUsed
<1>2. CASE taken
  <2>1. CreateDevice(u, h, n, c) = Answer("conflict", db)
    BY <1>2 DEF CreateDevice
  <2>2. \E x \in db.devices : x.hwID = h \/ (x.user = u /\ x.name = n)
    BY <1>2 DEF NameTaken
  <2> QED
    BY <1>1, <2>1, <2>2, QuietCall DEF Called
<1>3. CASE ~taken
  <2> DEFINE x == [id |-> nextID, user |-> u, hwID |-> h, name |-> n, room |-> 0, caps |-> c]
             rows == [db EXCEPT !.devices = @ \cup {x}]
  <2>1. CreateDevice(u, h, n, c) = Answer("created", rows)
    BY <1>3 DEF CreateDevice
  <2>2. rows = [users |-> db.users, rooms |-> db.rooms, devices |-> db.devices \cup {x},
                scheds |-> db.scheds, periods |-> db.periods]
    BY <1>1, ExceptRows
  <2>3. rows # db
    <3>1. x.hwID = h /\ x \notin db.devices
      BY <1>3
    <3>2. rows.devices = db.devices \cup {x}
      BY <2>2
    <3> QED
      BY <3>1, <3>2
  <2>4. db' = rows => NewDevice(u, r, d)
    <3>1. db' = rows => nextID' = nextID + 1
      BY <1>1, <2>1, <2>3, CallFacts
    <3>2. db' = rows => Becomes(db.users, db.rooms, db.devices \cup {x}, db.scheds, db.periods)
      BY <2>2, <3>1 DEF Becomes
    <3> QED
      BY <1>3, <3>1, <3>2 DEF NewDevice
  <2> HIDE DEF rows
  <2> QED
    BY <1>1, <2>1, <2>4, CallFacts DEF Called, Untouched
<1> QED
  BY <1>2, <1>3

\* The request of user u for a device id moves x.
MovedBy(u, id, room, n, x) ==
    /\ room # 0 => RoomOf(u, room)
    /\ x \in db.devices /\ x.id = id /\ x.user = u
    /\ UpdateDevice(u, id, room, n) =
         Answer("ok", [users |-> db.users, rooms |-> db.rooms,
                       devices |-> (db.devices \ {x}) \cup {[x EXCEPT !.room = room, !.name = n]},
                       scheds |-> db.scheds, periods |-> db.periods])

\* What a conflict says of the devices of user u.
Refusable(u, id, room, n) ==
    \E x \in db.devices :
       /\ x.user = u
       /\ (x.id = id /\ x.room \notin {0, room}) \/ (x.id # id /\ x.name = n)

LEMMA UpdateDeviceAnswer ==
    ASSUME DbOK, NEW u, NEW id, NEW room \in Nat, NEW n \in Nat \X Nat
    PROVE  \/ /\ UpdateDevice(u, id, room, n) = Answer("notfound", db)
              /\ \/ ~\E x \in db.devices : x.id = id /\ x.user = u
                 \/ room # 0 /\ ~RoomOf(u, room)
           \/ /\ UpdateDevice(u, id, room, n) = Answer("conflict", db)
              /\ Refusable(u, id, room, n)
           \/ \E x \in db.devices : MovedBy(u, id, room, n, x)
<1> DEFINE ds == {d \in db.devices : d.id = id /\ d.user = u}
           refused == \/ \E d \in ds : d.room \notin {0, room} /\ HasCapabilityConflictAfterRemoval(d)
                      \/ NameTaken(u, n, id)
<1>1. CASE ds = {} \/ (room # 0 /\ ~RoomOf(u, room))
  BY <1>1 DEF UpdateDevice
<1>2. CASE ~(ds = {} \/ (room # 0 /\ ~RoomOf(u, room))) /\ refused
  <2>1. UpdateDevice(u, id, room, n) = Answer("conflict", db)
    BY <1>2 DEF UpdateDevice
  <2> QED
    BY <1>2, <2>1 DEF Refusable, NameTaken
<1>3. CASE ~(ds = {} \/ (room # 0 /\ ~RoomOf(u, room))) /\ ~refused
  <2>1. PICK x \in db.devices : x.id = id /\ x.user = u
    BY <1>3
  <2>2. ds = {x}
    BY <2>1 DEF DbOK, Unique
  <2> DEFINE ns == (db.devices \ ds) \cup {[d EXCEPT !.room = room, !.name = n] : d \in ds}
  <2>3. UpdateDevice(u, id, room, n) = Answer("ok", [db EXCEPT !.devices = ns])
    BY <1>3 DEF UpdateDevice
  <2>4. ns = (db.devices \ {x}) \cup {[x EXCEPT !.room = room, !.name = n]}
    BY <2>2
  <2> HIDE DEF ns
  <2>5. [db EXCEPT !.devices = ns] = [users |-> db.users, rooms |-> db.rooms, devices |-> ns,
                                       scheds |-> db.scheds, periods |-> db.periods]
    BY ExceptRows DEF DbOK
  <2>6. MovedBy(u, id, room, n, x)
    BY <1>3, <2>1, <2>3, <2>4, <2>5 DEF MovedBy
  <2> QED
    BY <2>6
<1> QED
  BY <1>1, <1>2, <1>3

LEMMA UpdateDeviceEffect ==
    ASSUME DbOK, NEW u, NEW id, NEW room \in Nat, NEW n \in Nat \X Nat,
           NEW b \in Answers(UpdateDevice(u, id, room, n)), NEW t, Call(b, t)
    PROVE  /\ Called(b, t, {"ok", "notfound", "conflict"})
           /\ Untouched \/ \E x \in db.devices : x.id = id /\ x.user = u /\ Moved(x, room, n)
           /\ b.status = "ok" => \E x \in db.devices : x.id = id /\ x.user = u /\ Moved(x, room, n)
           /\ b.status = "notfound" =>
                Untouched /\ \/ ~\E x \in db.devices : x.id = id /\ x.user = u
                             \/ room # 0 /\ ~RoomOf(u, room)
           /\ b.status = "conflict" =>
                Untouched /\ Refusable(u, id, room, n)
<1>1. nextID \in Nat
  BY DEF DbOK, IdsUsed
<1>2. CASE /\ UpdateDevice(u, id, room, n) = Answer("notfound", db)
           /\ \/ ~\E x \in db.devices : x.id = id /\ x.user = u
              \/ room # 0 /\ ~RoomOf(u, room)
  BY <1>1, <1>2, QuietCall DEF Called
<1>3. CASE /\ UpdateDevice(u, id, room, n) = Answer("conflict", db)
           /\ Refusable(u, id, room, n)
  BY <1>1, <1>3, QuietCall DEF Called
<1>4. ASSUME NEW x \in db.devices, MovedBy(u, id, room, n, x)
      PROVE  /\ Called(b, t, {"ok"})
             /\ Untouched \/ Moved(x, room, n)
             /\ b.status = "ok" => Moved(x, room, n)
             /\ x.id = id /\ x.user = u
  <2> DEFINE rows == [users |-> db.users, rooms |-> db.rooms,
                      devices |-> (db.devices \ {x}) \cup {[x EXCEPT !.room = room, !.name = n]},
                      scheds |-> db.scheds, periods |-> db.periods]
  <2>1. /\ UpdateDevice(u, id, room, n) = Answer("ok", rows) /\ x.id = id /\ x.user = u
        /\ room # 0 => RoomOf(u, room)
    BY <1>4 DEF MovedBy
  <2>2. db' = rows => nextID' \in {nextID, nextID + 1}
    BY <1>1, <2>1, CallFacts
  <2>3. db' = rows => Moved(x, room, n)
    BY <2>1, <2>2 DEF Moved, Becomes
  <2> HIDE DEF rows
  <2> QED
    BY <1>1, <2>1, <2>3, CallFacts DEF Called, Untouched
<1>5. CASE \E x \in db.devices : MovedBy(u, id, room, n, x)
  <2>1. PICK x \in db.devices : MovedBy(u, id, room, n, x)
    BY <1>5
  <2>2. /\ Called(b, t, {"ok"}) /\ x.id = id /\ x.user = u
        /\ Untouched \/ Moved(x, room, n)
        /\ b.status = "ok" => Moved(x, room, n)
    BY <1>4, <2>1
  <2>3. Called(b, t, {"ok", "notfound", "conflict"}) /\ b.status \in {"ok", "failed"}
    BY <2>2 DEF Called
  <2> QED
    BY <2>2, <2>3
<1> QED
  BY <1>2, <1>3, <1>5, UpdateDeviceAnswer

LEMMA UpdateDesiredStateAnswer ==
    ASSUME DbOK, NEW u, NEW id, NEW on \in BOOLEAN
    PROVE  \/ UpdateDesiredState(u, id, on) = Answer("notfound", db) /\ ~RoomOf(u, id)
           \/ /\ UpdateDesiredState(u, id, on) = Answer("unprocessable", db)
              /\ ~Capable(DevicesIn(id))
           \/ /\ RoomOf(u, id)
              /\ UpdateDesiredState(u, id, on) =
                   Answer("ok", [users |-> db.users,
                                 rooms |-> {IF m.id = id THEN [m EXCEPT !.targets = on] ELSE m : m \in db.rooms},
                                 devices |-> db.devices, scheds |-> db.scheds, periods |-> db.periods])
<1> DEFINE ms == {IF m.id = id THEN [m EXCEPT !.targets = on] ELSE m : m \in db.rooms}
<1>1. [db EXCEPT !.rooms = ms] = [users |-> db.users, rooms |-> ms, devices |-> db.devices,
                                   scheds |-> db.scheds, periods |-> db.periods]
  BY ExceptRows DEF DbOK
<1>2. CASE ~RoomOf(u, id)
  BY <1>2 DEF UpdateDesiredState
<1>3. CASE RoomOf(u, id) /\ on /\ ~Capable(DevicesIn(id))
  BY <1>3 DEF UpdateDesiredState
<1>4. CASE RoomOf(u, id) /\ ~(on /\ ~Capable(DevicesIn(id)))
  <2>1. UpdateDesiredState(u, id, on) = Answer("ok", [db EXCEPT !.rooms = ms])
    BY <1>4 DEF UpdateDesiredState
  <2> QED
    BY <1>1, <1>4, <2>1
<1> QED
  BY <1>2, <1>3, <1>4

LEMMA UpdateDesiredStateEffect ==
    ASSUME DbOK, NEW u, NEW id, NEW on \in BOOLEAN, NEW b \in Answers(UpdateDesiredState(u, id, on)),
           NEW t, Call(b, t)
    PROVE  /\ Called(b, t, {"ok", "notfound", "unprocessable"})
           /\ Untouched \/ (RoomOf(u, id) /\ Targeted(id, on))
           /\ b.status = "ok" => RoomOf(u, id) /\ Targeted(id, on)
           /\ b.status = "notfound" => Untouched /\ ~RoomOf(u, id)
           /\ b.status = "unprocessable" => Untouched /\ ~Capable(DevicesIn(id))
<1> DEFINE rows == [users |-> db.users,
                    rooms |-> {IF m.id = id THEN [m EXCEPT !.targets = on] ELSE m : m \in db.rooms},
                    devices |-> db.devices, scheds |-> db.scheds, periods |-> db.periods]
<1>1. nextID \in Nat
  BY DEF DbOK, IdsUsed
<1>2. CASE UpdateDesiredState(u, id, on) = Answer("notfound", db) /\ ~RoomOf(u, id)
  BY <1>1, <1>2, QuietCall DEF Called
<1>3. CASE /\ UpdateDesiredState(u, id, on) = Answer("unprocessable", db)
           /\ ~Capable(DevicesIn(id))
  BY <1>1, <1>3, QuietCall DEF Called
<1>4. CASE RoomOf(u, id) /\ UpdateDesiredState(u, id, on) = Answer("ok", rows)
  <2>1. db' = rows => nextID' \in {nextID, nextID + 1}
    BY <1>1, <1>4, CallFacts
  <2>2. db' = rows => Targeted(id, on)
    BY <2>1 DEF Targeted, Becomes
  <2> HIDE DEF rows
  <2> QED
    BY <1>1, <1>4, <2>2, CallFacts DEF Called, Untouched
<1> QED
  BY <1>2, <1>3, <1>4, UpdateDesiredStateAnswer

LEMMA CreateScheduleEffect ==
    ASSUME DbOK, NEW u, NEW id, NEW b \in Answers(CreateSchedule(u, id)), NEW t, Call(b, t)
    PROVE  /\ Called(b, t, {"created", "conflict", "notfound"})
           /\ Untouched \/ NewSched(id)
           /\ b.status = "created" => NewSched(id)
           /\ b.status = "conflict" => Untouched /\ RoomOf(u, id) /\ \E s \in db.scheds : s.room = id
           /\ b.status = "notfound" => Untouched /\ ~RoomOf(u, id)
<1>1. nextID \in Nat /\ db \in Rows /\ \A s \in db.scheds : s.name = 1
  BY DEF DbOK, IdsUsed, Unique
<1>2. CASE ~RoomOf(u, id)
  <2>1. CreateSchedule(u, id) = Answer("notfound", db)
    BY <1>2 DEF CreateSchedule
  <2> QED
    BY <1>1, <1>2, <2>1, QuietCall DEF Called
<1>3. CASE RoomOf(u, id) /\ \E s \in db.scheds : s.room = id
  <2>1. CreateSchedule(u, id) = Answer("conflict", db)
    BY <1>1, <1>3 DEF CreateSchedule
  <2> QED
    BY <1>1, <1>3, <2>1, QuietCall DEF Called
<1>4. CASE RoomOf(u, id) /\ ~\E s \in db.scheds : s.room = id
  <2> DEFINE x == [id |-> nextID, room |-> id, name |-> 1, active |-> FALSE]
             rows == [db EXCEPT !.scheds = @ \cup {x}]
  <2>1. CreateSchedule(u, id) = Answer("created", rows)
    BY <1>4 DEF CreateSchedule
  <2>2. rows = [users |-> db.users, rooms |-> db.rooms, devices |-> db.devices,
                scheds |-> db.scheds \cup {x}, periods |-> db.periods]
    BY <1>1, ExceptRows
  <2>3. rows # db
    <3>1. x.room = id /\ x \notin db.scheds
      BY <1>4
    <3>2. rows.scheds = db.scheds \cup {x}
      BY <2>2
    <3> QED
      BY <3>1, <3>2
  <2>4. db' = rows => NewSched(id)
    <3>1. db' = rows => nextID' = nextID + 1
      BY <1>1, <2>1, <2>3, CallFacts
    <3>2. \E m \in db.rooms : m.id = id
      BY <1>4 DEF RoomOf
    <3> QED
      BY <1>4, <2>2, <3>1, <3>2 DEF NewSched, Becomes
  <2> HIDE DEF rows
  <2> QED
    BY <1>1, <2>1, <2>4, CallFacts DEF Called, Untouched
<1> QED
  BY <1>2, <1>3, <1>4

LEMMA CreatePeriodAnswer ==
    ASSUME DbOK, NEW s, NEW p, NEW k
    PROVE  \/ CreatePeriod(s, p, k) = Answer("notfound", db) /\ ~\E x \in db.scheds : x.id = s
           \/ /\ CreatePeriod(s, p, k) = Answer("conflict", db)
              /\ \E q \in db.periods : q.sched = s /\ (q.p = p \/ q.p = 0 \/ p = 0)
           \/ /\ \E x \in db.scheds : x.id = s
              /\ CreatePeriod(s, p, k) =
                   Answer("created", [users |-> db.users, rooms |-> db.rooms, devices |-> db.devices,
                                      scheds |-> db.scheds,
                                      periods |-> db.periods \cup {[sched |-> s, p |-> p, served |-> k]}])
<1> DEFINE ps == db.periods \cup {[sched |-> s, p |-> p, served |-> k]}
           taken == \E q \in PeriodsOf(s) : q.p = p \/ q.p = 0 \/ p = 0
<1>1. [db EXCEPT !.periods = ps] = [users |-> db.users, rooms |-> db.rooms, devices |-> db.devices,
                                     scheds |-> db.scheds, periods |-> ps]
  BY ExceptRows DEF DbOK
<1>2. CASE ~\E x \in db.scheds : x.id = s
  BY <1>2 DEF CreatePeriod
<1>3. CASE (\E x \in db.scheds : x.id = s) /\ taken
  <2>1. CreatePeriod(s, p, k) = Answer("conflict", db)
    BY <1>3 DEF CreatePeriod
  <2> QED
    BY <1>3, <2>1 DEF PeriodsOf
<1>4. CASE (\E x \in db.scheds : x.id = s) /\ ~taken
  <2>1. CreatePeriod(s, p, k) = Answer("created", [db EXCEPT !.periods = ps])
    BY <1>4 DEF CreatePeriod
  <2> QED
    BY <1>1, <1>4, <2>1
<1> QED
  BY <1>2, <1>3, <1>4

LEMMA CreatePeriodEffect ==
    ASSUME DbOK, NEW s, NEW p \in Nat \ {0},
           NEW b \in Answers(CreatePeriod(s, p, TRUE)), NEW t, Call(b, t)
    PROVE  /\ Called(b, t, {"created", "conflict", "notfound"})
           /\ Untouched \/ \E x \in db.scheds : x.id = s /\ NewPeriod(x, p, TRUE)
           /\ b.status = "created" => \E x \in db.scheds : x.id = s /\ NewPeriod(x, p, TRUE)
           /\ b.status = "conflict" =>
                Untouched /\ \E q \in db.periods : q.sched = s /\ q.p \in {0, p}
           /\ b.status = "notfound" => Untouched /\ ~\E x \in db.scheds : x.id = s
<1> DEFINE rows == [users |-> db.users, rooms |-> db.rooms, devices |-> db.devices,
                    scheds |-> db.scheds,
                    periods |-> db.periods \cup {[sched |-> s, p |-> p, served |-> TRUE]}]
<1>1. nextID \in Nat
  BY DEF DbOK, IdsUsed
<1>2. CASE CreatePeriod(s, p, TRUE) = Answer("notfound", db) /\ ~\E x \in db.scheds : x.id = s
  <2>1. b \in Answers(Answer("notfound", db))
    BY <1>2, Zenon
  <2>2. /\ sim' = t /\ calm' = (calm /\ b.status # "failed") /\ b.status \in {"notfound", "failed"}
        /\ Untouched
    BY <1>1, <2>1, QuietCall
  <2> QED
    BY <1>2, <2>2 DEF Called
<1>3. CASE /\ CreatePeriod(s, p, TRUE) = Answer("conflict", db)
           /\ \E q \in db.periods : q.sched = s /\ (q.p = p \/ q.p = 0 \/ p = 0)
  <2>1. b \in Answers(Answer("conflict", db))
    BY <1>3, Zenon
  <2>2. /\ sim' = t /\ calm' = (calm /\ b.status # "failed") /\ b.status \in {"conflict", "failed"}
        /\ Untouched
    BY <1>1, <2>1, QuietCall
  <2> QED
    BY <1>3, <2>2 DEF Called
<1>4. CASE (\E x \in db.scheds : x.id = s) /\ CreatePeriod(s, p, TRUE) = Answer("created", rows)
  <2>1. PICK x \in db.scheds : x.id = s
    BY <1>4
  <2>2. db' = rows => nextID' \in {nextID, nextID + 1}
    BY <1>1, <1>4, CallFacts
  <2>3. db' = rows => NewPeriod(x, p, TRUE)
    BY <2>1, <2>2 DEF NewPeriod, Becomes
  <2> HIDE DEF rows
  <2>4. /\ Called(b, t, {"created"})
        /\ Untouched \/ NewPeriod(x, p, TRUE)
        /\ b.status = "created" => NewPeriod(x, p, TRUE)
    BY <1>1, <1>4, <2>3, CallFacts DEF Called, Untouched
  <2> QED
    BY <2>1, <2>4 DEF Called
<1> QED
  BY <1>2, <1>3, <1>4, CreatePeriodAnswer

LEMMA ActivateEffect ==
    ASSUME DbOK, NEW s \in db.scheds, NEW b \in Answers(Activate(s.id)), NEW t, Call(b, t)
    PROVE  /\ Called(b, t, {"ok", "already", "incapable"})
           /\ Untouched \/ SchedSet(s, TRUE)
           /\ b.status = "ok" => SchedSet(s, TRUE)
           /\ b.status = "already" => Untouched /\ s.active = TRUE
           /\ b.status = "incapable" =>
                Untouched /\ (~Capable(DevicesIn(s.room)) \/ Unserved(s.id))
<1> DEFINE refused(x) == (PeriodsOf(s.id) # {} /\ ~Capable(DevicesIn(x.room))) \/ Unserved(s.id)
<1>1. nextID \in Nat /\ db \in Rows /\ s.active \in BOOLEAN
  BY RowsFields DEF DbOK, IdsUsed, Fields, SchedRow
<1>2. (\E x \in db.scheds : x.id = s.id) /\ (CHOOSE x \in db.scheds : x.id = s.id) = s
  BY DEF DbOK, Unique
<1>3. CASE s.active = TRUE
  <2>1. Activate(s.id) = Answer("already", db)
    BY <1>2, <1>3 DEF Activate
  <2>2. b \in Answers(Answer("already", db))
    BY <2>1
  <2>3. /\ sim' = t /\ calm' = (calm /\ b.status # "failed") /\ b.status \in {"already", "failed"}
        /\ Untouched
    BY <1>1, <2>2, QuietCall
  <2> QED
    BY <1>3, <2>3 DEF Called
<1>4. CASE s.active = FALSE /\ refused(s)
  <2>1. Activate(s.id) = Answer("incapable", db)
    BY <1>2, <1>4 DEF Activate
  <2>2. b \in Answers(Answer("incapable", db))
    BY <2>1
  <2>3. /\ sim' = t /\ calm' = (calm /\ b.status # "failed") /\ b.status \in {"incapable", "failed"}
        /\ Untouched
    BY <1>1, <2>2, QuietCall
  <2> QED
    BY <1>4, <2>3 DEF Called
<1>5. CASE s.active = FALSE /\ ~refused(s)
  <2> DEFINE ss == {IF x.room = s.room THEN [x EXCEPT !.active = (x = s)] ELSE x : x \in db.scheds}
             y == [s EXCEPT !.active = TRUE]
             rows == [db EXCEPT !.scheds = ss]
             set(row) == {IF x.room = row.room THEN [x EXCEPT !.active = (x = row)] ELSE x : x \in db.scheds}
             row == CHOOSE x \in db.scheds : x.id = s.id
  <2>1. Activate(s.id) = Answer("ok", rows)
    <3>1. Activate(s.id) = Answer("ok", [db EXCEPT !.scheds = set(row)])
      <4>1. ~row.active /\ ~refused(row)
        BY <1>2, <1>5
      <4> QED
        BY <1>2, <4>1, Zenon DEF Activate
    <3>2. row = s
      BY <1>2
    <3> HIDE DEF row, set
    <3>3. set(row) = set(s)
      BY <3>2
    <3>4. set(s) = ss
      BY DEF set
    <3> QED
      BY <3>1, <3>3, <3>4
  <2>2. ss = (db.scheds \ {s}) \cup {y}
    <3>1. \A x \in db.scheds : x.room = s.room <=> x = s
      BY DEF DbOK, Unique
    <3>2. [s EXCEPT !.active = (s = s)] = y
      OBVIOUS
    <3> HIDE DEF y
    <3> QED
      BY <3>1, <3>2
  <2> HIDE DEF ss
  <2>3. rows = [users |-> db.users, rooms |-> db.rooms, devices |-> db.devices, scheds |-> ss,
                periods |-> db.periods]
    BY <1>1, ExceptRows
  <2>4. db' = rows => SchedSet(s, TRUE)
    <3>1. db' = rows => nextID' \in {nextID, nextID + 1}
      BY <1>1, <2>1, CallFacts
    <3> QED
      BY <2>2, <2>3, <3>1 DEF SchedSet, Becomes
  <2> HIDE DEF rows
  <2>5. b \in Answers(Answer("ok", rows))
    BY <2>1
  <2>6. /\ sim' = t /\ calm' = (calm /\ b.status # "failed") /\ b.status \in {"ok", "failed"}
        /\ b.status = "ok" => db' = rows
        /\ db' \in {db, rows}
        /\ db' = db => nextID' = nextID
    BY <1>1, <2>5, CallFacts
  <2> QED
    BY <2>4, <2>6 DEF Called, Untouched
<1> QED
  BY <1>1, <1>3, <1>4, <1>5

-----------------------------------------------------------------------------
(* The edits as steps of the database. *)

EditOfRoom(m) == RoomGone(m) \/ Renamed(m) \/ Targeted(m.id, FALSE)
EditOfDevice(d) == DeviceGone(d) \/ \E to \in Nat, n \in Nat \X Nat : Moved(d, to, n)
EditOfSched(s) ==
    \/ SchedSet(s, FALSE) \/ SchedGone(s) \/ \E k \in BOOLEAN : NewPeriod(s, 0, k)
    \/ \E p \in db.periods : p.sched = s.id /\ PeriodGone(p)

EditStep(u) ==
    \/ \E m \in db.rooms : m.user = u /\ EditOfRoom(m)
    \/ \E d \in db.devices : d.user = u /\ EditOfDevice(d)
    \/ \E s \in db.scheds : RoomOf(u, s.room) /\ EditOfSched(s)

LEMMA DeleteRoomEffect ==
    ASSUME DbOK, NEW u, db' \in Edited("deleteRoom", u), nextID' = nextID
    PROVE  EditStep(u)
<1> DEFINE ids(m) == {s.id : s \in {x \in db.scheds : x.room = m.id}}
           ds(m) == {IF d.room = m.id THEN [d EXCEPT !.room = 0] ELSE d : d \in db.devices}
<1>1. db \in Rows
  BY DEF DbOK
<1>2. PICK m \in {n \in db.rooms : n.user = u} : db' = WithoutRoom(m)
  BY DEF Edited
<1> DEFINE X == {s \in db.scheds : s.id \notin ids(m)}
           Y == {p \in db.periods : p.sched \notin ids(m)}
           z == [users |-> db.users, rooms |-> db.rooms, devices |-> db.devices, scheds |-> X,
                 periods |-> Y]
<1>3. WithoutSched(ids(m)) = z
  <2> HIDE DEF ids
  <2> QED
    BY <1>1, ExceptRows DEF WithoutSched
<1>5. X = {s \in db.scheds : s.room # m.id}
  BY DEF DbOK, Unique
<1>6. Y = {p \in db.periods : \A s \in db.scheds : s.id = p.sched => s.room # m.id}
  OBVIOUS
<1> HIDE DEF X, Y
<1>7. z.rooms = db.rooms /\ z.devices = db.devices
  OBVIOUS
<1>8. db' = [z EXCEPT !.rooms = db.rooms \ {m}, !.devices = ds(m)]
  <2>1. db' = [z EXCEPT !.rooms = @ \ {m},
                 !.devices = {IF d.room = m.id THEN [d EXCEPT !.room = 0] ELSE d : d \in @}]
    <3> HIDE DEF z
    <3> QED
      BY <1>2, <1>3 DEF WithoutRoom
  <2> HIDE DEF z
  <2>2. [z EXCEPT !.rooms = @ \ {m},
           !.devices = {IF d.room = m.id THEN [d EXCEPT !.room = 0] ELSE d : d \in @}] =
        [z EXCEPT !.rooms = z.rooms \ {m},
           !.devices = {IF d.room = m.id THEN [d EXCEPT !.room = 0] ELSE d : d \in z.devices}]
    OBVIOUS
  <2> QED
    BY <1>7, <2>1, <2>2
<1> HIDE DEF ds
<1>9. db' = [users |-> db.users, rooms |-> db.rooms \ {m}, devices |-> ds(m), scheds |-> X,
             periods |-> Y]
  <2> DEFINE y == [z EXCEPT !.rooms = db.rooms \ {m}, !.devices = ds(m)]
  <2>1. /\ y = [f \in {"users", "rooms", "devices", "scheds", "periods"} |-> y[f]]
        /\ y.users = db.users /\ y.rooms = db.rooms \ {m} /\ y.devices = ds(m) /\ y.scheds = X
        /\ y.periods = Y
    OBVIOUS
  <2> HIDE DEF y, z
  <2>2. db' = y
    BY <1>8 DEF y
  <2>3. y = [users |-> db.users, rooms |-> db.rooms \ {m}, devices |-> ds(m), scheds |-> X,
             periods |-> Y]
    BY <2>1
  <2> QED
    BY <2>2, <2>3
<1>10. RoomGone(m)
  BY <1>2, <1>5, <1>6, <1>9 DEF RoomGone, Becomes, ds
<1> QED
  BY <1>2, <1>10 DEF EditStep, EditOfRoom

LEMMA RenameRoomEffect ==
    ASSUME DbOK, NEW u, db' \in Edited("renameRoom", u), nextID' = nextID
    PROVE  EditStep(u)
<1>1. PICK m \in {n \in db.rooms : n.user = u} :
        db' = [db EXCEPT !.rooms = (@ \ {m}) \cup {[m EXCEPT !.name = 0]}]
  BY DEF Edited
<1>2. db' = [users |-> db.users, rooms |-> (db.rooms \ {m}) \cup {[m EXCEPT !.name = 0]},
             devices |-> db.devices, scheds |-> db.scheds, periods |-> db.periods]
  BY <1>1, ExceptRows DEF DbOK
<1>3. Renamed(m)
  BY <1>1, <1>2 DEF Renamed, Becomes
<1> QED
  BY <1>1, <1>3 DEF EditStep, EditOfRoom

LEMMA UpdatedDevice ==
    ASSUME DbOK, NEW u, NEW id, NEW to \in Nat, NEW n \in Nat \X Nat,
           db' = UpdateDevice(u, id, to, n).db, db' # db, nextID' = nextID
    PROVE  EditStep(u)
<1>1. \A st, rows : Answer(st, rows).db = rows
  BY DEF Answer
<1>2. PICK x \in db.devices : MovedBy(u, id, to, n, x)
  BY <1>1, UpdateDeviceAnswer
<1>3. Moved(x, to, n) /\ x.user = u
  BY <1>1, <1>2 DEF MovedBy, Moved, Becomes
<1> QED
  BY <1>3 DEF EditStep, EditOfDevice

LEMMA MoveDeviceEffect ==
    ASSUME DbOK, NEW u, db' \in Edited("moveDevice", u) \ {db}, nextID' = nextID
    PROVE  EditStep(u)
<1>1. PICK d \in {x \in db.devices : x.user = u},
           to \in {0} \cup {m.id : m \in {n \in db.rooms : n.user = u}} :
        db' = UpdateDevice(u, d.id, to, d.name).db
  BY DEF Edited
<1>2. to \in Nat /\ d.name \in Nat \X Nat
  BY <1>1, RowsFields DEF DbOK, Fields, RoomRow, DeviceRow
<1> QED
  BY <1>1, <1>2, UpdatedDevice

LEMMA RenameDeviceEffect ==
    ASSUME DbOK, NEW u \in Users, db' \in Edited("renameDevice", u) \ {db}, nextID' = nextID
    PROVE  EditStep(u)
<1>1. PICK d \in {x \in db.devices : x.user = u} :
        \E n \in DeviceNames(u) \cup {<<0, d.id>>} : db' = UpdateDevice(u, d.id, d.room, n).db
  <2> DEFINE devs == {d \in db.devices : d.user = u}
  <2>1. Edited("renameDevice", u) =
          {UpdateDevice(u, d.id, d.room, n).db : d \in devs, n \in DeviceNames(u)} \cup
          {UpdateDevice(u, d.id, d.room, <<0, d.id>>).db : d \in devs}
    BY SMTT(30) DEF Edited
  <2>2. CASE db' \in {UpdateDevice(u, d.id, d.room, n).db : d \in devs, n \in DeviceNames(u)}
    BY <2>2
  <2>3. CASE db' \in {UpdateDevice(u, d.id, d.room, <<0, d.id>>).db : d \in devs}
    BY <2>3
  <2> QED
    BY <2>1, <2>2, <2>3
<1>2. PICK n \in DeviceNames(u) \cup {<<0, d.id>>} : db' = UpdateDevice(u, d.id, d.room, n).db
  BY <1>1
<1>3. d.room \in Nat /\ d.id \in Nat
  BY <1>1, RowsFields DEF DbOK, Fields, DeviceRow
<1>4. n \in Nat \X Nat
  BY <1>3, RoomDefsType, DeviceDefsType DEF DeviceNames, DeviceName
<1> QED
  BY <1>2, <1>3, <1>4, UpdatedDevice

LEMMA DeleteDeviceEffect ==
    ASSUME DbOK, NEW u, db' \in Edited("deleteDevice", u), nextID' = nextID
    PROVE  EditStep(u)
<1>1. PICK d \in {x \in db.devices : x.user = u} : db' = [db EXCEPT !.devices = @ \ {d}]
  BY DEF Edited
<1>2. db' = [users |-> db.users, rooms |-> db.rooms, devices |-> db.devices \ {d},
             scheds |-> db.scheds, periods |-> db.periods]
  BY <1>1, ExceptRows DEF DbOK
<1>3. DeviceGone(d)
  BY <1>1, <1>2 DEF DeviceGone, Becomes
<1> QED
  BY <1>1, <1>3 DEF EditStep, EditOfDevice

LEMMA ClearTargetsEffect ==
    ASSUME DbOK, NEW u, db' \in Edited("clearTargets", u) \ {db}, nextID' = nextID
    PROVE  EditStep(u)
<1>1. PICK m \in {n \in db.rooms : n.user = u} : db' = UpdateDesiredState(u, m.id, FALSE).db
  <2>1. Edited("clearTargets", u) =
          {UpdateDesiredState(u, m.id, FALSE).db : m \in {n \in db.rooms : n.user = u}}
    BY SMTT(30) DEF Edited
  <2> QED
    BY <2>1, Zenon
<1>2. \A st, rows : Answer(st, rows).db = rows
  BY DEF Answer
<1>3. db' # db
  OBVIOUS
<1>4. db' = [users |-> db.users,
             rooms |-> {IF n.id = m.id THEN [n EXCEPT !.targets = FALSE] ELSE n : n \in db.rooms},
             devices |-> db.devices, scheds |-> db.scheds, periods |-> db.periods]
  <2> DEFINE ms == {IF n.id = m.id THEN [n EXCEPT !.targets = FALSE] ELSE n : n \in db.rooms}
             rows == [users |-> db.users, rooms |-> ms, devices |-> db.devices,
                      scheds |-> db.scheds, periods |-> db.periods]
  <2>1. \/ UpdateDesiredState(u, m.id, FALSE) = Answer("notfound", db)
        \/ UpdateDesiredState(u, m.id, FALSE) = Answer("unprocessable", db)
        \/ UpdateDesiredState(u, m.id, FALSE) = Answer("ok", rows)
    BY UpdateDesiredStateAnswer, Zenon
  <2> HIDE DEF rows
  <2>2. db' = rows
    BY <1>1, <1>2, <1>3, <2>1
  <2> QED
    BY <2>2 DEF rows
<1>5. Targeted(m.id, FALSE)
  BY <1>4 DEF Targeted, Becomes
<1> QED
  BY <1>1, <1>5 DEF EditStep, EditOfRoom

LEMMA DeactivateEffect ==
    ASSUME DbOK, NEW u, db' \in Edited("deactivate", u), nextID' = nextID
    PROVE  EditStep(u)
<1>1. PICK s \in {x \in db.scheds : RoomOf(u, x.room)} :
        db' = [db EXCEPT !.scheds = (@ \ {s}) \cup {[s EXCEPT !.active = FALSE]}]
  BY DEF Edited
<1>2. db' = [users |-> db.users, rooms |-> db.rooms, devices |-> db.devices,
             scheds |-> (db.scheds \ {s}) \cup {[s EXCEPT !.active = FALSE]}, periods |-> db.periods]
  BY <1>1, ExceptRows DEF DbOK
<1>3. SchedSet(s, FALSE)
  BY <1>1, <1>2 DEF SchedSet, Becomes
<1> QED
  BY <1>1, <1>3 DEF EditStep, EditOfSched

LEMMA DeleteScheduleEffect ==
    ASSUME DbOK, NEW u, db' \in Edited("deleteSchedule", u), nextID' = nextID
    PROVE  EditStep(u)
<1>1. PICK s \in {x \in db.scheds : RoomOf(u, x.room)} : db' = WithoutSched({s.id})
  <2>1. Edited("deleteSchedule", u) =
          {WithoutSched({s.id}) : s \in {x \in db.scheds : RoomOf(u, x.room)}}
    BY SMTT(30) DEF Edited
  <2> QED
    BY <2>1
<1>2. {x \in db.scheds : x.id \notin {s.id}} = db.scheds \ {s}
  BY <1>1 DEF DbOK, Unique
<1>3. {p \in db.periods : p.sched \notin {s.id}} = {p \in db.periods : p.sched # s.id}
  OBVIOUS
<1>4. db' = [users |-> db.users, rooms |-> db.rooms, devices |-> db.devices,
             scheds |-> db.scheds \ {s}, periods |-> {p \in db.periods : p.sched # s.id}]
  <2> DEFINE X == {x \in db.scheds : x.id \notin {s.id}}
             Y == {p \in db.periods : p.sched \notin {s.id}}
  <2>1. db' = [db EXCEPT !.scheds = X, !.periods = Y]
    BY <1>1 DEF WithoutSched
  <2> HIDE DEF X, Y
  <2>2. db' = [users |-> db.users, rooms |-> db.rooms, devices |-> db.devices, scheds |-> X,
               periods |-> Y]
    BY <2>1, ExceptRows DEF DbOK
  <2> QED
    BY <1>2, <1>3, <2>2 DEF X, Y
<1>5. SchedGone(s)
  BY <1>1, <1>4 DEF SchedGone, Becomes
<1> QED
  BY <1>1, <1>5 DEF EditStep, EditOfSched

LEMMA DeletePeriodEffect ==
    ASSUME DbOK, NEW u, db' \in Edited("deletePeriod", u), nextID' = nextID
    PROVE  EditStep(u)
<1>1. PICK p \in db.periods, s \in {x \in db.scheds : RoomOf(u, x.room)} :
        p.sched = s.id /\ db' = [db EXCEPT !.periods = @ \ {p}]
  BY DEF Edited
<1>2. db' = [users |-> db.users, rooms |-> db.rooms, devices |-> db.devices, scheds |-> db.scheds,
             periods |-> db.periods \ {p}]
  BY <1>1, ExceptRows DEF DbOK
<1>3. PeriodGone(p)
  BY <1>2 DEF PeriodGone, Becomes
<1> QED
  BY <1>1, <1>3 DEF EditStep, EditOfSched

LEMMA OwnPeriodEffect ==
    ASSUME DbOK, NEW u, db' \in Edited("ownPeriod", u) \ {db}, nextID' = nextID
    PROVE  EditStep(u)
<1>1. PICK s \in {x \in db.scheds : RoomOf(u, x.room)}, k \in BOOLEAN :
        db' = CreatePeriod(s.id, 0, k).db
  BY DEF Edited
<1>2. \A st, rows : Answer(st, rows).db = rows
  BY DEF Answer
<1>3. db' # db
  OBVIOUS
<1>4. db' = [users |-> db.users, rooms |-> db.rooms, devices |-> db.devices, scheds |-> db.scheds,
             periods |-> db.periods \cup {[sched |-> s.id, p |-> 0, served |-> k]}]
  BY <1>1, <1>2, <1>3, CreatePeriodAnswer
<1>5. NewPeriod(s, 0, k)
  BY <1>1, <1>4 DEF NewPeriod, Becomes
<1> QED
  BY <1>1, <1>5 DEF EditStep, EditOfSched

LEMMA EditEffect ==
    ASSUME DbOK, NEW u \in Users, Edit(u)
    PROVE  EditStep(u) /\ nextID' = nextID /\ sim' = sim /\ touched' = touched \cup {u}
<1>1. PICK kind \in Edits : db' \in Edited(kind, u) \ {db}
  BY DEF Edit
<1>2. kind \in {"deleteRoom", "renameRoom", "moveDevice", "renameDevice", "deleteDevice",
                "clearTargets", "deactivate", "deleteSchedule", "deletePeriod", "ownPeriod"}
  BY ProvisioningAssumption
<1>3. nextID' = nextID
  BY DEF Edit
<1>4. EditStep(u)
  BY <1>1, <1>2, <1>3, DeleteRoomEffect, RenameRoomEffect, MoveDeviceEffect, RenameDeviceEffect,
     DeleteDeviceEffect, ClearTargetsEffect, DeactivateEffect, DeleteScheduleEffect, DeletePeriodEffect, OwnPeriodEffect
<1> QED
  BY <1>4 DEF Edit

-----------------------------------------------------------------------------
(* Every step keeps the database consistent and the cursor inside the configuration. *)

Base ==
    /\ DbOK /\ Cursor(sim)
    /\ sim.pc \in LoggedIn => sim.u \in db.users
    /\ creds \subseteq Users /\ skipped \subseteq Users /\ touched \subseteq Users
    /\ calm \in BOOLEAN

\* What a call of Run for user u does to the database.
RunDb(u) ==
    \/ Untouched \/ NewUser(u)
    \/ \E n \in Nat \ {0} : NewRoom(u, n)
    \/ \E r \in DOMAIN RoomDefs(u) : \E d \in DOMAIN DeviceDefs(u, r) : NewDevice(u, r, d)
    \/ \E x \in db.devices, room \in Nat, n \in Nat \X Nat : x.user = u /\ Moved(x, room, n)
    \/ \E id : Targeted(id, TRUE)
    \/ \E id : NewSched(id)
    \/ \E s \in db.scheds : SchedSet(s, TRUE)
    \/ \E s \in db.scheds, p \in Nat : NewPeriod(s, p, TRUE)

LEMMA RunDbKeeps ==
    ASSUME DbOK, NEW u, RunDb(u)
    PROVE  DbOK' /\ db.users \subseteq db'.users
<1>1. CASE Untouched
  BY <1>1 DEF Untouched, DbOK, IdsUsed, Unique, Referenced, Configured
<1>2. CASE NewUser(u)
  BY <1>2, NewUserKeeps, BecomesFields DEF NewUser
<1>3. ASSUME NEW n, NewRoom(u, n) PROVE DbOK' /\ db.users \subseteq db'.users
  BY <1>3, NewRoomKeeps, BecomesFields DEF NewRoom
<1>4. ASSUME NEW r, NEW d, NewDevice(u, r, d) PROVE DbOK' /\ db.users \subseteq db'.users
  BY <1>4, NewDeviceKeeps, BecomesFields DEF NewDevice
<1>5. ASSUME NEW x, NEW room, NEW n, Moved(x, room, n) PROVE DbOK' /\ db.users \subseteq db'.users
  BY <1>5, MovedKeeps, BecomesFields DEF Moved
<1>6. ASSUME NEW id, Targeted(id, TRUE) PROVE DbOK' /\ db.users \subseteq db'.users
  BY <1>6, TargetedKeeps, BecomesFields DEF Targeted
<1>7. ASSUME NEW id, NewSched(id) PROVE DbOK' /\ db.users \subseteq db'.users
  BY <1>7, NewSchedKeeps, BecomesFields DEF NewSched
<1>8. ASSUME NEW s, SchedSet(s, TRUE) PROVE DbOK' /\ db.users \subseteq db'.users
  BY <1>8, SchedSetKeeps, BecomesFields DEF SchedSet
<1>9. ASSUME NEW s, NEW p, NewPeriod(s, p, TRUE) PROVE DbOK' /\ db.users \subseteq db'.users
  BY <1>9, NewPeriodKeeps, BecomesFields DEF NewPeriod
<1> QED
  BY <1>1, <1>2, <1>3, <1>4, <1>5, <1>6, <1>7, <1>8, <1>9 DEF RunDb

LEMMA EditStepKeeps ==
    ASSUME DbOK, NEW u, EditStep(u)
    PROVE  DbOK' /\ db'.users = db.users
<1>1. ASSUME NEW m \in db.rooms, EditOfRoom(m) PROVE DbOK' /\ db'.users = db.users
  <2>1. DbOK'
    BY <1>1, RoomGoneKeeps, RenamedKeeps, TargetedKeeps DEF EditOfRoom
  <2>2. db'.users = db.users
    BY <1>1, BecomesFields DEF EditOfRoom, RoomGone, Renamed, Targeted
  <2> QED
    BY <2>1, <2>2
<1>2. ASSUME NEW d \in db.devices, EditOfDevice(d) PROVE DbOK' /\ db'.users = db.users
  <2>1. DbOK'
    BY <1>2, DeviceGoneKeeps, MovedKeeps DEF EditOfDevice
  <2>2. db'.users = db.users
    <3>1. CASE DeviceGone(d)
      BY <3>1, BecomesFields DEF DeviceGone
    <3>2. ASSUME NEW to \in Nat, NEW n \in Nat \X Nat, Moved(d, to, n) PROVE db'.users = db.users
      BY <3>2, BecomesFields DEF Moved
    <3> QED
      BY <1>2, <3>1, <3>2 DEF EditOfDevice
  <2> QED
    BY <2>1, <2>2
<1>3. ASSUME NEW s \in db.scheds, EditOfSched(s) PROVE DbOK' /\ db'.users = db.users
  <2>1. DbOK'
    BY <1>3, SchedSetKeeps, SchedGoneKeeps, NewPeriodKeeps, PeriodGoneKeeps DEF EditOfSched
  <2>2. db'.users = db.users
    BY <1>3, BecomesFields DEF EditOfSched, SchedSet, SchedGone, NewPeriod, PeriodGone
  <2> QED
    BY <2>1, <2>2
<1> QED
  BY <1>1, <1>2, <1>3 DEF EditStep

RunStep ==
    /\ RunDb(sim.u) /\ Cursor(sim')
    /\ sim'.pc \in LoggedIn => sim'.u = sim.u /\ sim.u \in db'.users

LEMMA BaseFacts ==
    ASSUME Base
    PROVE  /\ DbOK /\ Cursor(sim) /\ sim \in SimType /\ sim.u \in Nat /\ sim.u <= Len(UserDefs)
           /\ sim.pc \in AtUser => sim.u \in Users
           /\ sim.pc \in LoggedIn => sim.u \in db.users
           /\ sim.pc \in InRoom => sim.r \in DOMAIN RoomDefs(sim.u)
           /\ me = sim.u
BY SimFields DEF Base, Cursor, me, generateEmail

LEMMA FatalFacts ==
    ASSUME Base
    PROVE  Cursor(Fatal) /\ Fatal.pc = "failed" /\ Fatal.pc \notin LoggedIn
<1>1. Cursor(Fatal)
  BY BaseFacts, AwayCursor DEF Fatal
<1>2. Fatal.pc = "failed"
  BY DEF Fatal, Off
<1> QED
  BY <1>1, <1>2, PcFacts

\* Every step of Run goes on with the same user, ends the process or goes on to a next user.
LEMMA RunStepOf ==
    ASSUME Base, RunDb(sim.u), sim.u \in db'.users, Gets(sim, sim') \/ sim' = Fatal
    PROVE  RunStep
BY FatalFacts DEF RunStep, Gets

\* A call that has not failed leaves the process calm if it was.
LEMMA CalledFacts ==
    ASSUME NEW b, NEW t, NEW answers, Called(b, t, answers), calm \in BOOLEAN
    PROVE  /\ sim' = t /\ b.status \in answers \cup {"failed"} /\ calm' \in BOOLEAN
           /\ calm' = TRUE => calm = TRUE /\ b.status # "failed"
BY DEF Called

LEMMA RunLoginOutcome ==
    ASSUME Base, RunLogin
    PROVE  /\ Untouched
           /\ \/ sim' = Goto("listRooms") /\ sim.u \in db.users
              \/ sim' = Goto("register") /\ (calm' = TRUE => sim.u \notin db.users)
<1>1. PICK b \in Answers(Login(sim.u)) :
        Call(b, Goto(IF b.status = "ok" THEN "listRooms" ELSE "register"))
  BY BaseFacts DEF RunLogin
<1>2. /\ Called(b, Goto(IF b.status = "ok" THEN "listRooms" ELSE "register"), {"ok", "unauthorized"})
      /\ Untouched
      /\ b.status = "ok" => sim.u \in db.users
      /\ b.status = "unauthorized" => sim.u \notin db.users
  BY <1>1, BaseFacts, LoginEffect
<1>3. calm \in BOOLEAN
  BY DEF Base
<1>4. /\ sim' = Goto(IF b.status = "ok" THEN "listRooms" ELSE "register")
      /\ b.status \in {"ok", "unauthorized"} \cup {"failed"}
      /\ calm' = TRUE => calm = TRUE /\ b.status # "failed"
  BY <1>2, <1>3, CalledFacts
<1> QED
  BY <1>2, <1>4

LEMMA RunLoginStep == ASSUME Base, RunLogin PROVE RunStep
<1>1. sim.pc = "login" /\ sim \in SimType /\ sim.u \in Users /\ sim.r = 0 /\ sim.d = 0 /\ sim.p = 0
  BY BaseFacts, PcFacts DEF RunLogin, At, Cursor
<1>2. Gets(sim, Goto("listRooms")) /\ Gets(sim, Goto("register")) /\ Goto("register").pc = "register"
  BY <1>1, GotoCursor, PcFacts DEF Goto
<1> QED
  BY <1>2, RunLoginOutcome, PcFacts DEF RunStep, Gets, RunDb, Untouched

LEMMA RunRegisterOutcome ==
    ASSUME Base, RunRegister
    PROVE  \/ sim' = Goto("relogin") /\ NewUser(sim.u)
           \/ /\ sim' = Fatal /\ (Untouched \/ NewUser(sim.u))
              /\ calm' = TRUE => calm = TRUE /\ sim.u \in db.users
<1>1. PICK b \in Answers(Register(sim.u)) :
        Call(b, IF b.status = "created" THEN Goto("relogin") ELSE Fatal)
  BY BaseFacts DEF RunRegister
<1>2. sim.u \in Users
  BY BaseFacts, PcFacts DEF RunRegister, At
<1>3. /\ Called(b, IF b.status = "created" THEN Goto("relogin") ELSE Fatal, {"created", "conflict"})
      /\ Untouched \/ NewUser(sim.u)
      /\ b.status = "created" => NewUser(sim.u)
      /\ b.status = "conflict" => sim.u \in db.users
  BY <1>1, <1>2, BaseFacts, RegisterEffect
<1>4. calm \in BOOLEAN
  BY DEF Base
<1>5. /\ sim' = IF b.status = "created" THEN Goto("relogin") ELSE Fatal
      /\ b.status \in {"created", "conflict"} \cup {"failed"}
      /\ calm' = TRUE => calm = TRUE /\ b.status # "failed"
  BY <1>3, <1>4, CalledFacts
<1> QED
  BY <1>3, <1>5

LEMMA RunRegisterStep == ASSUME Base, RunRegister PROVE RunStep
<1>1. sim.pc = "register" /\ sim \in SimType /\ sim.u \in Users /\ sim.r = 0 /\ sim.d = 0 /\ sim.p = 0
  BY BaseFacts, PcFacts DEF RunRegister, At, Cursor
<1>2. Gets(sim, Goto("relogin")) /\ Goto("relogin").pc = "relogin"
  BY <1>1, GotoCursor, PcFacts DEF Goto
<1>3. Cursor(sim') /\ sim'.pc \notin LoggedIn
  BY <1>2, RunRegisterOutcome, FatalFacts, PcFacts DEF Gets
<1> QED
  BY <1>3, RunRegisterOutcome DEF RunStep, RunDb

LEMMA RunReloginOutcome ==
    ASSUME Base, RunRelogin
    PROVE  /\ Untouched
           /\ \/ sim' = Goto("listRooms") /\ sim.u \in db.users
              \/ sim' = Fatal /\ (calm' = TRUE => calm = TRUE /\ sim.u \notin db.users)
<1>1. PICK b \in Answers(Login(sim.u)) :
        Call(b, IF b.status = "ok" THEN Goto("listRooms") ELSE Fatal)
  BY BaseFacts DEF RunRelogin
<1>2. /\ Called(b, IF b.status = "ok" THEN Goto("listRooms") ELSE Fatal, {"ok", "unauthorized"})
      /\ Untouched
      /\ b.status = "ok" => sim.u \in db.users
      /\ b.status = "unauthorized" => sim.u \notin db.users
  BY <1>1, BaseFacts, LoginEffect
<1>3. calm \in BOOLEAN
  BY DEF Base
<1>4. /\ sim' = IF b.status = "ok" THEN Goto("listRooms") ELSE Fatal
      /\ b.status \in {"ok", "unauthorized"} \cup {"failed"}
      /\ calm' = TRUE => calm = TRUE /\ b.status # "failed"
  BY <1>2, <1>3, CalledFacts
<1> QED
  BY <1>2, <1>4

LEMMA RunReloginStep == ASSUME Base, RunRelogin PROVE RunStep
<1>1. sim.pc = "relogin" /\ sim \in SimType /\ sim.u \in Users /\ sim.r = 0 /\ sim.d = 0 /\ sim.p = 0
  BY BaseFacts, PcFacts DEF RunRelogin, At, Cursor
<1>2. Gets(sim, Goto("listRooms"))
  BY <1>1, GotoCursor, PcFacts DEF Goto
<1> QED
  BY <1>2, RunReloginOutcome, FatalFacts DEF RunStep, RunDb, Gets, Untouched

\* The process with the user's rooms, and with the user's devices.
WithRooms == [Goto("listDevices") EXCEPT !.roomsByName = {m \in db.rooms : m.user = sim.u}]
WithDevices == [sim EXCEPT !.devicesByHwID = {d \in db.devices : d.user = sim.u}]

LEMMA QuietStepFacts ==
    ASSUME Base, NEW st, st # "failed", NEW b \in Answers(Answer(st, db)), NEW t, Call(b, t)
    PROVE  /\ sim' = t /\ Untouched /\ b.status \in {st, "failed"}
           /\ calm' = TRUE => calm = TRUE /\ b.status = st
<1>1. nextID \in Nat /\ calm \in BOOLEAN
  BY DEF Base, DbOK, IdsUsed
<1>2. /\ sim' = t /\ calm' = (calm /\ b.status # "failed") /\ b.status \in {st, "failed"}
      /\ Untouched
  BY <1>1, QuietCall
<1> QED
  BY <1>1, <1>2

LEMMA ListRoomsOutcome ==
    ASSUME Base, ListRooms
    PROVE  Untouched /\ (sim' = WithRooms \/ (sim' = Fatal /\ calm' # TRUE))
<1>1. PICK b \in Answers(Answer("ok", db)) : Call(b, IF b.status = "ok" THEN WithRooms ELSE Fatal)
  BY BaseFacts DEF ListRooms, WithRooms
<1> QED
  BY <1>1, QuietStepFacts

LEMMA WithRoomsFacts ==
    ASSUME Base, At("listRooms")
    PROVE  /\ WithRooms \in SimType /\ WithRooms.pc = "listDevices" /\ WithRooms.u = sim.u
           /\ WithRooms.r = 0 /\ WithRooms.d = 0 /\ WithRooms.p = 0
           /\ WithRooms.roomsByName = {m \in db.rooms : m.user = sim.u}
<1> DEFINE mine == {m \in db.rooms : m.user = sim.u}
           t == [[sim EXCEPT !.pc = "listDevices"] EXCEPT !.roomsByName = mine]
<1>1. /\ sim.pc = "listRooms" /\ sim \in SimType /\ sim.r = 0 /\ sim.d = 0 /\ sim.p = 0
  BY BaseFacts DEF At, Cursor
<1>2. mine \subseteq RoomRow
  BY BaseFacts, RowsFields DEF DbOK, Fields
<1> HIDE DEF mine
<1>3. "listDevices" \in Pcs
  BY PcFacts
<1>4. /\ t \in SimType /\ t.pc = "listDevices" /\ t.u = sim.u /\ t.r = 0 /\ t.d = 0 /\ t.p = 0
      /\ t.roomsByName = mine
  BY <1>1, <1>2, <1>3 DEF SimType
<1> QED
  BY <1>4 DEF WithRooms, Goto, mine

LEMMA ListRoomsStep == ASSUME Base, ListRooms PROVE RunStep
<1>1. /\ sim.pc = "listRooms" /\ sim.u \in Users /\ sim.u \in db.users
  BY BaseFacts, PcFacts DEF ListRooms, At
<1>2. Gets(sim, WithRooms)
  BY <1>1, WithRoomsFacts, Defs, PcFacts DEF Gets, Cursor, ListRooms
<1> QED
  BY <1>1, <1>2, ListRoomsOutcome, RunStepOf DEF RunDb, Untouched

LEMMA ListDevicesOutcome ==
    ASSUME Base, ListDevices
    PROVE  Untouched /\ (sim' = NextRoom(WithDevices) \/ (sim' = Fatal /\ calm' # TRUE))
<1>1. PICK b \in Answers(Answer("ok", db)) :
        Call(b, IF b.status = "ok" THEN NextRoom(WithDevices) ELSE Fatal)
  BY BaseFacts DEF ListDevices, WithDevices
<1> QED
  BY <1>1, QuietStepFacts

LEMMA WithDevicesFacts ==
    ASSUME Base, At("listDevices")
    PROVE  /\ WithDevices \in SimType /\ WithDevices.u = sim.u
           /\ WithDevices.r = 0 /\ WithDevices.d = 0 /\ WithDevices.p = 0
           /\ WithDevices.roomsByName = sim.roomsByName
           /\ WithDevices.devicesByHwID = {d \in db.devices : d.user = sim.u}
<1> DEFINE mine == {d \in db.devices : d.user = sim.u}
           t == [sim EXCEPT !.devicesByHwID = mine]
<1>1. /\ sim.pc = "listDevices" /\ sim \in SimType /\ sim.r = 0 /\ sim.d = 0 /\ sim.p = 0
  BY BaseFacts DEF At, Cursor
<1>2. mine \subseteq DeviceRow
  BY BaseFacts, RowsFields DEF DbOK, Fields
<1> HIDE DEF mine
<1>3. /\ t \in SimType /\ t.u = sim.u /\ t.r = 0 /\ t.d = 0 /\ t.p = 0
      /\ t.roomsByName = sim.roomsByName /\ t.devicesByHwID = mine
  BY <1>1, <1>2 DEF SimType
<1> QED
  BY <1>3 DEF WithDevices, mine

LEMMA ListDevicesStep == ASSUME Base, ListDevices PROVE RunStep
<1>1. sim.pc = "listDevices" /\ sim.u \in Users /\ sim.u \in db.users
  BY BaseFacts, PcFacts DEF ListDevices, At
<1>2. Gets(sim, NextRoom(WithDevices))
  BY <1>1, WithDevicesFacts, RoomDefsType, NextRoomCursor DEF Gets, ListDevices
<1> QED
  BY <1>1, <1>2, ListDevicesOutcome, RunStepOf DEF RunDb, Untouched

LEMMA InRoomFacts ==
    ASSUME Base, sim.pc \in InRoom
    PROVE  /\ DbOK /\ calm \in BOOLEAN /\ me = sim.u
           /\ sim \in SimType /\ sim.u \in Users /\ sim.u \in db.users
           /\ sim.r \in DOMAIN RoomDefs(sim.u) /\ sim.r \in Nat \ {0}
           /\ sim.r <= Len(RoomDefs(sim.u)) /\ Len(RoomDefs(sim.u)) \in Nat
           /\ sim.pc \in {"device", "assign"} => sim.d \in DOMAIN DeviceDefs(sim.u, sim.r)
           /\ sim.pc \notin {"device", "assign"} => sim.d = 0
           /\ sim.pc = "period" => sim.p \in 1 .. RoomDefs(sim.u)[sim.r].periods /\ sim.p \in Nat \ {0}
           /\ sim.pc # "period" => sim.p = 0
<1>1. sim.pc \in LoggedIn /\ sim.pc \in AtUser
  BY PcFacts
<1>2. sim.u \in Users /\ sim.r \in DOMAIN RoomDefs(sim.u)
  BY <1>1, BaseFacts
<1>3. sim.r \in 1 .. Len(RoomDefs(sim.u)) /\ Len(RoomDefs(sim.u)) \in Nat
  BY <1>2, RoomDefsType
<1>4. RoomDefs(sim.u)[sim.r].periods \in Nat
  BY <1>2, DeviceDefsType
<1> QED
  BY <1>1, <1>2, <1>3, <1>4, BaseFacts DEF Base, Cursor

\* The process in a room, with a device, with a schedule.
WithRoom(id) == [sim EXCEPT !.room = id]
WithDevice(id) == [Goto("assign") EXCEPT !.device = id]
Assigned == [sim EXCEPT !.device = 0]
WithSchedule(id) == [sim EXCEPT !.sched = id]

\* A change of one such field leaves the others.
LEMMA WithFacts ==
    ASSUME Base, NEW id \in Nat
    PROVE  /\ \A t \in {WithRoom(id), Assigned, WithSchedule(id), WithDevice(id)} :
                /\ t \in SimType /\ t.u = sim.u /\ t.r = sim.r /\ t.d = sim.d /\ t.p = sim.p
                /\ t.roomsByName = sim.roomsByName /\ t.devicesByHwID = sim.devicesByHwID
           /\ WithRoom(id).room = id
           /\ WithDevice(id).device = id /\ WithDevice(id).pc = "assign" /\ WithDevice(id).room = sim.room
           /\ Assigned.room = sim.room
           /\ WithSchedule(id).sched = id /\ WithSchedule(id).room = sim.room
<1>1. sim \in SimType /\ "assign" \in Pcs
  BY BaseFacts, PcFacts
<1>2. /\ WithRoom(id) \in SimType /\ WithRoom(id).u = sim.u /\ WithRoom(id).r = sim.r
      /\ WithRoom(id).d = sim.d /\ WithRoom(id).p = sim.p /\ WithRoom(id).room = id
      /\ WithRoom(id).roomsByName = sim.roomsByName
      /\ WithRoom(id).devicesByHwID = sim.devicesByHwID
  BY <1>1 DEF WithRoom, SimType
<1>3. /\ WithSchedule(id) \in SimType /\ WithSchedule(id).u = sim.u /\ WithSchedule(id).r = sim.r
      /\ WithSchedule(id).d = sim.d /\ WithSchedule(id).p = sim.p /\ WithSchedule(id).sched = id
      /\ WithSchedule(id).roomsByName = sim.roomsByName /\ WithSchedule(id).room = sim.room
      /\ WithSchedule(id).devicesByHwID = sim.devicesByHwID
  BY <1>1 DEF WithSchedule, SimType
<1>4. /\ Assigned \in SimType /\ Assigned.u = sim.u /\ Assigned.r = sim.r
      /\ Assigned.d = sim.d /\ Assigned.p = sim.p /\ Assigned.room = sim.room
      /\ Assigned.roomsByName = sim.roomsByName
      /\ Assigned.devicesByHwID = sim.devicesByHwID
  BY <1>1 DEF Assigned, SimType
<1>5. /\ WithDevice(id) \in SimType /\ WithDevice(id).u = sim.u /\ WithDevice(id).r = sim.r
      /\ WithDevice(id).d = sim.d /\ WithDevice(id).p = sim.p /\ WithDevice(id).room = sim.room
      /\ WithDevice(id).device = id /\ WithDevice(id).pc = "assign"
      /\ WithDevice(id).roomsByName = sim.roomsByName
      /\ WithDevice(id).devicesByHwID = sim.devicesByHwID
  BY <1>1 DEF WithDevice, Goto, SimType
<1> QED
  BY <1>2, <1>3, <1>4, <1>5

LEMMA ProvisionRoomOutcome ==
    ASSUME Base, ProvisionRoom
    PROVE  \/ NewRoom(sim.u, sim.r) /\ sim' = NextDevice(WithRoom(nextID))
           \/ /\ Untouched
              /\ \E m \in sim.roomsByName : m.name = sim.r /\ sim' = NextDevice(WithRoom(m.id))
           \/ /\ Untouched \/ NewRoom(sim.u, sim.r)
              /\ sim' = Fatal
              /\ calm' = TRUE => /\ calm = TRUE
                                 /\ \E m \in db.rooms : m.user = sim.u /\ m.name = sim.r
                                 /\ \A m \in sim.roomsByName : m.name # sim.r
<1> DEFINE known == {m \in sim.roomsByName : m.name = sim.r}
           t(st) == CASE st = "created" -> NextDevice([sim EXCEPT !.room = nextID])
                      [] st = "conflict" /\ known # {} ->
                           NextDevice([sim EXCEPT !.room = (CHOOSE m \in known : TRUE).id])
                      [] OTHER -> Fatal
<1>1. sim.pc \in InRoom
  BY DEF ProvisionRoom, At, InRoom
<1>2. PICK b \in Answers(CreateRoom(sim.u, sim.r)) : Call(b, t(b.status))
  BY <1>1, InRoomFacts DEF ProvisionRoom
<1>3. /\ t("created") = NextDevice(WithRoom(nextID))
      /\ t("failed") = Fatal
      /\ known = {} => t("conflict") = Fatal
      /\ known # {} => \E m \in known : t("conflict") = NextDevice(WithRoom(m.id))
  BY DEF WithRoom
<1> HIDE DEF t
<1>4. /\ Called(b, t(b.status), {"created", "conflict"})
      /\ Untouched \/ NewRoom(sim.u, sim.r)
      /\ b.status = "created" => NewRoom(sim.u, sim.r)
      /\ b.status = "conflict" => Untouched /\ \E m \in db.rooms : m.user = sim.u /\ m.name = sim.r
  BY <1>1, <1>2, InRoomFacts, CreateRoomEffect
<1>5. /\ sim' = t(b.status) /\ b.status \in {"created", "conflict", "failed"}
      /\ calm' = TRUE => calm = TRUE /\ b.status # "failed"
  BY <1>1, <1>4, InRoomFacts, CalledFacts
<1> QED
  BY <1>3, <1>4, <1>5

LEMMA ProvisionRoomStep == ASSUME Base, ProvisionRoom PROVE RunStep
<1>1. sim.pc \in InRoom /\ sim.d = 0 /\ sim.p = 0
  BY InRoomFacts DEF ProvisionRoom, At, InRoom
<1>2. ASSUME NEW id \in Nat PROVE Gets(sim, NextDevice(WithRoom(id)))
  <2> DEFINE s == WithRoom(id)
  <2>1. s \in SimType /\ s.u = sim.u /\ s.r = sim.r /\ s.d = 0 /\ s.p = 0
    BY <1>1, BaseFacts, WithFacts
  <2> HIDE DEF s
  <2>2. 0 <= Len(DeviceDefs(s.u, s.r)) /\ s.u \in Users /\ s.r \in DOMAIN RoomDefs(s.u)
    BY <1>1, <2>1, InRoomFacts, DeviceDefsType
  <2>3. Gets(s, NextDevice(s))
    BY <2>1, <2>2, NextDeviceCursor
  <2> QED
    BY <2>1, <2>3 DEF Gets, s
<1>3. nextID \in Nat /\ \A m \in sim.roomsByName : m.id \in Nat
  BY <1>1, InRoomFacts, SimFields DEF DbOK, IdsUsed, RoomRow
<1>4. Gets(sim, sim') \/ sim' = Fatal
  BY <1>2, <1>3, ProvisionRoomOutcome
<1>5. RunDb(sim.u)
  BY <1>1, InRoomFacts, ProvisionRoomOutcome DEF RunDb
<1> QED
  BY <1>1, <1>4, <1>5, InRoomFacts, RunDbKeeps, RunStepOf

\* The device is in the way of the one at the cursor.
TakesPlace(x) == x.hwID = hwID \/ (x.user = sim.u /\ x.name = DeviceName(sim.r, sim.d))

LEMMA ProvisionDeviceOutcome ==
    ASSUME Base, ProvisionDevice
    PROVE  \/ NewDevice(sim.u, sim.r, sim.d) /\ sim' = WithDevice(nextID)
           \/ /\ Untouched
              /\ \E x \in sim.devicesByHwID : x.hwID = hwID /\ sim' = WithDevice(x.id)
           \/ /\ Untouched \/ NewDevice(sim.u, sim.r, sim.d)
              /\ sim' = Fatal
              /\ calm' = TRUE => /\ calm = TRUE
                                 /\ Untouched /\ \E x \in db.devices : TakesPlace(x)
                                 /\ \A x \in sim.devicesByHwID : x.hwID # hwID
<1> DEFINE known == {d \in sim.devicesByHwID : d.hwID = hwID}
           t(st) == CASE st = "created" -> [Goto("assign") EXCEPT !.device = nextID]
                      [] st = "conflict" /\ known # {} ->
                           [Goto("assign") EXCEPT !.device = (CHOOSE d \in known : TRUE).id]
                      [] OTHER -> Fatal
           c == DeviceDefs(sim.u, sim.r)[sim.d].caps
<1>1. sim.pc = "device" /\ sim.pc \in InRoom
  BY DEF ProvisionDevice, At, InRoom
<1>2. PICK b \in Answers(CreateDevice(sim.u, hwID, DeviceName(sim.r, sim.d), c)) : Call(b, t(b.status))
  BY <1>1, InRoomFacts DEF ProvisionDevice
<1>3. /\ t("created") = WithDevice(nextID)
      /\ t("failed") = Fatal
      /\ known = {} => t("conflict") = Fatal
      /\ known # {} => \E x \in known : t("conflict") = WithDevice(x.id)
  BY DEF WithDevice
<1> HIDE DEF t, c
<1>4. /\ Called(b, t(b.status), {"created", "conflict"})
      /\ Untouched \/ NewDevice(sim.u, sim.r, sim.d)
      /\ b.status = "created" => NewDevice(sim.u, sim.r, sim.d)
      /\ b.status = "conflict" => Untouched /\ \E x \in db.devices : TakesPlace(x)
  <2>1. /\ sim.u \in db.users /\ sim.r \in DOMAIN RoomDefs(sim.u)
        /\ sim.d \in DOMAIN DeviceDefs(sim.u, sim.r) /\ DbOK
    BY <1>1, InRoomFacts
  <2>2. b \in Answers(CreateDevice(sim.u, <<sim.u, sim.r, sim.d>>, DeviceName(sim.r, sim.d),
                                  DeviceDefs(sim.u, sim.r)[sim.d].caps))
    BY <1>2 DEF hwID, c
  <2> QED
    BY <1>2, <2>1, <2>2, CreateDeviceEffect DEF hwID, TakesPlace
<1>5. /\ sim' = t(b.status) /\ b.status \in {"created", "conflict", "failed"}
      /\ calm' = TRUE => calm = TRUE /\ b.status # "failed"
  BY <1>1, <1>4, InRoomFacts, CalledFacts
<1> QED
  BY <1>3, <1>4, <1>5

LEMMA ProvisionDeviceStep == ASSUME Base, ProvisionDevice PROVE RunStep
<1>1. sim.pc = "device" /\ sim.pc \in InRoom
  BY DEF ProvisionDevice, At, InRoom
<1>2. ASSUME NEW id \in Nat PROVE Gets(sim, WithDevice(id))
  <2> DEFINE s == WithDevice(id)
  <2>1. /\ s \in SimType /\ s.u = sim.u /\ s.r = sim.r /\ s.d = sim.d /\ s.p = sim.p /\ s.pc = "assign"
    BY BaseFacts, WithFacts
  <2> HIDE DEF s
  <2>2. /\ sim.d \in DOMAIN DeviceDefs(sim.u, sim.r) /\ sim.p = 0 /\ sim.u \in Users
        /\ sim.u <= Len(UserDefs) /\ sim.r \in DOMAIN RoomDefs(sim.u)
    BY <1>1, InRoomFacts, BaseFacts
  <2>3. Gets(sim, s)
    BY <2>1, <2>2 DEF Gets, Cursor
  <2> QED
    BY <2>3 DEF s
<1>3. nextID \in Nat /\ \A x \in sim.devicesByHwID : x.id \in Nat
  BY <1>1, InRoomFacts, SimFields DEF DbOK, IdsUsed, DeviceRow
<1>4. Gets(sim, sim') \/ sim' = Fatal
  BY <1>2, <1>3, ProvisionDeviceOutcome
<1>5. RunDb(sim.u)
  BY <1>1, InRoomFacts, ProvisionDeviceOutcome DEF RunDb
<1> QED
  BY <1>1, <1>4, <1>5, InRoomFacts, RunDbKeeps, RunStepOf

\* The device at the cursor is moved into the room at the cursor.
DeviceMoved == \E x \in db.devices : /\ x.id = sim.device /\ x.user = sim.u
                                      /\ Moved(x, sim.room, DeviceName(sim.r, sim.d))

LEMMA AssignDeviceOutcome ==
    ASSUME Base, AssignDevice
    PROVE  \/ DeviceMoved /\ sim' = NextDevice(Assigned)
           \/ /\ Untouched \/ DeviceMoved
              /\ sim' = Fatal
              /\ calm' = TRUE =>
                   /\ calm = TRUE /\ Untouched
                   /\ \/ ~\E x \in db.devices : x.id = sim.device /\ x.user = sim.u
                      \/ ~RoomOf(sim.u, sim.room)
                      \/ Refusable(sim.u, sim.device, sim.room, DeviceName(sim.r, sim.d))
<1> DEFINE t(st) == IF st = "ok" THEN NextDevice([sim EXCEPT !.device = 0]) ELSE Fatal
<1>1. sim.pc \in InRoom
  BY DEF AssignDevice, At, InRoom
<1>2. PICK b \in Answers(UpdateDevice(sim.u, sim.device, sim.room, DeviceName(sim.r, sim.d))) :
        Call(b, t(b.status))
  BY <1>1, InRoomFacts DEF AssignDevice
<1>3. t("ok") = NextDevice(Assigned) /\ \A st : st # "ok" => t(st) = Fatal
  BY DEF Assigned
<1> HIDE DEF t
<1>4. sim.room \in Nat /\ DeviceName(sim.r, sim.d) \in Nat \X Nat
  BY BaseFacts, SimFields DEF DeviceName
<1>5. /\ Called(b, t(b.status), {"ok", "notfound", "conflict"})
      /\ Untouched \/ DeviceMoved
      /\ b.status = "ok" => DeviceMoved
      /\ b.status = "notfound" =>
           Untouched /\ \/ ~\E x \in db.devices : x.id = sim.device /\ x.user = sim.u
                        \/ ~RoomOf(sim.u, sim.room)
      /\ b.status = "conflict" =>
           Untouched /\ Refusable(sim.u, sim.device, sim.room, DeviceName(sim.r, sim.d))
  BY <1>1, <1>2, <1>4, InRoomFacts, UpdateDeviceEffect DEF DeviceMoved
<1>6. /\ sim' = t(b.status) /\ b.status \in {"ok", "notfound", "conflict", "failed"}
      /\ calm' = TRUE => calm = TRUE /\ b.status # "failed"
  BY <1>1, <1>5, InRoomFacts, CalledFacts
<1>7. CASE b.status = "ok"
  BY <1>3, <1>5, <1>6, <1>7
<1>8. CASE b.status # "ok"
  BY <1>3, <1>5, <1>6, <1>8
<1> QED
  BY <1>7, <1>8

LEMMA AssignDeviceStep == ASSUME Base, AssignDevice PROVE RunStep
<1>1. sim.pc = "assign" /\ sim.pc \in InRoom
  BY DEF AssignDevice, At, InRoom
<1>2. Gets(sim, NextDevice(Assigned))
  <2> DEFINE s == Assigned
  <2>1. s \in SimType /\ s.u = sim.u /\ s.r = sim.r /\ s.d = sim.d /\ s.p = 0
    BY <1>1, BaseFacts, InRoomFacts, WithFacts
  <2> HIDE DEF s
  <2>2. s.d <= Len(DeviceDefs(s.u, s.r)) /\ s.u \in Users /\ s.r \in DOMAIN RoomDefs(s.u)
    BY <1>1, <2>1, InRoomFacts, DeviceDefsType
  <2>3. Gets(s, NextDevice(s))
    BY <2>1, <2>2, NextDeviceCursor
  <2> QED
    BY <2>1, <2>3 DEF Gets, s
<1>3. DeviceMoved => RunDb(sim.u)
  BY DEF DeviceMoved, Moved, RunDb
<1>4. RunDb(sim.u)
  BY <1>3, AssignDeviceOutcome DEF RunDb
<1> QED
  BY <1>1, <1>2, <1>4, AssignDeviceOutcome, InRoomFacts, RunDbKeeps, RunStepOf

LEMMA SetDesiredStateOutcome ==
    ASSUME Base, SetDesiredState
    PROVE  \/ Targeted(sim.room, TRUE) /\ sim' = NextRoom(sim)
           \/ /\ Untouched \/ Targeted(sim.room, TRUE)
              /\ sim' = Fatal
              /\ calm' = TRUE => /\ calm = TRUE
                                 /\ ~RoomOf(sim.u, sim.room) \/ ~Capable(DevicesIn(sim.room))
<1> DEFINE t(st) == IF st = "ok" THEN NextRoom(sim) ELSE Fatal
<1>1. sim.pc \in InRoom
  BY DEF SetDesiredState, At, InRoom
<1>2. PICK b \in Answers(UpdateDesiredState(sim.u, sim.room, TRUE)) : Call(b, t(b.status))
  <2>1. me = sim.u
    BY <1>1, InRoomFacts
  <2>2. \E b \in Answers(UpdateDesiredState(me, sim.room, TRUE)) : Call(b, t(b.status))
    BY Zenon DEF SetDesiredState
  <2> QED
    BY <2>1, <2>2, Zenon
<1>3. t("ok") = NextRoom(sim) /\ \A st : st # "ok" => t(st) = Fatal
  OBVIOUS
<1> HIDE DEF t
<1>4. /\ Called(b, t(b.status), {"ok", "notfound", "unprocessable"})
      /\ Untouched \/ (RoomOf(sim.u, sim.room) /\ Targeted(sim.room, TRUE))
      /\ b.status = "ok" => RoomOf(sim.u, sim.room) /\ Targeted(sim.room, TRUE)
      /\ b.status = "notfound" => Untouched /\ ~RoomOf(sim.u, sim.room)
      /\ b.status = "unprocessable" => Untouched /\ ~Capable(DevicesIn(sim.room))
  <2>1. DbOK /\ TRUE \in BOOLEAN
    BY <1>1, InRoomFacts
  <2> QED
    BY <1>2, <2>1, UpdateDesiredStateEffect, Zenon
<1>5. /\ sim' = t(b.status) /\ b.status \in {"ok", "notfound", "unprocessable", "failed"}
      /\ calm' = TRUE => calm = TRUE /\ b.status # "failed"
  BY <1>1, <1>4, InRoomFacts, CalledFacts
<1>6. CASE b.status = "ok"
  BY <1>3, <1>4, <1>5, <1>6
<1>7. CASE b.status # "ok"
  BY <1>3, <1>4, <1>5, <1>7
<1> QED
  BY <1>6, <1>7

LEMMA SetDesiredStateStep == ASSUME Base, SetDesiredState PROVE RunStep
<1>1. sim.pc = "desired" /\ sim.pc \in InRoom
  BY DEF SetDesiredState, At, InRoom
<1>2. Gets(sim, NextRoom(sim))
  BY <1>1, InRoomFacts, NextRoomCursor
<1>3. RunDb(sim.u)
  BY SetDesiredStateOutcome DEF RunDb
<1> QED
  BY <1>1, <1>2, <1>3, SetDesiredStateOutcome, InRoomFacts, RunDbKeeps, RunStepOf

LEMMA ProvisionScheduleOutcome ==
    ASSUME Base, ProvisionSchedule
    PROVE  \/ NewSched(sim.room) /\ sim' = NextPeriod(WithSchedule(nextID))
           \/ /\ Untouched /\ sim' = Goto("listSchedules")
              /\ RoomOf(sim.u, sim.room) /\ \E s \in db.scheds : s.room = sim.room
           \/ /\ Untouched \/ NewSched(sim.room)
              /\ sim' = Fatal
              /\ calm' = TRUE => calm = TRUE /\ ~RoomOf(sim.u, sim.room)
<1> DEFINE t(st) == CASE st = "created" -> NextPeriod([sim EXCEPT !.sched = nextID])
                      [] st = "conflict" -> Goto("listSchedules")
                      [] OTHER -> Fatal
<1>1. sim.pc \in InRoom
  BY DEF ProvisionSchedule, At, InRoom
<1>2. PICK b \in Answers(CreateSchedule(sim.u, sim.room)) : Call(b, t(b.status))
  BY <1>1, InRoomFacts DEF ProvisionSchedule
<1>3. /\ t("created") = NextPeriod(WithSchedule(nextID)) /\ t("conflict") = Goto("listSchedules")
      /\ t("notfound") = Fatal /\ t("failed") = Fatal
  BY DEF WithSchedule
<1> HIDE DEF t
<1>4. /\ Called(b, t(b.status), {"created", "conflict", "notfound"})
      /\ Untouched \/ NewSched(sim.room)
      /\ b.status = "created" => NewSched(sim.room)
      /\ b.status = "conflict" =>
           Untouched /\ RoomOf(sim.u, sim.room) /\ \E s \in db.scheds : s.room = sim.room
      /\ b.status = "notfound" => Untouched /\ ~RoomOf(sim.u, sim.room)
  BY <1>1, <1>2, InRoomFacts, CreateScheduleEffect
<1>5. /\ sim' = t(b.status) /\ b.status \in {"created", "conflict", "notfound", "failed"}
      /\ calm' = TRUE => calm = TRUE /\ b.status # "failed"
  BY <1>1, <1>4, InRoomFacts, CalledFacts
<1> QED
  BY <1>3, <1>4, <1>5

LEMMA ProvisionScheduleStep == ASSUME Base, ProvisionSchedule PROVE RunStep
<1>1. sim.pc = "schedule" /\ sim.pc \in InRoom
  BY DEF ProvisionSchedule, At, InRoom
<1>2. nextID \in Nat /\ sim.d = 0 /\ sim.p = 0
  BY <1>1, InRoomFacts DEF DbOK, IdsUsed
<1>3. Gets(sim, NextPeriod(WithSchedule(nextID)))
  <2> DEFINE s == WithSchedule(nextID)
  <2>1. s \in SimType /\ s.u = sim.u /\ s.r = sim.r /\ s.d = 0 /\ s.p = 0
    BY <1>2, BaseFacts, WithFacts
  <2> HIDE DEF s
  <2>2. 0 <= RoomDefs(s.u)[s.r].periods /\ s.u \in Users /\ s.r \in DOMAIN RoomDefs(s.u)
    BY <1>1, <2>1, InRoomFacts, DeviceDefsType
  <2>3. Gets(s, NextPeriod(s))
    BY <2>1, <2>2, NextPeriodCursor
  <2> QED
    BY <2>1, <2>3 DEF Gets, s
<1>4. Gets(sim, Goto("listSchedules"))
  <2>1. "listSchedules" \in AtUser
    BY PcFacts
  <2> QED
    BY <1>1, <1>2, <2>1, InRoomFacts, GotoCursor DEF Goto
<1>5. RunDb(sim.u)
  BY ProvisionScheduleOutcome DEF RunDb
<1> QED
  BY <1>1, <1>3, <1>4, <1>5, ProvisionScheduleOutcome, InRoomFacts, RunDbKeeps, RunStepOf

LEMMA ListSchedulesOutcome ==
    ASSUME Base, ListSchedules
    PROVE  /\ Untouched
           /\ \/ \E s \in db.scheds : s.room = sim.room /\ sim' = NextPeriod(WithSchedule(s.id))
              \/ /\ sim' = Fatal
                 /\ calm' = TRUE => /\ calm = TRUE
                                    /\ \/ ~RoomOf(sim.u, sim.room)
                                       \/ ~\E s \in db.scheds : s.room = sim.room
<1> DEFINE named == {s \in db.scheds : s.room = sim.room /\ s.name = 1}
           t(st) == IF st = "ok" /\ named # {}
                    THEN NextPeriod([sim EXCEPT !.sched = (CHOOSE s \in named : TRUE).id]) ELSE Fatal
           st0 == IF RoomOf(sim.u, sim.room) THEN "ok" ELSE "notfound"
<1>1. sim.pc \in InRoom
  BY DEF ListSchedules, At, InRoom
<1>2. PICK b \in Answers(Answer(st0, db)) : Call(b, t(b.status))
  BY <1>1, InRoomFacts DEF ListSchedules
<1>3. named = {s \in db.scheds : s.room = sim.room}
  BY <1>1, InRoomFacts DEF DbOK, Unique
<1>4. /\ \A st : t(st) # Fatal => st = "ok" /\ named # {}
      /\ named # {} => \E s \in named : t("ok") = NextPeriod(WithSchedule(s.id))
  BY DEF WithSchedule
<1>5. st0 # "failed" /\ (st0 = "ok" <=> RoomOf(sim.u, sim.room))
  OBVIOUS
<1> HIDE DEF t, st0, named
<1>6. /\ sim' = t(b.status) /\ Untouched
      /\ calm' = TRUE => calm = TRUE /\ b.status = st0
  BY <1>2, <1>5, QuietStepFacts
<1>7. CASE sim' = Fatal
  <2>1. CASE b.status = "ok" /\ named # {}
    BY <1>3, <1>4, <1>6, <2>1
  <2>2. CASE ~(b.status = "ok" /\ named # {})
    BY <1>3, <1>5, <1>6, <1>7, <2>2
  <2> QED
    BY <2>1, <2>2
<1>8. CASE sim' # Fatal
  BY <1>3, <1>4, <1>6, <1>8
<1> QED
  BY <1>7, <1>8

LEMMA ListSchedulesStep == ASSUME Base, ListSchedules PROVE RunStep
<1>1. sim.pc = "listSchedules" /\ sim.pc \in InRoom
  BY DEF ListSchedules, At, InRoom
<1>2. sim.d = 0 /\ sim.p = 0 /\ \A s \in db.scheds : s.id \in Nat
  BY <1>1, InRoomFacts, RowsFields DEF DbOK, Fields, SchedRow
<1>3. ASSUME NEW id \in Nat PROVE Gets(sim, NextPeriod(WithSchedule(id)))
  <2> DEFINE s == WithSchedule(id)
  <2>1. s \in SimType /\ s.u = sim.u /\ s.r = sim.r /\ s.d = 0 /\ s.p = 0
    BY <1>2, BaseFacts, WithFacts
  <2> HIDE DEF s
  <2>2. 0 <= RoomDefs(s.u)[s.r].periods /\ s.u \in Users /\ s.r \in DOMAIN RoomDefs(s.u)
    BY <1>1, <2>1, InRoomFacts, DeviceDefsType
  <2>3. Gets(s, NextPeriod(s))
    BY <2>1, <2>2, NextPeriodCursor
  <2> QED
    BY <2>1, <2>3 DEF Gets, s
<1>4. Gets(sim, sim') \/ sim' = Fatal
  BY <1>2, <1>3, ListSchedulesOutcome
<1>5. RunDb(sim.u)
  BY ListSchedulesOutcome DEF RunDb
<1> QED
  BY <1>1, <1>4, <1>5, InRoomFacts, RunDbKeeps, RunStepOf

\* The period at the cursor is added to the schedule at the cursor.
PeriodAdded == \E s \in db.scheds : s.id = sim.sched /\ NewPeriod(s, sim.p, TRUE)

LEMMA ProvisionPeriodOutcome ==
    ASSUME Base, ProvisionPeriod
    PROVE  \/ PeriodAdded /\ sim' = NextPeriod(sim)
           \/ /\ Untouched /\ sim' = NextPeriod(sim)
              /\ \E q \in db.periods : q.sched = sim.sched /\ q.p \in {0, sim.p}
           \/ /\ Untouched \/ PeriodAdded
              /\ sim' = Fatal
              /\ calm' = TRUE => calm = TRUE /\ ~\E s \in db.scheds : s.id = sim.sched
<1> DEFINE t(st) == IF st \in {"created", "conflict"} THEN NextPeriod(sim) ELSE Fatal
<1>1. sim.pc = "period" /\ sim.pc \in InRoom
  BY DEF ProvisionPeriod, At, InRoom
<1>2. PICK b \in Answers(CreatePeriod(sim.sched, sim.p, TRUE)) : Call(b, t(b.status))
  BY DEF ProvisionPeriod
<1>3. /\ t("created") = NextPeriod(sim) /\ t("conflict") = NextPeriod(sim)
      /\ t("notfound") = Fatal /\ t("failed") = Fatal
  OBVIOUS
<1> HIDE DEF t
<1>4. /\ Called(b, t(b.status), {"created", "conflict", "notfound"})
      /\ Untouched \/ PeriodAdded
      /\ b.status = "created" => PeriodAdded
      /\ b.status = "conflict" => Untouched /\ \E q \in db.periods : q.sched = sim.sched /\ q.p \in {0, sim.p}
      /\ b.status = "notfound" => Untouched /\ ~\E s \in db.scheds : s.id = sim.sched
  <2>1. DbOK /\ sim.p \in Nat \ {0}
    BY <1>1, InRoomFacts
  <2> QED
    BY <1>2, <2>1, CreatePeriodEffect DEF PeriodAdded
<1>5. /\ sim' = t(b.status) /\ b.status \in {"created", "conflict", "notfound", "failed"}
      /\ calm' = TRUE => calm = TRUE /\ b.status # "failed"
  BY <1>1, <1>4, InRoomFacts, CalledFacts
<1> QED
  BY <1>3, <1>4, <1>5

LEMMA ProvisionPeriodStep == ASSUME Base, ProvisionPeriod PROVE RunStep
<1>1. sim.pc = "period" /\ sim.pc \in InRoom
  BY DEF ProvisionPeriod, At, InRoom
<1>2. Gets(sim, NextPeriod(sim))
  <2>1. /\ sim.p \in 1 .. RoomDefs(sim.u)[sim.r].periods /\ sim.d = 0 /\ sim \in SimType
        /\ sim.u \in Users /\ sim.r \in DOMAIN RoomDefs(sim.u)
    BY <1>1, InRoomFacts
  <2> QED
    BY <2>1, NextPeriodCursor
<1>3. RunDb(sim.u)
  <2>1. sim.p \in Nat
    BY <1>1, InRoomFacts
  <2> QED
    BY <2>1, ProvisionPeriodOutcome DEF RunDb, PeriodAdded
<1> QED
  BY <1>1, <1>2, <1>3, ProvisionPeriodOutcome, InRoomFacts, RunDbKeeps, RunStepOf

\* The schedule at the cursor is activated.
Activated == \E s \in db.scheds : s.id = sim.sched /\ SchedSet(s, TRUE)

\* The schedule asks for what the devices of its room do not serve.
Refuses(s) == ~Capable(DevicesIn(s.room)) \/ Unserved(s.id)

LEMMA ActivateScheduleOutcome ==
    ASSUME Base, ActivateSchedule
    PROVE  \/ Activated /\ sim' = NextRoom(sim)
           \/ /\ Untouched /\ sim' = NextRoom(sim)
              /\ \E s \in db.scheds : s.id = sim.sched /\ s.active = TRUE
           \/ /\ Untouched \/ Activated
              /\ sim' = Fatal
              /\ calm' = TRUE =>
                   /\ calm = TRUE
                   /\ \/ ~\E s \in db.scheds : s.id = sim.sched
                      \/ Untouched /\ \E s \in db.scheds : s.id = sim.sched /\ Refuses(s)
<1> DEFINE t(st) == IF st \in {"ok", "already"} THEN NextRoom(sim) ELSE Fatal
<1>1. sim.pc \in InRoom
  BY DEF ActivateSchedule, At, InRoom
<1>2. PICK b \in Answers(Activate(sim.sched)) : Call(b, t(b.status))
  BY DEF ActivateSchedule
<1>3. /\ t("ok") = NextRoom(sim) /\ t("already") = NextRoom(sim)
      /\ t("notfound") = Fatal /\ t("incapable") = Fatal /\ t("failed") = Fatal
  OBVIOUS
<1> HIDE DEF t
<1>4. CASE ~\E s \in db.scheds : s.id = sim.sched
  <2>1. Activate(sim.sched) = Answer("notfound", db)
    BY <1>4 DEF Activate
  <2>2. b \in Answers(Answer("notfound", db))
    BY <1>2, <2>1
  <2>3. /\ sim' = t(b.status) /\ Untouched /\ b.status \in {"notfound", "failed"}
        /\ calm' = TRUE => calm = TRUE
    BY <1>2, <2>2, QuietStepFacts
  <2> QED
    BY <1>3, <1>4, <2>3
<1>5. CASE \E s \in db.scheds : s.id = sim.sched
  <2>1. PICK s \in db.scheds : s.id = sim.sched
    BY <1>5
  <2>2. b \in Answers(Activate(s.id))
    BY <1>2, <2>1
  <2>3. /\ Called(b, t(b.status), {"ok", "already", "incapable"})
        /\ Untouched \/ SchedSet(s, TRUE)
        /\ b.status = "ok" => SchedSet(s, TRUE)
        /\ b.status = "already" => Untouched /\ s.active = TRUE
        /\ b.status = "incapable" => Untouched /\ Refuses(s)
    BY <1>1, <1>2, <2>2, InRoomFacts, ActivateEffect DEF Refuses
  <2>4. /\ sim' = t(b.status) /\ b.status \in {"ok", "already", "incapable", "failed"}
        /\ calm' = TRUE => calm = TRUE /\ b.status # "failed"
    BY <1>1, <2>3, InRoomFacts, CalledFacts
  <2>5. SchedSet(s, TRUE) => Activated
    BY <2>1 DEF Activated
  <2>6. s.active = TRUE => \E x \in db.scheds : x.id = sim.sched /\ x.active = TRUE
    BY <2>1
  <2>7. Refuses(s) => \E x \in db.scheds : x.id = sim.sched /\ Refuses(x)
    BY <2>1
  <2> QED
    BY <1>3, <2>3, <2>4, <2>5, <2>6, <2>7
<1> QED
  BY <1>4, <1>5

LEMMA ActivateScheduleStep == ASSUME Base, ActivateSchedule PROVE RunStep
<1>1. sim.pc = "activate" /\ sim.pc \in InRoom
  BY DEF ActivateSchedule, At, InRoom
<1>2. Gets(sim, NextRoom(sim))
  BY <1>1, InRoomFacts, NextRoomCursor
<1>3. RunDb(sim.u)
  BY ActivateScheduleOutcome DEF RunDb, Activated
<1> QED
  BY <1>1, <1>2, <1>3, ActivateScheduleOutcome, InRoomFacts, RunDbKeeps, RunStepOf

LEMMA WriteCredentialsOutcome ==
    ASSUME Base, WriteCredentials
    PROVE  /\ Untouched /\ creds' \subseteq Users /\ calm' \in BOOLEAN
           /\ \/ sim' = NextUser(sim)
              \/ sim' = Fatal /\ calm' # TRUE
BY DEF WriteCredentials, Base, Untouched

LEMMA WriteCredentialsStep == ASSUME Base, WriteCredentials PROVE RunStep
<1>1. sim.pc = "credentials" /\ sim \in SimType /\ sim.u \in Users /\ sim.u \in db.users
  BY BaseFacts, PcFacts DEF WriteCredentials, At
<1>2. Gets(sim, NextUser(sim))
  BY <1>1, NextUserCursor
<1> QED
  BY <1>1, <1>2, WriteCredentialsOutcome, RunStepOf DEF RunDb, Untouched

\* Every step of Run; all but the last leave the files and the history alone.
LEMMA RunKeepsBase ==
    ASSUME Base, Run
    PROVE  Base' /\ RunDb(sim.u) /\ db.users \subseteq db'.users
<1>1. RunStep
  BY RunLoginStep, RunRegisterStep, RunReloginStep, ListRoomsStep, ListDevicesStep, ProvisionRoomStep,
     ProvisionDeviceStep, AssignDeviceStep, SetDesiredStateStep, ProvisionScheduleStep,
     ListSchedulesStep, ProvisionPeriodStep, ActivateScheduleStep, WriteCredentialsStep DEF Run
<1>2. skipped' = skipped /\ touched' = touched
  BY DEF Run, RunLogin, RunRegister, RunRelogin, ListRooms, ListDevices, ProvisionRoom, ProvisionDevice,
     AssignDevice, SetDesiredState, ProvisionSchedule, ListSchedules, ProvisionPeriod,
     ActivateSchedule, WriteCredentials
<1>3. creds' \subseteq Users /\ calm' \in BOOLEAN
  <2>1. CASE WriteCredentials
    BY <2>1, WriteCredentialsOutcome
  <2>2. CASE ~WriteCredentials
    <3>1. creds' = creds
      BY <2>2 DEF Run, RunLogin, RunRegister, RunRelogin, ListRooms, ListDevices, ProvisionRoom,
         ProvisionDevice, AssignDevice, SetDesiredState, ProvisionSchedule, ListSchedules,
         ProvisionPeriod, ActivateSchedule
    <3>2. \A a, s : Call(a, s) => calm' \in BOOLEAN
      BY DEF Call, Base
    <3>3. calm' \in BOOLEAN
      BY <2>2, <3>2 DEF Run, RunLogin, RunRegister, RunRelogin, ListRooms, ListDevices, ProvisionRoom,
         ProvisionDevice, AssignDevice, SetDesiredState, ProvisionSchedule, ListSchedules,
         ProvisionPeriod, ActivateSchedule
    <3> QED
      BY <3>1, <3>3 DEF Base
  <2> QED
    BY <2>1, <2>2
<1>4. DbOK' /\ db.users \subseteq db'.users
  BY <1>1, RunDbKeeps DEF RunStep, Base
<1> QED
  BY <1>1, <1>2, <1>3, <1>4 DEF RunStep, Base

LEMMA NextTeardownFacts ==
    ASSUME Base, sim.pc \in {"teardown", "deleteMe"}
    PROVE  /\ Cursor(NextTeardown)
           /\ \/ sim.u < Len(UserDefs) /\ NextTeardown.pc = "teardown" /\ NextTeardown.u = sim.u + 1
              \/ sim.u = Len(UserDefs) /\ NextTeardown.pc = "torn"
<1>1. /\ sim \in SimType /\ sim.u \in Users /\ sim.u \in Nat /\ Len(UserDefs) \in Nat
      /\ sim.u <= Len(UserDefs) /\ sim.d = 0 /\ sim.p = 0
  BY BaseFacts, PcFacts, Defs DEF Cursor
<1>2. CASE sim.u < Len(UserDefs)
  <2> DEFINE t == [[sim EXCEPT !.pc = "teardown"] EXCEPT !.u = sim.u + 1]
  <2>1. NextTeardown = t
    BY <1>1, <1>2 DEF NextTeardown, Goto, SimType
  <2>2. t \in SimType /\ t.pc = "teardown" /\ t.u = sim.u + 1 /\ t.d = 0 /\ t.p = 0
    <3>1. "teardown" \in Pcs /\ sim.u + 1 \in Nat
      BY <1>1, PcFacts
    <3> QED
      BY <1>1, <3>1 DEF SimType
  <2> HIDE DEF t
  <2>3. t.u \in Users
    BY <1>1, <1>2, <2>2, Defs
  <2> QED
    BY <1>1, <1>2, <2>1, <2>2, <2>3, Defs, PcFacts DEF Cursor
<1>3. CASE ~(sim.u < Len(UserDefs))
  <2> DEFINE t == [sim EXCEPT !.pc = "torn"]
  <2>1. NextTeardown = t
    BY <1>3 DEF NextTeardown, Goto
  <2>2. t \in SimType /\ t.pc = "torn" /\ t.u = sim.u /\ t.d = 0 /\ t.p = 0
    <3>1. "torn" \in Pcs
      BY DEF Pcs
    <3> QED
      BY <1>1, <3>1 DEF SimType
  <2> HIDE DEF t
  <2> QED
    BY <1>1, <1>3, <2>1, <2>2, PcFacts DEF Cursor, AtUser
<1> QED
  BY <1>2, <1>3

LEMMA TeardownLoginOutcome ==
    ASSUME Base, TeardownLogin
    PROVE  /\ Untouched /\ calm' \in BOOLEAN
           /\ \/ sim' = Goto("deleteMe") /\ sim.u \in db.users /\ skipped' = skipped
              \/ sim' = NextTeardown /\ (sim.u \notin db.users \/ sim.u \in skipped')
           /\ skipped' \in {skipped, skipped \cup {sim.u}}
<1> DEFINE t(st) == IF st = "ok" THEN Goto("deleteMe") ELSE NextTeardown
<1>1. PICK b \in Answers(Login(sim.u)) :
        /\ Call(b, t(b.status))
        /\ skipped' = IF b.status = "failed" THEN skipped \cup {sim.u} ELSE skipped
  BY BaseFacts DEF TeardownLogin
<1>2. t("ok") = Goto("deleteMe") /\ t("unauthorized") = NextTeardown /\ t("failed") = NextTeardown
  OBVIOUS
<1> HIDE DEF t
<1>3. /\ Called(b, t(b.status), {"ok", "unauthorized"})
      /\ Untouched
      /\ b.status = "ok" => sim.u \in db.users
      /\ b.status = "unauthorized" => sim.u \notin db.users
  BY <1>1, BaseFacts, LoginEffect
<1>4. calm \in BOOLEAN
  BY DEF Base
<1>5. sim' = t(b.status) /\ b.status \in {"ok", "unauthorized", "failed"} /\ calm' \in BOOLEAN
  BY <1>3, <1>4, CalledFacts
<1> QED
  BY <1>1, <1>2, <1>3, <1>5

LEMMA TeardownDeleteOutcome ==
    ASSUME Base, TeardownDelete
    PROVE  /\ calm' \in BOOLEAN
           /\ \/ UserGone(sim.u) /\ sim' = NextTeardown
              \/ (Untouched \/ UserGone(sim.u)) /\ sim' = Fatal /\ calm' # TRUE
<1> DEFINE t(st) == IF st = "deleted" THEN NextTeardown ELSE Fatal
<1>1. PICK b \in Answers(DeleteMe(sim.u)) : Call(b, t(b.status))
  BY BaseFacts DEF TeardownDelete
<1>2. t("deleted") = NextTeardown /\ t("notfound") = Fatal /\ t("failed") = Fatal
  OBVIOUS
<1> HIDE DEF t
<1>3. /\ Called(b, t(b.status), {"deleted", "notfound"})
      /\ Untouched \/ UserGone(sim.u)
      /\ b.status = "deleted" => UserGone(sim.u)
      /\ b.status = "notfound" => sim.u \notin db.users
  BY <1>1, BaseFacts, DeleteMeEffect
<1>4. calm \in BOOLEAN /\ sim.u \in db.users
  BY BaseFacts, PcFacts DEF Base, TeardownDelete, At
<1>5. /\ sim' = t(b.status) /\ b.status \in {"deleted", "notfound", "failed"} /\ calm' \in BOOLEAN
      /\ calm' = TRUE => b.status # "failed"
  BY <1>3, <1>4, CalledFacts
<1> QED
  BY <1>2, <1>3, <1>4, <1>5

LEMMA TeardownKeepsBase == ASSUME Base, Teardown PROVE Base'
<1>1. /\ sim.pc \in {"teardown", "deleteMe"} /\ sim \in SimType /\ sim.u \in Users /\ sim.d = 0
      /\ sim.p = 0
  BY BaseFacts, PcFacts DEF Teardown, TeardownLogin, TeardownDelete, At, Cursor
<1>2. Cursor(NextTeardown) /\ NextTeardown.pc \notin LoggedIn
  BY <1>1, NextTeardownFacts, PcFacts
<1>3. CASE TeardownLogin
  <2>1. Gets(sim, Goto("deleteMe"))
    BY <1>1, GotoCursor, PcFacts DEF Goto
  <2>2. DbOK' /\ db' = db
    BY <1>3, TeardownLoginOutcome, BaseFacts, RunDbKeeps DEF RunDb, Untouched
  <2>3. skipped' \subseteq Users
    BY <1>1, <1>3, TeardownLoginOutcome DEF Base
  <2>4. Cursor(sim') /\ (sim'.pc \in LoggedIn => sim'.u \in db'.users)
    BY <1>2, <1>3, <2>1, <2>2, TeardownLoginOutcome DEF Gets
  <2>5. creds' = creds /\ touched' = touched /\ calm' \in BOOLEAN
    BY <1>3, TeardownLoginOutcome DEF TeardownLogin
  <2> QED
    BY <2>2, <2>3, <2>4, <2>5 DEF Base
<1>4. CASE TeardownDelete
  <2>1. DbOK'
    BY <1>4, TeardownDeleteOutcome, BaseFacts, RunDbKeeps, UserGoneKeeps DEF RunDb
  <2>2. Cursor(sim') /\ sim'.pc \notin LoggedIn
    BY <1>2, <1>4, TeardownDeleteOutcome, FatalFacts
  <2>3. UNCHANGED <<creds, touched, skipped>> /\ calm' \in BOOLEAN
    BY <1>4, TeardownDeleteOutcome DEF TeardownDelete
  <2> QED
    BY <2>1, <2>2, <2>3 DEF Base
<1> QED
  BY <1>3, <1>4 DEF Teardown

LEMMA StartFacts ==
    ASSUME Base, Start
    PROVE  /\ Base' /\ db' = db /\ sim'.pc \in {"login", "teardown"} /\ sim'.u = 1
           /\ touched' = {} /\ skipped' = {} /\ calm' = TRUE
<1>1. 1 \in Users
  BY Defs
<1>2. PICK pc \in {"login", "teardown"} : sim' = [Off EXCEPT !.pc = pc, !.u = 1]
  BY DEF Start
<1>3. Cursor(sim')
  BY <1>1, <1>2, LoginCursor
<1>4. sim'.pc = pc /\ sim'.u = 1
  BY <1>2 DEF Off
<1>5. UNCHANGED <<db, nextID, creds>> /\ touched' = {} /\ skipped' = {} /\ calm' = TRUE
  BY DEF Start
<1>6. DbOK'
  BY <1>5, BaseFacts, RunDbKeeps DEF RunDb, Untouched
<1> QED
  BY <1>3, <1>4, <1>5, <1>6, PcFacts DEF Base

LEMMA StopFacts ==
    ASSUME Base, Stop
    PROVE  Base' /\ db' = db /\ sim'.pc = "off"
<1>1. UNCHANGED <<db, nextID, creds, touched, skipped, calm>> /\ sim' = Off
  BY DEF Stop
<1>2. DbOK'
  BY <1>1, BaseFacts, RunDbKeeps DEF RunDb, Untouched
<1>3. Cursor(sim') /\ sim'.pc = "off"
  BY <1>1, OffCursor, OffType
<1> QED
  BY <1>1, <1>2, <1>3, PcFacts DEF Base

LEMMA EditKeepsBase ==
    ASSUME Base, NEW u \in Users, Edit(u)
    PROVE  Base' /\ db'.users = db.users /\ sim' = sim /\ skipped' = skipped /\ EditStep(u)
           /\ touched' = touched \cup {u} /\ calm' = calm
<1>1. EditStep(u) /\ sim' = sim /\ touched' = touched \cup {u}
  BY BaseFacts, EditEffect
<1>2. UNCHANGED <<creds, calm, skipped>>
  BY DEF Edit
<1>3. DbOK' /\ db'.users = db.users
  BY <1>1, BaseFacts, EditStepKeeps
<1> QED
  BY <1>1, <1>2, <1>3 DEF Base

LEMMA InitBase == ASSUME Init PROVE Base
<1>1. DbOK
  BY DEF Init, DbOK, Rows, IdsUsed, Unique, Referenced
<1>2. Cursor(sim) /\ sim.pc = "off"
  BY OffCursor, OffType DEF Init
<1> QED
  BY <1>1, <1>2, PcFacts DEF Init, Base

LEMMA StutterKeepsBase == ASSUME Base, UNCHANGED vars PROVE Base'
<1>1. UNCHANGED <<db, nextID, creds, touched, skipped, calm, sim>>
  BY DEF vars
<1>2. DbOK'
  BY <1>1, BaseFacts, RunDbKeeps DEF RunDb, Untouched
<1> QED
  BY <1>1, <1>2 DEF Base

LEMMA BaseInvariant == Spec => []Base
<1>1. Base /\ [Next]_vars => Base'
  <2> SUFFICES ASSUME Base, [Next]_vars PROVE Base'
    OBVIOUS
  <2>1. CASE Start
    BY <2>1, StartFacts
  <2>2. CASE Stop
    BY <2>2, StopFacts
  <2>3. CASE Run
    BY <2>3, RunKeepsBase
  <2>4. CASE Teardown
    BY <2>4, TeardownKeepsBase
  <2>5. CASE \E u \in Users : Edit(u)
    BY <2>5, EditKeepsBase
  <2>6. CASE UNCHANGED vars
    BY <2>6, StutterKeepsBase
  <2> QED
    BY <2>1, <2>2, <2>3, <2>4, <2>5, <2>6 DEF Next
<1> QED
  BY <1>1, InitBase, PTL DEF Spec

\* The rows and the cursor are what their columns and the configuration allow: teardown and Run
\* never go past the last user, and every row is of a user of the configuration.
THEOREM ProvisioningTypesHold == Spec => []TypeOK
<1>1. Base => TypeOK
  <2> SUFFICES ASSUME Base PROVE TypeOK
    OBVIOUS
  <2>1. Fields
    BY RowsFields DEF Base, DbOK
  <2>2. sim.u \in 0 .. Len(UserDefs)
    BY BaseFacts, Defs
  <2> QED
    BY <2>1, <2>2 DEF TypeOK, Base, Fields, RoomRow, DeviceRow, SchedRow, PeriodRow, Caps
<1> QED
  BY <1>1, BaseInvariant, PTL

\* While a teardown runs, the users before its cursor are gone or were skipped.
TornSoFar ==
    /\ sim.pc \in {"teardown", "deleteMe"} => \A v \in db.users : v \in skipped \/ v >= sim.u
    /\ sim.pc = "torn" => db.users \subseteq skipped

LEMMA RunIsNoTeardown ==
    ASSUME Base, Run
    PROVE  sim'.pc \notin {"teardown", "deleteMe", "torn"}
<1> DEFINE T == {"teardown", "deleteMe", "torn"}
<1>1. Fatal.pc \notin T
  BY FatalFacts
<1>2. ASSUME NEW pc, pc \notin T PROVE Goto(pc).pc \notin T
  BY <1>2, BaseFacts DEF Goto, SimType
<1>3. \A s \in SimType : s.u \in Users => NextUser(s).pc \notin T
  BY NextUserCursor
<1>4. ASSUME NEW s \in SimType, s.u \in Users, s.d = 0, s.p = 0, s.r <= Len(RoomDefs(s.u))
      PROVE  NextRoom(s).pc \notin T
  BY <1>4, NextRoomCursor
<1>5. ASSUME NEW s \in SimType, s.u \in Users, s.r \in DOMAIN RoomDefs(s.u), s.p = 0
      PROVE  NextDevice(s).pc \notin T
  <2>1. CASE s.d < Len(DeviceDefs(s.u, s.r))
    BY <2>1 DEF NextDevice, SimType
  <2>2. CASE ~(s.d < Len(DeviceDefs(s.u, s.r)))
    <3> DEFINE t == [s EXCEPT !.d = 0]
    <3>1. t \in SimType /\ t.u = s.u /\ t.r = s.r /\ t.d = 0 /\ t.p = 0
      BY <1>5 DEF SimType
    <3>2. NextDevice(s) = Goal(t)
      BY <2>2 DEF NextDevice
    <3> HIDE DEF t
    <3>3. Goal(t).pc \notin T
      BY <1>5, <3>1, GoalCursor
    <3> QED
      BY <3>2, <3>3
  <2> QED
    BY <2>1, <2>2
<1>6. ASSUME NEW s \in SimType PROVE NextPeriod(s).pc \notin T
  BY DEF NextPeriod, SimType
<1> HIDE DEF T
<1>7. ASSUME NEW id \in Nat, sim.pc \in InRoom, sim.p = 0
      PROVE  NextDevice(WithRoom(id)).pc \notin T /\ NextDevice(Assigned).pc \notin T
  <2>1. \A t \in {WithRoom(id), Assigned} : t \in SimType /\ t.u = sim.u /\ t.r = sim.r /\ t.p = sim.p
    BY WithFacts
  <2> QED
    BY <1>5, <1>7, <2>1, InRoomFacts
<1>8. ASSUME NEW id \in Nat PROVE NextPeriod(WithSchedule(id)).pc \notin T /\ WithDevice(id).pc = "assign"
  BY <1>6, WithFacts
<1>9. nextID \in Nat /\ (\A m \in sim.roomsByName : m.id \in Nat)
      /\ (\A x \in sim.devicesByHwID : x.id \in Nat) /\ (\A s \in db.scheds : s.id \in Nat)
  BY BaseFacts, SimFields, RowsFields DEF DbOK, IdsUsed, RoomRow, DeviceRow, Fields, SchedRow
<1>10. CASE RunLogin \/ RunRegister \/ RunRelogin
  BY <1>1, <1>2, <1>10, RunLoginOutcome, RunRegisterOutcome, RunReloginOutcome DEF T
<1>11. CASE ListRooms
  BY <1>1, <1>11, ListRoomsOutcome, WithRoomsFacts DEF T, ListRooms
<1>12. CASE ListDevices
  <2>1. sim.u \in Users
    BY <1>12, BaseFacts, PcFacts DEF ListDevices, At
  <2>2. /\ WithDevices \in SimType /\ WithDevices.u = sim.u
        /\ WithDevices.r = 0 /\ WithDevices.d = 0 /\ WithDevices.p = 0
    BY <1>12, WithDevicesFacts DEF ListDevices
  <2>3. 0 <= Len(RoomDefs(sim.u))
    BY <2>1, RoomDefsType
  <2>4. NextRoom(WithDevices).pc \notin T
    BY <1>4, <2>1, <2>2, <2>3
  <2> QED
    BY <1>1, <1>12, <2>4, ListDevicesOutcome DEF T
<1>13. CASE ProvisionRoom \/ AssignDevice
  <2>1. sim.pc \in InRoom /\ sim.p = 0
    BY <1>13, InRoomFacts DEF ProvisionRoom, AssignDevice, At, InRoom
  <2>2. CASE ProvisionRoom
    BY <1>1, <1>7, <1>9, <2>1, <2>2, ProvisionRoomOutcome DEF T
  <2>3. CASE AssignDevice
    BY <1>1, <1>7, <1>9, <2>1, <2>3, AssignDeviceOutcome DEF T
  <2> QED
    BY <1>13, <2>2, <2>3
<1>14. CASE ProvisionDevice
  BY <1>1, <1>8, <1>9, <1>14, ProvisionDeviceOutcome DEF T
<1>15. CASE SetDesiredState \/ ActivateSchedule
  <2>1. sim.pc \in InRoom /\ sim.p = 0 /\ sim.d = 0
    BY <1>15, InRoomFacts DEF SetDesiredState, ActivateSchedule, At, InRoom
  <2>2. NextRoom(sim).pc \notin T
    BY <1>4, <2>1, InRoomFacts
  <2> QED
    BY <1>1, <1>15, <2>2, SetDesiredStateOutcome, ActivateScheduleOutcome DEF T
<1>16. CASE ProvisionSchedule \/ ListSchedules
  <2>1. CASE ProvisionSchedule
    BY <1>1, <1>2, <1>8, <1>9, <2>1, ProvisionScheduleOutcome DEF T
  <2>2. CASE ListSchedules
    BY <1>1, <1>8, <1>9, <2>2, ListSchedulesOutcome DEF T
  <2> QED
    BY <1>16, <2>1, <2>2
<1>17. CASE ProvisionPeriod
  BY <1>1, <1>6, <1>17, ProvisionPeriodOutcome, BaseFacts DEF T
<1>18. CASE WriteCredentials
  <2>1. sim.u \in Users /\ sim \in SimType
    BY <1>18, BaseFacts, PcFacts DEF WriteCredentials, At
  <2> QED
    BY <1>1, <1>3, <1>18, <2>1, WriteCredentialsOutcome DEF T
<1> QED
  BY <1>10, <1>11, <1>12, <1>13, <1>14, <1>15, <1>16, <1>17, <1>18 DEF Run, T

LEMMA TornSoFarInvariant == Spec => []TornSoFar
<1>1. Base /\ TornSoFar /\ [Next]_vars => TornSoFar'
  <2> SUFFICES ASSUME Base, TornSoFar, [Next]_vars PROVE TornSoFar'
    OBVIOUS
  <2>0. \A v \in db.users : v \in Nat /\ v >= 1
    BY RowsFields, Defs DEF Base, DbOK, Fields
  <2>1. CASE Start
    BY <2>0, <2>1, StartFacts DEF TornSoFar
  <2>2. CASE Stop
    BY <2>2, StopFacts DEF TornSoFar
  <2>3. CASE Run
    BY <2>3, RunIsNoTeardown DEF TornSoFar
  <2>4. CASE TeardownLogin
    <3>1. sim.pc = "teardown" /\ sim.u \in Nat /\ sim \in SimType
      BY <2>4, BaseFacts DEF TeardownLogin, At
    <3>2. db' = db /\ skipped \subseteq skipped'
      BY <2>4, TeardownLoginOutcome DEF Untouched
    <3>3. CASE sim' = Goto("deleteMe")
      <4>1. sim'.pc = "deleteMe" /\ sim'.u = sim.u
        BY <3>1, <3>3 DEF Goto, SimType
      <4> QED
        BY <3>1, <3>2, <4>1 DEF TornSoFar
    <3>4. CASE sim' = NextTeardown /\ (sim.u \notin db.users \/ sim.u \in skipped')
      <4>1. \A v \in db.users : v \in skipped' \/ v >= sim.u + 1
        BY <2>0, <3>1, <3>2, <3>4 DEF TornSoFar
      <4>2. \A v \in db.users : v <= Len(UserDefs)
        BY RowsFields, Defs DEF Base, DbOK, Fields
      <4> QED
        BY <2>0, <3>1, <3>2, <3>4, <4>1, <4>2, Defs, NextTeardownFacts DEF TornSoFar
    <3> QED
      BY <2>4, <3>3, <3>4, TeardownLoginOutcome
  <2>5. CASE TeardownDelete
    <3>1. sim.pc = "deleteMe" /\ sim.u \in Nat
      BY <2>5, BaseFacts DEF TeardownDelete, At
    <3>2. CASE sim' = Fatal
      BY <3>2, FatalFacts DEF TornSoFar
    <3>3. CASE UserGone(sim.u) /\ sim' = NextTeardown
      <4>1. db'.users = db.users \ {sim.u} /\ skipped' = skipped
        BY <2>5, <3>3, BecomesFields DEF UserGone, TeardownDelete
      <4>2. \A v \in db'.users : v \in skipped' \/ v >= sim.u + 1
        BY <2>0, <3>1, <4>1 DEF TornSoFar
      <4>3. \A v \in db'.users : v \in Nat /\ v <= Len(UserDefs)
        BY <4>1, RowsFields, Defs DEF Base, DbOK, Fields
      <4> QED
        BY <3>1, <3>3, <4>2, <4>3, Defs, NextTeardownFacts DEF TornSoFar
    <3> QED
      BY <2>5, <3>2, <3>3, TeardownDeleteOutcome
  <2>6. CASE \E u \in Users : Edit(u)
    BY <2>6, EditKeepsBase DEF TornSoFar
  <2>7. CASE UNCHANGED vars
    BY <2>7 DEF vars, TornSoFar
  <2> QED
    BY <2>1, <2>2, <2>3, <2>4, <2>5, <2>6, <2>7 DEF Next, Teardown
<1>2. Init => TornSoFar
  BY OffType DEF Init, TornSoFar
<1> QED
  BY <1>1, <1>2, BaseInvariant, PTL DEF Spec

\* A teardown that has come to its end leaves users only where its login failed, and no room,
\* device, schedule or period without the row it refers to.
THEOREM TeardownCompletes == Spec => []TeardownComplete
<1>1. Base /\ TornSoFar => TeardownComplete
  BY DEF Base, DbOK, Referenced, TornSoFar, TeardownComplete, At
<1> QED
  BY <1>1, BaseInvariant, TornSoFarInvariant, PTL
-----------------------------------------------------------------------------
(* What Run has established so far. *)

RoomAt(D, id, u, r) == \E m \in D.rooms : m.id = id /\ m.user = u /\ m.name = r

\* The first n devices of a room are in it, under their names.
Placed(D, id, u, r, n) ==
    \A d \in 1 .. n : \E x \in D.devices :
        x.user = u /\ x.hwID = <<u, r, d>> /\ x.name = DeviceName(r, d) /\ x.room = id

\* The first n periods of a schedule are there, or one of a person's own is in their way.
Filled(D, k, n) ==
    \A p \in 1 .. n : \E q \in D.periods : q.sched = k /\ q.p \in {0, p}

InForce(D, id, k, n) ==
    \E s \in D.scheds : s.id = k /\ s.room = id /\ s.name = 1 /\ s.active = TRUE /\ Filled(D, k, n)

Provided(D, u, r) ==
    \E m \in D.rooms :
        /\ m.user = u /\ m.name = r
        /\ Placed(D, m.id, u, r, Len(DeviceDefs(u, r)))
        /\ RoomDefs(u)[r].goal = "desired" => m.targets = TRUE
        /\ RoomDefs(u)[r].goal = "schedule" =>
             \E k \in Nat : InForce(D, m.id, k, RoomDefs(u)[r].periods)

DoneUser(D, u) == u \in D.users /\ \A r \in DOMAIN RoomDefs(u) : Provided(D, u, r)

\* What a lookup after a conflict finds is there.
RoomsKnown(D, s) == \A m \in s.roomsByName : RoomAt(D, m.id, s.u, m.name)
DevicesKnown(D, s) ==
    \A y \in s.devicesByHwID : \E x \in D.devices : x.id = y.id /\ x.user = s.u /\ x.hwID = y.hwID

Known(D, s) ==
    /\ s.pc \in InRoom \cup {"listDevices"} => RoomsKnown(D, s)
    /\ s.pc \in InRoom => DevicesKnown(D, s)

Here(D, s) ==
    LET size == Len(DeviceDefs(s.u, s.r))
        def == RoomDefs(s.u)[s.r]
    IN  /\ s.pc \in InRoom \ {"room"} => RoomAt(D, s.room, s.u, s.r)
        /\ s.pc \in {"device", "assign"} => Placed(D, s.room, s.u, s.r, s.d - 1)
        /\ s.pc = "assign" =>
             \E x \in D.devices : x.id = s.device /\ x.user = s.u /\ x.hwID = <<s.u, s.r, s.d>>
        /\ s.pc \in InRoom \ {"room", "device", "assign"} => Placed(D, s.room, s.u, s.r, size)
        /\ s.pc = "desired" => def.goal = "desired"
        /\ s.pc \in {"schedule", "listSchedules", "period", "activate"} => def.goal = "schedule"
        /\ s.pc = "listSchedules" => \E x \in D.scheds : x.room = s.room
        /\ s.pc \in {"period", "activate"} =>
             \E x \in D.scheds : x.id = s.sched /\ x.room = s.room /\ x.name = 1
        /\ s.pc = "period" => Filled(D, s.sched, s.p - 1)
        /\ s.pc = "activate" => Filled(D, s.sched, def.periods)

Mine(D, s) ==
    /\ Known(D, s)
    /\ s.pc \in InRoom => Here(D, s) /\ \A r \in 1 .. s.r - 1 : Provided(D, s.u, r)
    /\ s.pc = "credentials" => \A r \in DOMAIN RoomDefs(s.u) : Provided(D, s.u, r)

Running == {"login", "register", "relogin", "listRooms", "listDevices", "credentials"} \cup InRoom

Progress(D, T, s) ==
    /\ s.pc \in Running => \A v \in 1 .. s.u - 1 : v \notin T => DoneUser(D, v)
    /\ s.pc \in Running /\ s.u \notin T => Mine(D, s)
    /\ s.pc = "running" => \A v \in Users \ T : DoneUser(D, v)

-----------------------------------------------------------------------------
(* What a step of the database leaves to a user. *)

\* From D to E the rows of v stay and nothing is withdrawn; only the device h may change its
\* room and its name.
Grows(D, E, v, h) ==
    /\ v \in D.users => v \in E.users
    /\ \A m \in D.rooms : m.user = v =>
         \E n \in E.rooms : /\ n.id = m.id /\ n.user = v /\ n.name = m.name
                            /\ m.targets = TRUE => n.targets = TRUE
    /\ \A d \in D.devices : d.user = v =>
         \E e \in E.devices : /\ e.id = d.id /\ e.user = v /\ e.hwID = d.hwID
                              /\ d.hwID # h => e.room = d.room /\ e.name = d.name
    /\ \A s \in D.scheds : (\E m \in D.rooms : m.id = s.room /\ m.user = v) =>
         \E t \in E.scheds : /\ t.id = s.id /\ t.room = s.room /\ t.name = s.name
                             /\ s.active = TRUE => t.active = TRUE
    /\ \A p \in D.periods :
         (\E s \in D.scheds, m \in D.rooms : s.id = p.sched /\ m.id = s.room /\ m.user = v) => p \in E.periods

LEMMA RoomAtStays ==
    ASSUME NEW D, NEW E, NEW v, NEW h, Grows(D, E, v, h), NEW id, NEW r, RoomAt(D, id, v, r)
    PROVE  RoomAt(E, id, v, r)
BY DEF Grows, RoomAt

LEMMA PlacedStays ==
    ASSUME NEW D, NEW E, NEW v, NEW h, Grows(D, E, v, h), NEW id, NEW r, NEW n, Placed(D, id, v, r, n),
           \A d \in 1 .. n : h # <<v, r, d>>
    PROVE  Placed(E, id, v, r, n)
<1> SUFFICES ASSUME NEW d \in 1 .. n
             PROVE  \E x \in E.devices : /\ x.user = v /\ x.hwID = <<v, r, d>>
                                         /\ x.name = DeviceName(r, d) /\ x.room = id
  BY DEF Placed
<1>1. PICK x \in D.devices : /\ x.user = v /\ x.hwID = <<v, r, d>>
                             /\ x.name = DeviceName(r, d) /\ x.room = id
  BY DEF Placed
<1>2. x.hwID # h
  BY <1>1
<1>3. PICK e \in E.devices : e.user = v /\ e.hwID = x.hwID /\ e.room = x.room /\ e.name = x.name
  BY <1>1, <1>2 DEF Grows
<1> QED
  BY <1>1, <1>3

LEMMA SchedStays ==
    ASSUME NEW D, NEW E, NEW v, NEW h, Grows(D, E, v, h), NEW s \in D.scheds, NEW r,
           RoomAt(D, s.room, v, r)
    PROVE  \E t \in E.scheds : /\ t.id = s.id /\ t.room = s.room /\ t.name = s.name
                               /\ s.active = TRUE => t.active = TRUE
BY DEF Grows, RoomAt

LEMMA FilledStays ==
    ASSUME NEW D, NEW E, NEW v, NEW h, Grows(D, E, v, h), NEW s \in D.scheds, NEW r,
           RoomAt(D, s.room, v, r), NEW n, Filled(D, s.id, n)
    PROVE  Filled(E, s.id, n)
<1>1. \A p \in D.periods : p.sched = s.id => p \in E.periods
  BY DEF Grows, RoomAt
<1> QED
  BY <1>1 DEF Filled

LEMMA InForceStays ==
    ASSUME NEW D, NEW E, NEW v, NEW h, Grows(D, E, v, h), NEW id, NEW k, NEW n, NEW r,
           RoomAt(D, id, v, r), InForce(D, id, k, n)
    PROVE  InForce(E, id, k, n)
<1>1. PICK s \in D.scheds : s.id = k /\ s.room = id /\ s.name = 1 /\ s.active = TRUE /\ Filled(D, k, n)
  BY DEF InForce
<1>2. Filled(E, k, n)
  BY <1>1, FilledStays
<1>3. \E t \in E.scheds : t.id = k /\ t.room = id /\ t.name = 1 /\ t.active = TRUE
  BY <1>1, SchedStays
<1> QED
  BY <1>2, <1>3 DEF InForce

LEMMA ProvidedStays ==
    ASSUME NEW D, NEW E, NEW v, NEW h, Grows(D, E, v, h), NEW r, Provided(D, v, r),
           \A d : h # <<v, r, d>>
    PROVE  Provided(E, v, r)
<1> DEFINE size == Len(DeviceDefs(v, r))
           def == RoomDefs(v)[r]
<1>1. PICK m \in D.rooms :
        /\ m.user = v /\ m.name = r /\ Placed(D, m.id, v, r, size)
        /\ def.goal = "desired" => m.targets = TRUE
        /\ def.goal = "schedule" => \E k \in Nat : InForce(D, m.id, k, def.periods)
  BY DEF Provided
<1> HIDE DEF size, def
<1>2. PICK n \in E.rooms : /\ n.id = m.id /\ n.user = v /\ n.name = r
                           /\ m.targets = TRUE => n.targets = TRUE
  BY <1>1 DEF Grows
<1>3. Placed(E, n.id, v, r, size)
  BY <1>1, <1>2, PlacedStays
<1>4. RoomAt(D, m.id, v, r)
  BY <1>1 DEF RoomAt
<1>5. \A k \in Nat : InForce(D, m.id, k, def.periods) => InForce(E, n.id, k, def.periods)
  BY <1>2, <1>4, InForceStays
<1> QED
  BY <1>1, <1>2, <1>3, <1>5 DEF Provided, size, def

LEMMA DoneUserStays ==
    ASSUME NEW D, NEW E, NEW v, NEW h, Grows(D, E, v, h), DoneUser(D, v),
           \A r, d : h # <<v, r, d>>
    PROVE  DoneUser(E, v)
<1>1. v \in E.users
  BY DEF Grows, DoneUser
<1>2. \A r \in DOMAIN RoomDefs(v) : Provided(E, v, r)
  BY ProvidedStays DEF DoneUser
<1> QED
  BY <1>1, <1>2 DEF DoneUser

LEMMA UntouchedGrows == ASSUME DbOK, Untouched, NEW v, NEW h PROVE Grows(db, db', v, h)
BY DEF Untouched, Grows

LEMMA NewUserGrows == ASSUME DbOK, NEW u, NewUser(u), NEW v, NEW h PROVE Grows(db, db', v, h)
<1>1. /\ db'.users = db.users \cup {u} /\ db'.rooms = db.rooms /\ db'.devices = db.devices
      /\ db'.scheds = db.scheds /\ db'.periods = db.periods
  BY BecomesFields DEF NewUser
<1> QED
  BY <1>1 DEF Grows

LEMMA NewRoomGrows == ASSUME DbOK, NEW u, NEW n, NewRoom(u, n), NEW v, NEW h PROVE Grows(db, db', v, h)
<1>1. /\ db'.users = db.users /\ db.rooms \subseteq db'.rooms /\ db'.devices = db.devices
      /\ db'.scheds = db.scheds /\ db'.periods = db.periods
  BY BecomesFields DEF NewRoom
<1> QED
  BY <1>1 DEF Grows

LEMMA NewDeviceGrows ==
    ASSUME DbOK, NEW u, NEW r, NEW d, NewDevice(u, r, d), NEW v, NEW h PROVE Grows(db, db', v, h)
<1>1. /\ db'.users = db.users /\ db'.rooms = db.rooms /\ db.devices \subseteq db'.devices
      /\ db'.scheds = db.scheds /\ db'.periods = db.periods
  BY BecomesFields DEF NewDevice
<1> QED
  BY <1>1 DEF Grows

LEMMA NewSchedGrows == ASSUME DbOK, NEW id, NewSched(id), NEW v, NEW h PROVE Grows(db, db', v, h)
<1>1. /\ db'.users = db.users /\ db'.rooms = db.rooms /\ db'.devices = db.devices
      /\ db.scheds \subseteq db'.scheds /\ db'.periods = db.periods
  BY BecomesFields DEF NewSched
<1> QED
  BY <1>1 DEF Grows

LEMMA NewPeriodGrows ==
    ASSUME DbOK, NEW s, NEW p, NEW k, NewPeriod(s, p, k), NEW v, NEW h PROVE Grows(db, db', v, h)
<1>1. /\ db'.users = db.users /\ db'.rooms = db.rooms /\ db'.devices = db.devices
      /\ db'.scheds = db.scheds /\ db.periods \subseteq db'.periods
  BY BecomesFields DEF NewPeriod
<1> QED
  BY <1>1 DEF Grows

LEMMA MovedGrows ==
    ASSUME DbOK, NEW x, NEW room, NEW n, Moved(x, room, n), NEW v, NEW h, x.user = v => x.hwID = h
    PROVE  Grows(db, db', v, h)
<1> DEFINE y == [x EXCEPT !.room = room, !.name = n]
<1>1. Fields /\ x \in db.devices /\ x \in DeviceRow
  BY RowsFields DEF Moved, DbOK, Fields
<1>2. y.id = x.id /\ y.user = x.user /\ y.hwID = x.hwID
  BY <1>1 DEF DeviceRow
<1>3. /\ db'.users = db.users /\ db'.rooms = db.rooms /\ db'.devices = (db.devices \ {x}) \cup {y}
      /\ db'.scheds = db.scheds /\ db'.periods = db.periods
  BY BecomesFields DEF Moved
<1> HIDE DEF y
<1> QED
  BY <1>1, <1>2, <1>3 DEF Grows

LEMMA TargetedGrows ==
    ASSUME DbOK, NEW id, NEW on, Targeted(id, on), NEW v, NEW h,
           on # TRUE => \A m \in db.rooms : m.user = v => m.id # id
    PROVE  Grows(db, db', v, h)
<1> DEFINE new(m) == IF m.id = id THEN [m EXCEPT !.targets = on] ELSE m
<1>1. Fields /\ Becomes(db.users, {new(m) : m \in db.rooms}, db.devices, db.scheds, db.periods)
  BY RowsFields DEF Targeted, DbOK
<1>2. ASSUME NEW m \in db.rooms
      PROVE  /\ new(m).id = m.id /\ new(m).user = m.user /\ new(m).name = m.name
             /\ new(m).targets = IF m.id = id THEN on ELSE m.targets
  BY <1>1 DEF Fields, RoomRow
<1> HIDE DEF new
<1>3. /\ db'.users = db.users /\ db'.rooms = {new(m) : m \in db.rooms} /\ db'.devices = db.devices
      /\ db'.scheds = db.scheds /\ db'.periods = db.periods
  BY <1>1, BecomesFields
<1>4. \A m \in db.rooms : m.user = v =>
        \E n \in db'.rooms : /\ n.id = m.id /\ n.user = v /\ n.name = m.name
                             /\ m.targets = TRUE => n.targets = TRUE
  BY <1>2, <1>3
<1> QED
  BY <1>3, <1>4 DEF Grows

LEMMA SchedSetGrows ==
    ASSUME DbOK, NEW s, NEW on, SchedSet(s, on), NEW v, NEW h,
           on # TRUE => \A m \in db.rooms : m.user = v => m.id # s.room
    PROVE  Grows(db, db', v, h)
<1> DEFINE x == [s EXCEPT !.active = on]
<1>1. /\ Fields /\ s \in db.scheds /\ s \in SchedRow
      /\ Becomes(db.users, db.rooms, db.devices, (db.scheds \ {s}) \cup {x}, db.periods)
  BY RowsFields DEF SchedSet, DbOK, Fields
<1>2. x.id = s.id /\ x.room = s.room /\ x.name = s.name /\ x.active = on
  BY <1>1 DEF SchedRow
<1> HIDE DEF x
<1>3. /\ db'.users = db.users /\ db'.rooms = db.rooms /\ db'.devices = db.devices
      /\ db'.scheds = (db.scheds \ {s}) \cup {x} /\ db'.periods = db.periods
  BY <1>1, BecomesFields
<1> QED
  BY <1>1, <1>2, <1>3 DEF Grows

\* What a step of Run does for user u leaves the other users alone.
LEMMA RunDbGrows ==
    ASSUME DbOK, NEW u, RunDb(u), NEW v, v # u, NEW h
    PROVE  Grows(db, db', v, h)
BY UntouchedGrows, NewUserGrows, NewRoomGrows, NewDeviceGrows, MovedGrows, TargetedGrows, NewSchedGrows,
   SchedSetGrows, NewPeriodGrows DEF RunDb

LEMMA RoomGoneGrows ==
    ASSUME DbOK, NEW m, RoomGone(m), NEW v, m.user # v, NEW h
    PROVE  Grows(db, db', v, h)
<1> DEFINE new(d) == IF d.room = m.id THEN [d EXCEPT !.room = 0] ELSE d
           ps == {p \in db.periods : \A s \in db.scheds : s.id = p.sched => s.room # m.id}
<1>1. /\ m \in db.rooms
      /\ Becomes(db.users, db.rooms \ {m}, {new(d) : d \in db.devices},
                 {s \in db.scheds : s.room # m.id}, ps)
  BY DEF RoomGone, DbOK
<1>2. m.id # 0
  BY <1>1 DEF DbOK, IdsUsed
<1>3. ASSUME NEW d \in db.devices, d.user = v PROVE new(d) = d
  <2>1. d.room # m.id
    BY <1>1, <1>2, <1>3 DEF DbOK, Referenced, Unique
  <2> QED
    BY <2>1
<1> HIDE DEF new
<1>4. /\ db'.users = db.users /\ db'.rooms = db.rooms \ {m}
      /\ db'.devices = {new(d) : d \in db.devices}
      /\ db'.scheds = {s \in db.scheds : s.room # m.id} /\ db'.periods = ps
  BY <1>1, BecomesFields
<1>5. \A d \in db.devices : d.user = v => d \in db'.devices
  BY <1>3, <1>4
<1>6. \A s \in db.scheds : (\E n \in db.rooms : n.id = s.room /\ n.user = v) => s \in db'.scheds
  BY <1>1, <1>4 DEF DbOK, Unique
<1>7. \A p \in db.periods :
        (\E s \in db.scheds, n \in db.rooms : s.id = p.sched /\ n.id = s.room /\ n.user = v)
          => p \in db'.periods
  <2> SUFFICES ASSUME NEW p \in db.periods, NEW s \in db.scheds, NEW n \in db.rooms,
                      s.id = p.sched, n.id = s.room, n.user = v
               PROVE  p \in ps
    BY <1>4
  <2>1. s.room # m.id
    BY <1>1 DEF DbOK, Unique
  <2>2. \A t \in db.scheds : t.id = p.sched => t = s
    BY DEF DbOK, Unique
  <2> QED
    BY <2>1, <2>2
<1>8. \A n \in db.rooms : n.user = v => n \in db'.rooms
  BY <1>4
<1> QED
  BY <1>4, <1>5, <1>6, <1>7, <1>8 DEF Grows

LEMMA RenamedGrows ==
    ASSUME DbOK, NEW m, Renamed(m), NEW v, m.user # v, NEW h
    PROVE  Grows(db, db', v, h)
<1>1. /\ db'.users = db.users /\ db.rooms \ {m} \subseteq db'.rooms /\ db'.devices = db.devices
      /\ db'.scheds = db.scheds /\ db'.periods = db.periods
  BY BecomesFields DEF Renamed
<1> QED
  BY <1>1 DEF Grows

LEMMA DeviceGoneGrows ==
    ASSUME DbOK, NEW x, DeviceGone(x), NEW v, x.user # v, NEW h
    PROVE  Grows(db, db', v, h)
<1>1. /\ db'.users = db.users /\ db'.rooms = db.rooms /\ db'.devices = db.devices \ {x}
      /\ db'.scheds = db.scheds /\ db'.periods = db.periods
  BY BecomesFields DEF DeviceGone
<1> QED
  BY <1>1 DEF Grows

LEMMA SchedGoneGrows ==
    ASSUME DbOK, NEW s, SchedGone(s), NEW v, \A m \in db.rooms : m.user = v => m.id # s.room, NEW h
    PROVE  Grows(db, db', v, h)
<1>1. /\ s \in db.scheds
      /\ db'.users = db.users /\ db'.rooms = db.rooms /\ db'.devices = db.devices
      /\ db'.scheds = db.scheds \ {s} /\ db'.periods = {p \in db.periods : p.sched # s.id}
  BY BecomesFields DEF SchedGone
<1>2. \A t \in db.scheds : t.id = s.id => t = s
  BY <1>1 DEF DbOK, Unique
<1> QED
  BY <1>1, <1>2 DEF Grows

LEMMA PeriodGoneGrows ==
    ASSUME DbOK, NEW p \in db.periods, PeriodGone(p), NEW s \in db.scheds, p.sched = s.id,
           NEW v, \A m \in db.rooms : m.user = v => m.id # s.room, NEW h
    PROVE  Grows(db, db', v, h)
<1>1. /\ db'.users = db.users /\ db'.rooms = db.rooms /\ db'.devices = db.devices
      /\ db'.scheds = db.scheds /\ db'.periods = db.periods \ {p}
  BY BecomesFields DEF PeriodGone
<1>2. \A t \in db.scheds : t.id = s.id => t = s
  BY DEF DbOK, Unique
<1> QED
  BY <1>1, <1>2 DEF Grows

\* What a person does leaves the other users alone.
LEMMA EditStepGrows ==
    ASSUME DbOK, NEW u, EditStep(u), NEW v, v # u, NEW h
    PROVE  Grows(db, db', v, h)
<1>1. ASSUME NEW m \in db.rooms, m.user = u, EditOfRoom(m) PROVE Grows(db, db', v, h)
  <2>1. \A n \in db.rooms : n.user = v => n.id # m.id
    BY <1>1 DEF DbOK, Unique
  <2> QED
    BY <1>1, <2>1, RoomGoneGrows, RenamedGrows, TargetedGrows DEF EditOfRoom
<1>2. ASSUME NEW d \in db.devices, d.user = u, EditOfDevice(d) PROVE Grows(db, db', v, h)
  BY <1>2, DeviceGoneGrows, MovedGrows DEF EditOfDevice
<1>3. ASSUME NEW s \in db.scheds, RoomOf(u, s.room), EditOfSched(s) PROVE Grows(db, db', v, h)
  <2>1. \A n \in db.rooms : n.user = v => n.id # s.room
    BY <1>3 DEF DbOK, Unique, RoomOf
  <2> QED
    BY <1>3, <2>1, SchedSetGrows, SchedGoneGrows, NewPeriodGrows, PeriodGoneGrows DEF EditOfSched
<1> QED
  BY <1>1, <1>2, <1>3 DEF EditStep

-----------------------------------------------------------------------------
(* Where the loops of Run continue, what they have established is what the place needs. *)

Before(D, T, s) ==
    /\ s.u \in D.users
    /\ \A v \in 1 .. s.u - 1 : v \notin T => DoneUser(D, v)
    /\ s.u \notin T => RoomsKnown(D, s) /\ DevicesKnown(D, s)

\* In a room that is there, after others that are complete.
Inside(D, T, s) ==
    /\ Before(D, T, s)
    /\ s.u \notin T => RoomAt(D, s.room, s.u, s.r) /\ \A r \in 1 .. s.r - 1 : Provided(D, s.u, r)

LEMMA RunningFacts ==
    /\ "running" \notin Running /\ Running \subseteq AtUser /\ InRoom \subseteq Running
    /\ {"login", "register", "relogin", "listRooms", "listDevices", "credentials"} \subseteq Running
    /\ {"off", "failed", "torn", "teardown", "deleteMe"} \cap Running = {}
BY DEF Running, AtUser, LoggedIn, InRoom

LEMMA NextUserProgress ==
    ASSUME NEW D, NEW T, NEW s \in SimType, s.u \in Users,
           \A v \in 1 .. s.u - 1 : v \notin T => DoneUser(D, v),
           s.u \notin T => DoneUser(D, s.u)
    PROVE  Progress(D, T, NextUser(s))
<1>1. s.u \in Nat /\ s.u <= Len(UserDefs) /\ Len(UserDefs) \in Nat /\ Users = 1 .. Len(UserDefs)
  BY Defs
<1>2. \A v \in 1 .. s.u : v \notin T => DoneUser(D, v)
  BY <1>1
<1>3. CASE s.u < Len(UserDefs)
  <2> DEFINE t == NextUser(s)
  <2>1. t.pc = "login" /\ t.u = s.u + 1
    BY <1>3 DEF NextUser, Off
  <2> HIDE DEF t
  <2>2. \A v \in 1 .. t.u - 1 : v \notin T => DoneUser(D, v)
    BY <1>1, <1>2, <2>1
  <2>3. Mine(D, t)
    BY <2>1, PcFacts DEF Mine, Known
  <2> QED
    BY <2>1, <2>2, <2>3 DEF Progress, t
<1>4. CASE ~(s.u < Len(UserDefs))
  <2> DEFINE t == NextUser(s)
  <2>1. t.pc = "running"
    BY <1>4 DEF NextUser, Off
  <2> HIDE DEF t
  <2>2. \A v \in Users \ T : DoneUser(D, v)
    BY <1>1, <1>2, <1>4
  <2> QED
    BY <2>1, <2>2, RunningFacts DEF Progress, t
<1> QED
  BY <1>3, <1>4

LEMMA EndUserProgress ==
    ASSUME NEW D, NEW T, NEW s \in SimType, s.u \in Users, Before(D, T, s),
           s.u \notin T => \A r \in DOMAIN RoomDefs(s.u) : Provided(D, s.u, r)
    PROVE  Progress(D, T, EndUser(s))
<1>1. CASE s.u \in LastOfGroup /\ UserDefs[s.u].interactive
  <2> DEFINE t == [s EXCEPT !.pc = "credentials"]
  <2>1. EndUser(s) = t
    BY <1>1 DEF EndUser
  <2>2. t.pc = "credentials" /\ t.u = s.u
    BY DEF SimType
  <2> HIDE DEF t
  <2>3. t.u \notin T => Mine(D, t)
    BY <2>2, PcFacts DEF Mine, Known
  <2>4. Progress(D, T, t)
    BY <2>2, <2>3 DEF Progress, Before
  <2> QED
    BY <2>1, <2>4
<1>2. CASE ~(s.u \in LastOfGroup /\ UserDefs[s.u].interactive)
  <2>1. EndUser(s) = NextUser(s)
    BY <1>2 DEF EndUser
  <2>2. s.u \notin T => DoneUser(D, s.u)
    BY DEF Before, DoneUser
  <2> QED
    BY <2>1, <2>2, NextUserProgress DEF Before
<1> QED
  BY <1>1, <1>2

LEMMA SameLists ==
    ASSUME NEW D, NEW T, NEW s, NEW t, t.u = s.u, t.roomsByName = s.roomsByName,
           t.devicesByHwID = s.devicesByHwID
    PROVE  /\ Before(D, T, s) <=> Before(D, T, t)
           /\ RoomsKnown(D, s) <=> RoomsKnown(D, t)
           /\ DevicesKnown(D, s) <=> DevicesKnown(D, t)
           /\ t.room = s.room /\ t.r = s.r => (Inside(D, T, s) <=> Inside(D, T, t))
BY DEF Before, Inside, RoomsKnown, DevicesKnown

LEMMA NextRoomProgress ==
    ASSUME NEW D, NEW T, NEW s \in SimType, s.u \in Users, s.r <= Len(RoomDefs(s.u)), Before(D, T, s),
           s.u \notin T => \A r \in 1 .. s.r : Provided(D, s.u, r)
    PROVE  Progress(D, T, NextRoom(s))
<1>1. s.r \in Nat /\ Len(RoomDefs(s.u)) \in Nat /\ DOMAIN RoomDefs(s.u) = 1 .. Len(RoomDefs(s.u))
  BY SimFields, RoomDefsType
<1>2. CASE s.r < Len(RoomDefs(s.u))
  <2> DEFINE t == [s EXCEPT !.pc = "room", !.r = s.r + 1, !.room = 0, !.sched = 0]
  <2>1. NextRoom(s) = t
    BY <1>2 DEF NextRoom
  <2>2. /\ t.pc = "room" /\ t.u = s.u /\ t.r = s.r + 1 /\ t.roomsByName = s.roomsByName
        /\ t.devicesByHwID = s.devicesByHwID
    BY DEF SimType
  <2> HIDE DEF t
  <2>3. Before(D, T, t)
    BY <2>2, SameLists
  <2>4. Here(D, t)
    BY <2>2 DEF Here, InRoom
  <2>5. t.u \notin T => Mine(D, t)
    BY <1>1, <2>2, <2>3, <2>4 DEF Mine, Known, Before
  <2>6. Progress(D, T, t)
    BY <2>2, <2>3, <2>5 DEF Progress, Before
  <2> QED
    BY <2>1, <2>6
<1>3. CASE ~(s.r < Len(RoomDefs(s.u)))
  <2>1. NextRoom(s) = EndUser(s) /\ s.r = Len(RoomDefs(s.u))
    BY <1>1, <1>3 DEF NextRoom
  <2> QED
    BY <1>1, <2>1, EndUserProgress
<1> QED
  BY <1>2, <1>3

\* All of a room is there but its goal.
LEMMA GoalProgress ==
    ASSUME NEW D, NEW T, NEW s \in SimType, s.u \in Users, s.r \in DOMAIN RoomDefs(s.u),
           Inside(D, T, s),
           s.u \notin T => Placed(D, s.room, s.u, s.r, Len(DeviceDefs(s.u, s.r)))
    PROVE  Progress(D, T, Goal(s))
<1> DEFINE goal == RoomDefs(s.u)[s.r].goal
<1>1. \/ goal = "desired" /\ Goal(s) = [s EXCEPT !.pc = "desired"]
      \/ goal = "schedule" /\ Goal(s) = [s EXCEPT !.pc = "schedule"]
      \/ goal \notin {"desired", "schedule"} /\ Goal(s) = NextRoom(s)
  BY DEF Goal
<1>2. ASSUME NEW pc \in {"desired", "schedule"}, pc = goal, Goal(s) = [s EXCEPT !.pc = pc]
      PROVE  Progress(D, T, Goal(s))
  <2> DEFINE t == [s EXCEPT !.pc = pc]
  <2>1. /\ t.pc = pc /\ t.u = s.u /\ t.r = s.r /\ t.room = s.room /\ t.roomsByName = s.roomsByName
        /\ t.devicesByHwID = s.devicesByHwID
    BY DEF SimType
  <2> HIDE DEF t
  <2>2. Inside(D, T, t)
    BY <2>1, SameLists
  <2>3. t.u \notin T => Here(D, t)
    BY <1>2, <2>1, <2>2 DEF Here, InRoom, Inside
  <2>4. t.u \notin T => Mine(D, t)
    BY <2>1, <2>2, <2>3, PcFacts DEF Mine, Known, Inside, Before
  <2>5. Progress(D, T, t)
    BY <2>1, <2>2, <2>4, RunningFacts DEF Progress, Inside, Before
  <2> QED
    BY <1>2, <2>5 DEF t
<1>3. CASE goal \notin {"desired", "schedule"} /\ Goal(s) = NextRoom(s)
  <2>1. s.r \in Nat \ {0} /\ s.r <= Len(RoomDefs(s.u))
    BY RoomDefsType
  <2>2. s.u \notin T => Provided(D, s.u, s.r)
    BY <1>3 DEF Inside, RoomAt, Provided
  <2>3. s.u \notin T => \A r \in 1 .. s.r : Provided(D, s.u, r)
    BY <2>1, <2>2 DEF Inside
  <2> QED
    BY <1>3, <2>1, <2>3, NextRoomProgress DEF Inside
<1> QED
  BY <1>1, <1>2, <1>3

LEMMA NextDeviceProgress ==
    ASSUME NEW D, NEW T, NEW s \in SimType, s.u \in Users, s.r \in DOMAIN RoomDefs(s.u),
           s.d <= Len(DeviceDefs(s.u, s.r)), Inside(D, T, s),
           s.u \notin T => Placed(D, s.room, s.u, s.r, s.d)
    PROVE  Progress(D, T, NextDevice(s))
<1>1. s.d \in Nat /\ Len(DeviceDefs(s.u, s.r)) \in Nat
  BY SimFields, DeviceDefsType
<1>2. CASE s.d < Len(DeviceDefs(s.u, s.r))
  <2> DEFINE t == [s EXCEPT !.pc = "device", !.d = s.d + 1]
  <2>1. NextDevice(s) = t
    BY <1>2 DEF NextDevice
  <2>2. /\ t.pc = "device" /\ t.u = s.u /\ t.r = s.r /\ t.room = s.room /\ t.d = s.d + 1
        /\ t.roomsByName = s.roomsByName /\ t.devicesByHwID = s.devicesByHwID
    BY DEF SimType
  <2> HIDE DEF t
  <2>3. Inside(D, T, t)
    BY <2>2, SameLists
  <2>4. (s.d + 1) - 1 = s.d
    BY <1>1
  <2>5. t.u \notin T => Here(D, t)
    BY <2>2, <2>3, <2>4 DEF Here, InRoom, Inside
  <2>6. t.u \notin T => Mine(D, t)
    BY <2>2, <2>3, <2>5, PcFacts DEF Mine, Known, Inside, Before
  <2>7. Progress(D, T, t)
    BY <2>2, <2>3, <2>6, RunningFacts DEF Progress, Inside, Before
  <2> QED
    BY <2>1, <2>7
<1>3. CASE ~(s.d < Len(DeviceDefs(s.u, s.r)))
  <2> DEFINE t == [s EXCEPT !.d = 0]
  <2>1. NextDevice(s) = Goal(t) /\ s.d = Len(DeviceDefs(s.u, s.r))
    BY <1>1, <1>3 DEF NextDevice
  <2>2. /\ t \in SimType /\ t.u = s.u /\ t.r = s.r /\ t.room = s.room
        /\ t.roomsByName = s.roomsByName /\ t.devicesByHwID = s.devicesByHwID
    BY DEF SimType
  <2> HIDE DEF t
  <2>3. Inside(D, T, t)
    BY <2>2, SameLists
  <2> QED
    BY <2>1, <2>2, <2>3, GoalProgress
<1> QED
  BY <1>2, <1>3

LEMMA NextPeriodProgress ==
    ASSUME NEW D, NEW T, NEW s \in SimType, s.u \in Users, s.r \in DOMAIN RoomDefs(s.u),
           s.p <= RoomDefs(s.u)[s.r].periods, Inside(D, T, s),
           s.u \notin T => /\ RoomDefs(s.u)[s.r].goal = "schedule"
                           /\ Placed(D, s.room, s.u, s.r, Len(DeviceDefs(s.u, s.r)))
                           /\ \E x \in D.scheds : x.id = s.sched /\ x.room = s.room /\ x.name = 1
                           /\ Filled(D, s.sched, s.p)
    PROVE  Progress(D, T, NextPeriod(s))
<1>1. s.p \in Nat /\ RoomDefs(s.u)[s.r].periods \in Nat
  BY SimFields, DeviceDefsType
<1>2. CASE s.p < RoomDefs(s.u)[s.r].periods
  <2> DEFINE t == [s EXCEPT !.pc = "period", !.p = s.p + 1]
  <2>1. NextPeriod(s) = t
    BY <1>2 DEF NextPeriod
  <2>2. /\ t.pc = "period" /\ t.u = s.u /\ t.r = s.r /\ t.room = s.room /\ t.p = s.p + 1
        /\ t.sched = s.sched /\ t.roomsByName = s.roomsByName /\ t.devicesByHwID = s.devicesByHwID
    BY DEF SimType
  <2> HIDE DEF t
  <2>3. Inside(D, T, t)
    BY <2>2, SameLists
  <2>4. (s.p + 1) - 1 = s.p
    BY <1>1
  <2>5. t.u \notin T => Here(D, t)
    BY <2>2, <2>3, <2>4 DEF Here, InRoom, Inside
  <2>6. t.u \notin T => Mine(D, t)
    BY <2>2, <2>3, <2>5, PcFacts DEF Mine, Known, Inside, Before
  <2>7. Progress(D, T, t)
    BY <2>2, <2>3, <2>6, RunningFacts DEF Progress, Inside, Before
  <2> QED
    BY <2>1, <2>7
<1>3. CASE ~(s.p < RoomDefs(s.u)[s.r].periods)
  <2> DEFINE t == [s EXCEPT !.pc = "activate", !.p = 0]
  <2>1. NextPeriod(s) = t /\ s.p = RoomDefs(s.u)[s.r].periods
    BY <1>1, <1>3 DEF NextPeriod
  <2>2. /\ t.pc = "activate" /\ t.u = s.u /\ t.r = s.r /\ t.room = s.room
        /\ t.sched = s.sched /\ t.roomsByName = s.roomsByName /\ t.devicesByHwID = s.devicesByHwID
    BY DEF SimType
  <2> HIDE DEF t
  <2>3. Inside(D, T, t)
    BY <2>2, SameLists
  <2>4. t.u \notin T => Here(D, t)
    BY <2>1, <2>2, <2>3 DEF Here, InRoom, Inside
  <2>5. t.u \notin T => Mine(D, t)
    BY <2>2, <2>3, <2>4, PcFacts DEF Mine, Known, Inside, Before
  <2>6. Progress(D, T, t)
    BY <2>2, <2>3, <2>5, RunningFacts DEF Progress, Inside, Before
  <2> QED
    BY <2>1, <2>6
<1> QED
  BY <1>2, <1>3

-----------------------------------------------------------------------------
(* The steps of the process. *)

LEMMA AwayProgress ==
    ASSUME NEW D, NEW T, NEW s, s.pc \in {"off", "failed", "torn", "teardown", "deleteMe"}
    PROVE  Progress(D, T, s)
<1>1. s.pc \notin Running /\ s.pc # "running"
  BY RunningFacts
<1> QED
  BY <1>1 DEF Progress

NoDevice == <<0, 0, 0>>

LEMMA NoDeviceFacts == \A v \in Users : \A r, d : NoDevice # <<v, r, d>>
BY Defs DEF NoDevice

\* What has been established for a user stays while its rows stay.
LEMMA MineStays ==
    ASSUME NEW D, NEW E, NEW s, s.u \in Users, Grows(D, E, s.u, NoDevice), Mine(D, s)
    PROVE  Mine(E, s)
<1>1. ASSUME NEW r, Provided(D, s.u, r) PROVE Provided(E, s.u, r)
  BY <1>1, NoDeviceFacts, ProvidedStays
<1>2. ASSUME NEW id, NEW r, RoomAt(D, id, s.u, r) PROVE RoomAt(E, id, s.u, r)
  BY <1>2, RoomAtStays
<1>3. ASSUME NEW id, NEW r, NEW n, Placed(D, id, s.u, r, n) PROVE Placed(E, id, s.u, r, n)
  BY <1>3, NoDeviceFacts, PlacedStays
<1>4. Known(E, s)
  <2>1. RoomsKnown(D, s) => RoomsKnown(E, s)
    BY <1>2 DEF RoomsKnown
  <2>2. DevicesKnown(D, s) => DevicesKnown(E, s)
    BY DEF DevicesKnown, Grows
  <2> QED
    BY <2>1, <2>2 DEF Mine, Known
<1>5. ASSUME s.pc \in InRoom PROVE Here(E, s)
  <2>1. Here(D, s)
    BY <1>5 DEF Mine
  <2>2. s.pc \in InRoom \ {"room"} => RoomAt(D, s.room, s.u, s.r) /\ RoomAt(E, s.room, s.u, s.r)
    BY <2>1, <1>2 DEF Here
  <2>3. s.pc \in {"device", "assign"} => Placed(E, s.room, s.u, s.r, s.d - 1)
    BY <2>1, <1>3 DEF Here
  <2>4. s.pc = "assign" =>
             \E x \in E.devices : x.id = s.device /\ x.user = s.u /\ x.hwID = <<s.u, s.r, s.d>>
    BY <2>1 DEF Here, Grows
  <2>5. s.pc \in InRoom \ {"room", "device", "assign"} =>
          Placed(E, s.room, s.u, s.r, Len(DeviceDefs(s.u, s.r)))
    BY <2>1, <1>3 DEF Here
  <2>6. ASSUME NEW x \in D.scheds, x.room = s.room, s.pc \in InRoom \ {"room"}
        PROVE  \E t \in E.scheds : t.id = x.id /\ t.room = s.room /\ t.name = x.name
    <3>1. RoomAt(D, x.room, s.u, s.r)
      BY <2>2, <2>6
    <3>2. \E t \in E.scheds : t.id = x.id /\ t.room = x.room /\ t.name = x.name
      BY <3>1, SchedStays
    <3> QED
      BY <2>6, <3>2
  <2>7. s.pc = "listSchedules" => \E x \in E.scheds : x.room = s.room
    BY <2>1, <2>6 DEF Here, InRoom
  <2>8. s.pc \in {"period", "activate"} =>
          \E x \in D.scheds : x.id = s.sched /\ x.room = s.room /\ x.name = 1
    BY <2>1 DEF Here
  <2>9. s.pc \in {"period", "activate"} =>
          \E x \in E.scheds : x.id = s.sched /\ x.room = s.room /\ x.name = 1
    BY <2>8, <2>6 DEF InRoom
  <2>10. ASSUME s.pc \in {"period", "activate"}, NEW n, Filled(D, s.sched, n)
         PROVE  Filled(E, s.sched, n)
    <3>1. PICK x \in D.scheds : x.id = s.sched /\ x.room = s.room
      BY <2>8, <2>10
    <3>2. RoomAt(D, x.room, s.u, s.r)
      BY <2>2, <2>10, <3>1 DEF InRoom
    <3> QED
      BY <2>10, <3>1, <3>2, FilledStays
  <2>11. /\ s.pc = "period" => Filled(E, s.sched, s.p - 1)
         /\ s.pc = "activate" => Filled(E, s.sched, RoomDefs(s.u)[s.r].periods)
    BY <2>1, <2>10 DEF Here
  <2> QED
    BY <2>1, <2>2, <2>3, <2>4, <2>5, <2>7, <2>9, <2>11 DEF Here
<1> QED
  BY <1>1, <1>4, <1>5 DEF Mine

\* A call leaves what the process has established for earlier users.
LEMMA EarlierStay ==
    ASSUME DbOK, NEW u \in Users, RunDb(u), NEW T, \A v \in 1 .. u - 1 : v \notin T => DoneUser(db, v)
    PROVE  \A v \in 1 .. u - 1 : v \notin T => DoneUser(db', v)
<1> SUFFICES ASSUME NEW v \in 1 .. u - 1, v \notin T PROVE DoneUser(db', v)
  OBVIOUS
<1>1. v \in Users /\ v # u
  BY Defs
<1>2. Grows(db, db', v, NoDevice)
  BY <1>1, RunDbGrows
<1> QED
  BY <1>1, <1>2, NoDeviceFacts, DoneUserStays

\* A call in a room leaves what the process knows, and the rooms before this one.
LEMMA BeforeStays ==
    ASSUME Base, Progress(db, touched, sim), sim.pc \in InRoom, RunDb(sim.u), NEW h,
           sim.u \notin touched => Grows(db, db', sim.u, h),
           \A r \in 1 .. sim.r - 1 : \A d : h # <<sim.u, r, d>>
    PROVE  /\ Before(db', touched, sim)
           /\ sim.u \notin touched =>
                /\ \A r \in 1 .. sim.r - 1 : Provided(db', sim.u, r)
                /\ sim.pc # "room" => RoomAt(db', sim.room, sim.u, sim.r)
                /\ Here(db, sim)
<1>1. sim.u \in Users /\ sim.u \in db'.users /\ DbOK
  BY InRoomFacts, RunDbKeeps
<1>2. \A v \in 1 .. sim.u - 1 : v \notin touched => DoneUser(db', v)
  BY <1>1, EarlierStay, RunningFacts DEF Progress
<1>3. ASSUME sim.u \notin touched
      PROVE  /\ RoomsKnown(db', sim) /\ DevicesKnown(db', sim) /\ Here(db, sim)
             /\ \A r \in 1 .. sim.r - 1 : Provided(db', sim.u, r)
             /\ sim.pc # "room" => RoomAt(db', sim.room, sim.u, sim.r)
  <2>1. Mine(db, sim) /\ Grows(db, db', sim.u, h)
    BY <1>3, RunningFacts DEF Progress
  <2>2. RoomsKnown(db, sim) /\ DevicesKnown(db, sim) /\ Here(db, sim)
    BY <2>1 DEF Mine, Known
  <2>3. RoomsKnown(db', sim)
    BY <2>1, <2>2, RoomAtStays DEF RoomsKnown
  <2>4. DevicesKnown(db', sim)
    BY <2>1, <2>2 DEF DevicesKnown, Grows
  <2>5. \A r \in 1 .. sim.r - 1 : Provided(db', sim.u, r)
    BY <2>1, ProvidedStays DEF Mine
  <2>6. sim.pc # "room" => RoomAt(db', sim.room, sim.u, sim.r)
    BY <2>1, <2>2, RoomAtStays DEF Here
  <2> QED
    BY <2>2, <2>3, <2>4, <2>5, <2>6
<1> QED
  BY <1>1, <1>2, <1>3 DEF Before

LEMMA RunTouches == ASSUME Run PROVE touched' = touched
BY DEF Run, RunLogin, RunRegister, RunRelogin, ListRooms, ListDevices, ProvisionRoom, ProvisionDevice,
       AssignDevice, SetDesiredState, ProvisionSchedule, ListSchedules, ProvisionPeriod,
       ActivateSchedule, WriteCredentials

LEMMA RunLoginProgress ==
    ASSUME Base, Progress(db, touched, sim), RunLogin
    PROVE  Progress(db', touched', sim')
<1>1. sim.pc = "login" /\ sim \in SimType /\ Untouched /\ touched' = touched
  BY BaseFacts, RunLoginOutcome DEF RunLogin, At
<1>2. ASSUME NEW pc \in {"listRooms", "register"}, sim' = Goto(pc) PROVE Progress(db', touched', sim')
  <2>1. sim'.pc = pc /\ sim'.u = sim.u
    BY <1>1, <1>2 DEF Goto, SimType
  <2>2. \A v \in 1 .. sim.u - 1 : v \notin touched => DoneUser(db, v)
    BY <1>1, RunningFacts DEF Progress
  <2>3. Mine(db', sim')
    BY <2>1, PcFacts DEF Mine, Known
  <2> QED
    BY <1>1, <2>1, <2>2, <2>3 DEF Progress, Untouched
<1> QED
  BY <1>2, RunLoginOutcome

LEMMA RunRegisterProgress ==
    ASSUME Base, Progress(db, touched, sim), RunRegister
    PROVE  Progress(db', touched', sim')
<1>1. sim.pc = "register" /\ sim \in SimType /\ touched' = touched /\ DbOK /\ sim.u \in Users
  BY BaseFacts DEF RunRegister, At, AtUser
<1>2. CASE sim' = Fatal
  BY <1>2, FatalFacts, AwayProgress
<1>3. CASE sim' = Goto("relogin") /\ NewUser(sim.u)
  <2>1. sim'.pc = "relogin" /\ sim'.u = sim.u
    BY <1>1, <1>3 DEF Goto, SimType
  <2>2. \A v \in 1 .. sim.u - 1 : v \notin touched => DoneUser(db, v)
    BY <1>1, RunningFacts DEF Progress
  <2>3. \A v \in 1 .. sim.u - 1 : v \notin touched => DoneUser(db', v)
    BY <1>1, <1>3, <2>2, EarlierStay DEF RunDb
  <2>4. Mine(db', sim')
    BY <2>1, PcFacts DEF Mine, Known
  <2> QED
    BY <1>1, <2>1, <2>3, <2>4 DEF Progress
<1> QED
  BY <1>2, <1>3, RunRegisterOutcome

LEMMA RunReloginProgress ==
    ASSUME Base, Progress(db, touched, sim), RunRelogin
    PROVE  Progress(db', touched', sim')
<1>1. sim.pc = "relogin" /\ sim \in SimType /\ Untouched /\ touched' = touched
  BY BaseFacts, RunReloginOutcome DEF RunRelogin, At
<1>2. CASE sim' = Fatal
  BY <1>2, FatalFacts, AwayProgress
<1>3. CASE sim' = Goto("listRooms")
  <2>1. sim'.pc = "listRooms" /\ sim'.u = sim.u
    BY <1>1, <1>3 DEF Goto, SimType
  <2>2. \A v \in 1 .. sim.u - 1 : v \notin touched => DoneUser(db, v)
    BY <1>1, RunningFacts DEF Progress
  <2>3. Mine(db', sim')
    BY <2>1, PcFacts DEF Mine, Known
  <2> QED
    BY <1>1, <2>1, <2>2, <2>3 DEF Progress, Untouched
<1> QED
  BY <1>2, <1>3, RunReloginOutcome

LEMMA ListRoomsProgress ==
    ASSUME Base, Progress(db, touched, sim), ListRooms
    PROVE  Progress(db', touched', sim')
<1>1. sim.pc = "listRooms" /\ At("listRooms") /\ Untouched /\ touched' = touched
  BY ListRoomsOutcome DEF ListRooms, At
<1>2. CASE sim' = Fatal
  BY <1>2, FatalFacts, AwayProgress
<1>3. CASE sim' = WithRooms
  <2>1. sim'.pc = "listDevices" /\ sim'.u = sim.u /\ sim'.roomsByName = {m \in db.rooms : m.user = sim.u}
    BY <1>1, <1>3, WithRoomsFacts
  <2>2. \A v \in 1 .. sim.u - 1 : v \notin touched => DoneUser(db, v)
    BY <1>1, RunningFacts DEF Progress
  <2>3. RoomsKnown(db', sim')
    BY <1>1, <2>1 DEF RoomsKnown, RoomAt, Untouched
  <2>4. Mine(db', sim')
    BY <2>1, <2>3, PcFacts DEF Mine, Known
  <2> QED
    BY <1>1, <2>1, <2>2, <2>4 DEF Progress, Untouched
<1> QED
  BY <1>2, <1>3, ListRoomsOutcome

LEMMA ListDevicesProgress ==
    ASSUME Base, Progress(db, touched, sim), ListDevices
    PROVE  Progress(db', touched', sim')
<1>1. sim.pc = "listDevices" /\ At("listDevices") /\ Untouched /\ touched' = touched
  BY ListDevicesOutcome DEF ListDevices, At
<1>2. CASE sim' = Fatal
  BY <1>2, FatalFacts, AwayProgress
<1>3. CASE sim' = NextRoom(WithDevices)
  <2> DEFINE s == WithDevices
  <2>1. /\ s \in SimType /\ s.u = sim.u /\ s.r = 0 /\ s.roomsByName = sim.roomsByName
        /\ s.devicesByHwID = {d \in db.devices : d.user = sim.u}
    BY <1>1, WithDevicesFacts
  <2> HIDE DEF s
  <2>2. sim.u \in Users /\ sim.u \in db.users /\ Len(RoomDefs(sim.u)) \in Nat
    BY <1>1, BaseFacts, PcFacts, RoomDefsType
  <2>3. \A v \in 1 .. sim.u - 1 : v \notin touched => DoneUser(db, v)
    BY <1>1, RunningFacts DEF Progress
  <2>4. sim.u \notin touched => RoomsKnown(db, sim)
    BY <1>1, RunningFacts DEF Progress, Mine, Known
  <2>5. s.u \notin touched => RoomsKnown(db, s) /\ DevicesKnown(db, s)
    BY <2>1, <2>4 DEF RoomsKnown, DevicesKnown
  <2>6. Before(db, touched, s)
    BY <2>1, <2>2, <2>3, <2>5 DEF Before
  <2>7. Progress(db, touched, NextRoom(s))
    BY <2>1, <2>2, <2>6, NextRoomProgress
  <2> QED
    BY <1>1, <1>3, <2>7 DEF Untouched, s
<1> QED
  BY <1>2, <1>3, ListDevicesOutcome

LEMMA ProvisionRoomProgress ==
    ASSUME Base, Progress(db, touched, sim), ProvisionRoom
    PROVE  Progress(db', touched', sim')
<1>1. sim.pc = "room" /\ sim.pc \in InRoom /\ touched' = touched
  BY PcFacts DEF ProvisionRoom, At
<1>2. sim.u \in Users /\ sim.r \in DOMAIN RoomDefs(sim.u) /\ sim.d = 0 /\ DbOK
  BY <1>1, InRoomFacts
<1>3. CASE sim' = Fatal
  BY <1>3, FatalFacts, AwayProgress
<1>4. ASSUME NEW id \in Nat, RunDb(sim.u), sim.u \notin touched => Grows(db, db', sim.u, NoDevice),
             sim.u \notin touched => (RoomsKnown(db, sim) => RoomAt(db', id, sim.u, sim.r)),
             sim' = NextDevice(WithRoom(id))
      PROVE  Progress(db', touched', sim')
  <2> DEFINE s == WithRoom(id)
  <2>1. /\ s \in SimType /\ s.u = sim.u /\ s.r = sim.r /\ s.d = 0 /\ s.room = id
        /\ s.roomsByName = sim.roomsByName /\ s.devicesByHwID = sim.devicesByHwID
    BY <1>2, WithFacts
  <2> HIDE DEF s
  <2>2. /\ Before(db', touched, sim)
        /\ sim.u \notin touched => \A r \in 1 .. sim.r - 1 : Provided(db', sim.u, r)
    BY <1>1, <1>2, <1>4, NoDeviceFacts, BeforeStays
  <2>3. Before(db', touched, s)
    BY <2>1, <2>2, SameLists
  <2>4. sim.u \notin touched => RoomAt(db', id, sim.u, sim.r)
    BY <1>1, <1>4, RunningFacts DEF Progress, Mine, Known
  <2>5. Inside(db', touched, s)
    BY <2>1, <2>2, <2>3, <2>4 DEF Inside
  <2>6. 0 <= Len(DeviceDefs(s.u, s.r)) /\ Placed(db', s.room, s.u, s.r, 0)
    BY <1>2, <2>1, DeviceDefsType DEF Placed
  <2>7. Progress(db', touched, NextDevice(s))
    BY <1>2, <2>1, <2>5, <2>6, NextDeviceProgress
  <2> QED
    BY <1>1, <1>4, <2>7 DEF s
<1>5. CASE NewRoom(sim.u, sim.r) /\ sim' = NextDevice(WithRoom(nextID))
  <2>1. nextID \in Nat
    BY <1>2 DEF DbOK, IdsUsed
  <2>2. RunDb(sim.u)
    BY <1>5 DEF RunDb, NewRoom
  <2>3. Grows(db, db', sim.u, NoDevice)
    BY <1>2, <1>5, NewRoomGrows
  <2>4. RoomAt(db', nextID, sim.u, sim.r)
    <3> DEFINE row == [id |-> nextID, user |-> sim.u, name |-> sim.r, targets |-> FALSE]
    <3>1. db'.rooms = db.rooms \cup {row}
      BY <1>5, BecomesFields DEF NewRoom
    <3>2. row.id = nextID /\ row.user = sim.u /\ row.name = sim.r
      OBVIOUS
    <3> HIDE DEF row
    <3> QED
      BY <3>1, <3>2 DEF RoomAt
  <2> QED
    BY <1>4, <1>5, <2>1, <2>2, <2>3, <2>4
<1>6. ASSUME Untouched, NEW m \in sim.roomsByName, m.name = sim.r, sim' = NextDevice(WithRoom(m.id))
      PROVE  Progress(db', touched', sim')
  <2>1. m.id \in Nat
    BY <1>1, InRoomFacts, SimFields DEF RoomRow
  <2>2. RunDb(sim.u) /\ Grows(db, db', sim.u, NoDevice)
    BY <1>2, <1>6, UntouchedGrows DEF RunDb
  <2>3. RoomsKnown(db, sim) => RoomAt(db', m.id, sim.u, sim.r)
    BY <1>6 DEF RoomsKnown, Untouched
  <2> QED
    BY <1>4, <1>6, <2>1, <2>2, <2>3
<1> QED
  BY <1>3, <1>5, <1>6, ProvisionRoomOutcome

LEMMA ProvisionDeviceProgress ==
    ASSUME Base, Progress(db, touched, sim), ProvisionDevice
    PROVE  Progress(db', touched', sim')
<1>1. sim.pc = "device" /\ sim.pc \in InRoom /\ touched' = touched
  BY PcFacts DEF ProvisionDevice, At
<1>2. /\ sim.u \in Users /\ sim.r \in DOMAIN RoomDefs(sim.u) /\ DbOK
      /\ sim.d \in DOMAIN DeviceDefs(sim.u, sim.r) /\ hwID = <<sim.u, sim.r, sim.d>>
  BY <1>1, InRoomFacts DEF hwID
<1>3. CASE sim' = Fatal
  BY <1>3, FatalFacts, AwayProgress
<1>4. ASSUME NEW id \in Nat, RunDb(sim.u), sim.u \notin touched => Grows(db, db', sim.u, NoDevice),
             sim.u \notin touched =>
               (DevicesKnown(db, sim) =>
                  \E x \in db'.devices : x.id = id /\ x.user = sim.u /\ x.hwID = hwID),
             sim' = WithDevice(id)
      PROVE  Progress(db', touched', sim')
  <2> DEFINE s == WithDevice(id)
  <2>1. /\ s \in SimType /\ s.u = sim.u /\ s.r = sim.r /\ s.d = sim.d /\ s.room = sim.room
        /\ s.roomsByName = sim.roomsByName /\ s.devicesByHwID = sim.devicesByHwID
        /\ s.device = id /\ s.pc = "assign"
    BY WithFacts
  <2> HIDE DEF s
  <2>2. /\ Before(db', touched, sim)
        /\ sim.u \notin touched => /\ \A r \in 1 .. sim.r - 1 : Provided(db', sim.u, r)
                                   /\ RoomAt(db', sim.room, sim.u, sim.r)
                                   /\ Here(db, sim)
    BY <1>1, <1>2, <1>4, NoDeviceFacts, BeforeStays
  <2>3. Before(db', touched, s)
    BY <2>1, <2>2, SameLists
  <2>4. ASSUME sim.u \notin touched PROVE Mine(db', s)
    <3>1. Placed(db, sim.room, sim.u, sim.r, sim.d - 1)
      BY <1>1, <2>2, <2>4 DEF Here
    <3>2. Placed(db', sim.room, sim.u, sim.r, sim.d - 1)
      BY <1>2, <1>4, <2>4, <3>1, NoDeviceFacts, PlacedStays
    <3>3. \E x \in db'.devices : x.id = id /\ x.user = sim.u /\ x.hwID = <<sim.u, sim.r, sim.d>>
      BY <1>1, <1>2, <1>4, <2>4, RunningFacts DEF Progress, Mine, Known
    <3>4. Here(db', s)
      BY <2>1, <2>2, <2>4, <3>2, <3>3 DEF Here
    <3> QED
      BY <2>1, <2>2, <2>3, <2>4, <3>4 DEF Mine, Known, Before
  <2>5. Progress(db', touched, s)
    BY <2>1, <2>3, <2>4 DEF Progress, Before
  <2> QED
    BY <1>1, <1>4, <2>5 DEF s
<1>5. CASE NewDevice(sim.u, sim.r, sim.d) /\ sim' = WithDevice(nextID)
  <2>1. nextID \in Nat
    BY <1>2 DEF DbOK, IdsUsed
  <2>2. RunDb(sim.u)
    BY <1>2, <1>5 DEF RunDb
  <2>3. Grows(db, db', sim.u, NoDevice)
    BY <1>2, <1>5, NewDeviceGrows
  <2>4. \E x \in db'.devices : x.id = nextID /\ x.user = sim.u /\ x.hwID = hwID
    <3> DEFINE row == [id |-> nextID, user |-> sim.u, hwID |-> <<sim.u, sim.r, sim.d>>,
                       name |-> DeviceName(sim.r, sim.d), room |-> 0,
                       caps |-> DeviceDefs(sim.u, sim.r)[sim.d].caps]
    <3>1. db'.devices = db.devices \cup {row}
      BY <1>5, BecomesFields DEF NewDevice
    <3>2. row.id = nextID /\ row.user = sim.u /\ row.hwID = hwID
      BY <1>2
    <3> HIDE DEF row
    <3> QED
      BY <3>1, <3>2
  <2> QED
    BY <1>4, <1>5, <2>1, <2>2, <2>3, <2>4
<1>6. ASSUME Untouched, NEW x \in sim.devicesByHwID, x.hwID = hwID, sim' = WithDevice(x.id)
      PROVE  Progress(db', touched', sim')
  <2>1. x.id \in Nat
    BY <1>1, InRoomFacts, SimFields DEF DeviceRow
  <2>2. RunDb(sim.u) /\ Grows(db, db', sim.u, NoDevice)
    BY <1>2, <1>6, UntouchedGrows DEF RunDb
  <2>3. DevicesKnown(db, sim) => \E y \in db'.devices : y.id = x.id /\ y.user = sim.u /\ y.hwID = hwID
    BY <1>6 DEF DevicesKnown, Untouched
  <2> QED
    BY <1>4, <1>6, <2>1, <2>2, <2>3
<1> QED
  BY <1>3, <1>5, <1>6, ProvisionDeviceOutcome

LEMMA AssignDeviceProgress ==
    ASSUME Base, Progress(db, touched, sim), AssignDevice
    PROVE  Progress(db', touched', sim')
<1>1. sim.pc = "assign" /\ sim.pc \in InRoom /\ touched' = touched
  BY PcFacts DEF AssignDevice, At
<1>2. /\ sim.u \in Users /\ sim.r \in DOMAIN RoomDefs(sim.u) /\ DbOK /\ sim \in SimType
      /\ sim.d \in DOMAIN DeviceDefs(sim.u, sim.r)
      /\ DOMAIN DeviceDefs(sim.u, sim.r) = 1 .. Len(DeviceDefs(sim.u, sim.r))
      /\ Len(DeviceDefs(sim.u, sim.r)) \in Nat /\ sim.room \in Nat
  BY <1>1, InRoomFacts, DeviceDefsType, SimFields
<1>3. CASE sim' = Fatal
  BY <1>3, FatalFacts, AwayProgress
<1>4. CASE DeviceMoved /\ sim' = NextDevice(Assigned)
  <2> DEFINE s == Assigned
             h == <<sim.u, sim.r, sim.d>>
  <2>1. /\ s \in SimType /\ s.u = sim.u /\ s.r = sim.r /\ s.d = sim.d /\ s.room = sim.room
        /\ s.roomsByName = sim.roomsByName /\ s.devicesByHwID = sim.devicesByHwID
    BY <1>2, WithFacts
  <2> HIDE DEF s
  <2>2. PICK x \in db.devices : /\ x.id = sim.device /\ x.user = sim.u
                                /\ Moved(x, sim.room, DeviceName(sim.r, sim.d))
    BY <1>4 DEF DeviceMoved
  <2>3. RunDb(sim.u)
    BY <1>2, <2>2 DEF RunDb, Moved
  <2>4. sim.u \notin touched => Here(db, sim)
    BY <1>1, RunningFacts DEF Progress, Mine
  <2>5. sim.u \notin touched => x.hwID = h
    BY <1>1, <1>2, <2>2, <2>4 DEF Here, DbOK, Unique
  <2>6. sim.u \notin touched => Grows(db, db', sim.u, h)
    BY <1>2, <2>2, <2>5, MovedGrows
  <2>7. /\ Before(db', touched, sim)
        /\ sim.u \notin touched => /\ \A r \in 1 .. sim.r - 1 : Provided(db', sim.u, r)
                                   /\ RoomAt(db', sim.room, sim.u, sim.r)
    <3>1. \A r \in 1 .. sim.r - 1 : \A d : h # <<sim.u, r, d>>
      BY <1>2, SimFields
    <3> HIDE DEF h
    <3> QED
      BY <1>1, <2>3, <2>6, <3>1, BeforeStays
  <2>8. Before(db', touched, s)
    BY <2>1, <2>7, SameLists
  <2>9. ASSUME sim.u \notin touched PROVE Placed(db', sim.room, sim.u, sim.r, sim.d)
    <3>1. Placed(db, sim.room, sim.u, sim.r, sim.d - 1)
      BY <1>1, <2>4, <2>9 DEF Here
    <3>2. \A d \in 1 .. sim.d - 1 : h # <<sim.u, sim.r, d>>
      BY <1>2
    <3>3. Placed(db', sim.room, sim.u, sim.r, sim.d - 1)
      BY <2>6, <2>9, <3>1, <3>2, PlacedStays
    <3>4. \E y \in db'.devices : /\ y.user = sim.u /\ y.hwID = h
                                  /\ y.name = DeviceName(sim.r, sim.d) /\ y.room = sim.room
      <4> DEFINE n == DeviceName(sim.r, sim.d)
                 y == [x EXCEPT !.room = sim.room, !.name = n]
      <4>1. x \in DeviceRow
        BY <1>2, <2>2, RowsFields DEF DbOK, Fields
      <4>2. y \in db'.devices
        BY <2>2, BecomesFields DEF Moved
      <4> HIDE DEF n
      <4>3. y.user = x.user /\ y.hwID = x.hwID /\ y.name = n /\ y.room = sim.room
        BY <4>1 DEF DeviceRow
      <4> QED
        BY <2>2, <2>5, <2>9, <4>2, <4>3 DEF n
    <3>5. \A d \in 1 .. sim.d : d \in 1 .. sim.d - 1 \/ d = sim.d
      BY <1>2
    <3> QED
      BY <3>3, <3>4, <3>5 DEF Placed
  <2>10. Inside(db', touched, s)
    BY <2>1, <2>7, <2>8 DEF Inside
  <2>11. s.u \notin touched => Placed(db', s.room, s.u, s.r, s.d)
    BY <2>1, <2>9
  <2>12. s.u \in Users /\ s.r \in DOMAIN RoomDefs(s.u) /\ s.d <= Len(DeviceDefs(s.u, s.r))
    BY <1>2, <2>1
  <2>13. Progress(db', touched, NextDevice(s))
    BY <2>1, <2>10, <2>11, <2>12, NextDeviceProgress
  <2> QED
    BY <1>1, <1>4, <2>13 DEF s
<1> QED
  BY <1>3, <1>4, AssignDeviceOutcome

\* A call in a room whose devices are all there.
LEMMA FilledRoomStays ==
    ASSUME Base, Progress(db, touched, sim), sim.pc \in InRoom \ {"room", "device", "assign"},
           RunDb(sim.u), sim.u \notin touched => Grows(db, db', sim.u, NoDevice)
    PROVE  /\ Inside(db', touched, sim)
           /\ sim.u \notin touched => /\ Placed(db', sim.room, sim.u, sim.r, Len(DeviceDefs(sim.u, sim.r)))
                                      /\ Here(db, sim)
<1>1. sim.u \in Users
  BY InRoomFacts
<1>2. /\ Before(db', touched, sim)
      /\ sim.u \notin touched => /\ \A r \in 1 .. sim.r - 1 : Provided(db', sim.u, r)
                                 /\ RoomAt(db', sim.room, sim.u, sim.r)
                                 /\ Here(db, sim)
  BY <1>1, NoDeviceFacts, BeforeStays
<1>3. ASSUME sim.u \notin touched
      PROVE  Placed(db', sim.room, sim.u, sim.r, Len(DeviceDefs(sim.u, sim.r)))
  <2>1. Placed(db, sim.room, sim.u, sim.r, Len(DeviceDefs(sim.u, sim.r)))
    BY <1>2, <1>3 DEF Here
  <2> QED
    BY <1>1, <1>3, <2>1, NoDeviceFacts, PlacedStays
<1> QED
  BY <1>2, <1>3 DEF Inside

\* The room at the cursor has become complete.
LEMMA RoomDone ==
    ASSUME Base, sim.pc \in InRoom, Inside(db', touched, sim),
           sim.u \notin touched => Provided(db', sim.u, sim.r)
    PROVE  Progress(db', touched, NextRoom(sim))
<1>1. sim \in SimType /\ sim.u \in Users /\ sim.r <= Len(RoomDefs(sim.u)) /\ sim.r \in Nat \ {0}
  BY InRoomFacts
<1>2. \A r \in 1 .. sim.r : r \in 1 .. sim.r - 1 \/ r = sim.r
  BY <1>1
<1>3. sim.u \notin touched => \A r \in 1 .. sim.r : Provided(db', sim.u, r)
  BY <1>2 DEF Inside
<1> QED
  BY <1>1, <1>3, NextRoomProgress DEF Inside

LEMMA SetDesiredStateProgress ==
    ASSUME Base, Progress(db, touched, sim), SetDesiredState
    PROVE  Progress(db', touched', sim')
<1>1. /\ sim.pc = "desired" /\ sim.pc \in InRoom /\ sim.pc \in InRoom \ {"room", "device", "assign"}
      /\ touched' = touched
  BY PcFacts DEF SetDesiredState, At
<1>2. DbOK
  BY <1>1, InRoomFacts
<1>3. CASE sim' = Fatal
  BY <1>3, FatalFacts, AwayProgress
<1>4. CASE Targeted(sim.room, TRUE) /\ sim' = NextRoom(sim)
  <2>1. RunDb(sim.u)
    BY <1>4 DEF RunDb
  <2>2. Grows(db, db', sim.u, NoDevice)
    BY <1>2, <1>4, TargetedGrows
  <2>3. /\ Inside(db', touched, sim)
        /\ sim.u \notin touched => /\ Placed(db', sim.room, sim.u, sim.r, Len(DeviceDefs(sim.u, sim.r)))
                                   /\ Here(db, sim)
    BY <1>1, <2>1, <2>2, FilledRoomStays
  <2>4. ASSUME sim.u \notin touched PROVE Provided(db', sim.u, sim.r)
    <3>1. RoomAt(db, sim.room, sim.u, sim.r) /\ RoomDefs(sim.u)[sim.r].goal = "desired"
      BY <1>1, <2>3, <2>4 DEF Here
    <3>2. PICK m \in db.rooms : m.id = sim.room /\ m.user = sim.u /\ m.name = sim.r
      BY <3>1 DEF RoomAt
    <3> DEFINE n == [m EXCEPT !.targets = TRUE]
    <3>3. n \in db'.rooms
      BY <1>4, <3>2, BecomesFields DEF Targeted
    <3>4. m \in RoomRow
      BY <1>2, <3>2, RowsFields DEF DbOK, Fields
    <3>5. n.id = sim.room /\ n.user = sim.u /\ n.name = sim.r /\ n.targets = TRUE
      BY <3>2, <3>4 DEF RoomRow
    <3> HIDE DEF n
    <3> QED
      BY <2>3, <2>4, <3>1, <3>3, <3>5 DEF Provided
  <2>5. Progress(db', touched, NextRoom(sim))
    BY <1>1, <2>3, <2>4, RoomDone
  <2> QED
    BY <1>1, <1>4, <2>5
<1> QED
  BY <1>3, <1>4, SetDesiredStateOutcome

\* The process goes on with the schedule of its room.
LEMMA WithScheduleProgress ==
    ASSUME Base, Progress(db, touched, sim), sim.pc \in {"schedule", "listSchedules"}, NEW k \in Nat,
           RunDb(sim.u), sim.u \notin touched => Grows(db, db', sim.u, NoDevice),
           \E x \in db'.scheds : x.id = k /\ x.room = sim.room /\ x.name = 1
    PROVE  Progress(db', touched, NextPeriod(WithSchedule(k)))
<1> DEFINE s == WithSchedule(k)
<1>1. sim.pc \in InRoom \ {"room", "device", "assign"} /\ sim.pc \in InRoom
  BY DEF InRoom
<1>2. sim.p = 0 /\ sim.u \in Users /\ sim.r \in DOMAIN RoomDefs(sim.u)
  BY <1>1, InRoomFacts
<1>3. /\ s \in SimType /\ s.u = sim.u /\ s.r = sim.r /\ s.d = sim.d /\ s.p = 0 /\ s.room = sim.room
      /\ s.roomsByName = sim.roomsByName /\ s.devicesByHwID = sim.devicesByHwID /\ s.sched = k
  BY <1>2, WithFacts
<1> HIDE DEF s
<1>4. /\ Inside(db', touched, sim)
      /\ sim.u \notin touched => /\ Placed(db', sim.room, sim.u, sim.r, Len(DeviceDefs(sim.u, sim.r)))
                                 /\ Here(db, sim)
  BY <1>1, FilledRoomStays
<1>5. Inside(db', touched, s)
  BY <1>3, <1>4, SameLists
<1>6. s.p <= RoomDefs(s.u)[s.r].periods /\ Filled(db', s.sched, s.p)
  BY <1>2, <1>3, DeviceDefsType DEF Filled
<1>7. sim.u \notin touched => RoomDefs(sim.u)[sim.r].goal = "schedule"
  BY <1>4 DEF Here
<1>8. Progress(db', touched, NextPeriod(s))
  BY <1>2, <1>3, <1>4, <1>5, <1>6, <1>7, NextPeriodProgress
<1> QED
  BY <1>8 DEF s

LEMMA ProvisionScheduleProgress ==
    ASSUME Base, Progress(db, touched, sim), ProvisionSchedule
    PROVE  Progress(db', touched', sim')
<1>1. /\ sim.pc = "schedule" /\ sim.pc \in InRoom /\ sim.pc \in InRoom \ {"room", "device", "assign"}
      /\ touched' = touched
  BY PcFacts DEF ProvisionSchedule, At
<1>2. DbOK /\ nextID \in Nat /\ sim \in SimType /\ sim.u \in Users
  BY <1>1, InRoomFacts DEF DbOK, IdsUsed
<1>3. CASE sim' = Fatal
  BY <1>3, FatalFacts, AwayProgress
<1>4. CASE NewSched(sim.room) /\ sim' = NextPeriod(WithSchedule(nextID))
  <2>1. RunDb(sim.u)
    BY <1>4 DEF RunDb
  <2>2. Grows(db, db', sim.u, NoDevice)
    BY <1>2, <1>4, NewSchedGrows
  <2>3. \E x \in db'.scheds : x.id = nextID /\ x.room = sim.room /\ x.name = 1
    <3> DEFINE row == [id |-> nextID, room |-> sim.room, name |-> 1, active |-> FALSE]
    <3>1. db'.scheds = db.scheds \cup {row}
      BY <1>4, BecomesFields DEF NewSched
    <3>2. row.id = nextID /\ row.room = sim.room /\ row.name = 1
      OBVIOUS
    <3> HIDE DEF row
    <3> QED
      BY <3>1, <3>2
  <2>4. Progress(db', touched, NextPeriod(WithSchedule(nextID)))
    BY <1>1, <1>2, <2>1, <2>2, <2>3, WithScheduleProgress
  <2> QED
    BY <1>1, <1>4, <2>4
<1>5. ASSUME Untouched, sim' = Goto("listSchedules"), NEW x \in db.scheds, x.room = sim.room
      PROVE  Progress(db', touched', sim')
  <2> DEFINE s == Goto("listSchedules")
  <2>1. /\ s.u = sim.u /\ s.r = sim.r /\ s.room = sim.room /\ s.pc = "listSchedules"
        /\ s.roomsByName = sim.roomsByName /\ s.devicesByHwID = sim.devicesByHwID
    BY <1>2 DEF Goto, SimType
  <2> HIDE DEF s
  <2>2. RunDb(sim.u) /\ Grows(db, db', sim.u, NoDevice)
    BY <1>2, <1>5, UntouchedGrows DEF RunDb
  <2>3. /\ Inside(db', touched, sim)
        /\ sim.u \notin touched => /\ Placed(db', sim.room, sim.u, sim.r, Len(DeviceDefs(sim.u, sim.r)))
                                   /\ Here(db, sim)
    BY <1>1, <2>2, FilledRoomStays
  <2>4. Inside(db', touched, s)
    BY <2>1, <2>3, SameLists
  <2>5. ASSUME sim.u \notin touched PROVE Mine(db', s)
    <3>1. RoomDefs(sim.u)[sim.r].goal = "schedule"
      BY <1>1, <2>3, <2>5 DEF Here
    <3>2. \E y \in db'.scheds : y.room = sim.room
      BY <1>5 DEF Untouched
    <3>3. Here(db', s)
      BY <2>1, <2>3, <2>4, <2>5, <3>1, <3>2 DEF Here, Inside
    <3> QED
      BY <2>1, <2>4, <2>5, <3>3 DEF Mine, Known, Inside, Before
  <2>6. Progress(db', touched, s)
    BY <2>1, <2>4, <2>5 DEF Progress, Inside, Before
  <2> QED
    BY <1>1, <1>5, <2>6 DEF s
<1> QED
  BY <1>3, <1>4, <1>5, ProvisionScheduleOutcome

LEMMA ListSchedulesProgress ==
    ASSUME Base, Progress(db, touched, sim), ListSchedules
    PROVE  Progress(db', touched', sim')
<1>1. sim.pc = "listSchedules" /\ sim.pc \in InRoom /\ touched' = touched
  BY PcFacts DEF ListSchedules, At
<1>2. DbOK
  BY <1>1, InRoomFacts
<1>3. CASE sim' = Fatal
  BY <1>3, FatalFacts, AwayProgress
<1>4. ASSUME Untouched, NEW x \in db.scheds, x.room = sim.room, sim' = NextPeriod(WithSchedule(x.id))
      PROVE  Progress(db', touched', sim')
  <2>1. RunDb(sim.u) /\ Grows(db, db', sim.u, NoDevice)
    BY <1>2, <1>4, UntouchedGrows DEF RunDb
  <2>2. x.id \in Nat /\ x \in db'.scheds /\ x.name = 1
    BY <1>2, <1>4, RowsFields DEF DbOK, Fields, SchedRow, Unique, Untouched
  <2>3. Progress(db', touched, NextPeriod(WithSchedule(x.id)))
    BY <1>1, <1>4, <2>1, <2>2, WithScheduleProgress
  <2> QED
    BY <1>1, <1>4, <2>3
<1> QED
  BY <1>3, <1>4, ListSchedulesOutcome

LEMMA ProvisionPeriodProgress ==
    ASSUME Base, Progress(db, touched, sim), ProvisionPeriod
    PROVE  Progress(db', touched', sim')
<1>1. /\ sim.pc = "period" /\ sim.pc \in InRoom /\ sim.pc \in InRoom \ {"room", "device", "assign"}
      /\ touched' = touched
  BY PcFacts DEF ProvisionPeriod, At
<1>2. /\ DbOK /\ sim \in SimType /\ sim.u \in Users /\ sim.r \in DOMAIN RoomDefs(sim.u)
      /\ sim.p \in 1 .. RoomDefs(sim.u)[sim.r].periods
  BY <1>1, InRoomFacts
<1>3. RoomDefs(sim.u)[sim.r].periods \in Nat /\ sim.p \in Nat /\ sim.p <= RoomDefs(sim.u)[sim.r].periods
  BY <1>2, DeviceDefsType
<1>4. CASE sim' = Fatal
  BY <1>4, FatalFacts, AwayProgress
<1>5. ASSUME RunDb(sim.u), Grows(db, db', sim.u, NoDevice), db'.scheds = db.scheds,
             \E q \in db'.periods : q.sched = sim.sched /\ q.p \in {0, sim.p},
             sim' = NextPeriod(sim)
      PROVE  Progress(db', touched', sim')
  <2>1. /\ Inside(db', touched, sim)
        /\ sim.u \notin touched => /\ Placed(db', sim.room, sim.u, sim.r, Len(DeviceDefs(sim.u, sim.r)))
                                   /\ Here(db, sim)
    BY <1>1, <1>5, FilledRoomStays
  <2>2. ASSUME sim.u \notin touched
        PROVE  /\ RoomDefs(sim.u)[sim.r].goal = "schedule"
               /\ \E x \in db'.scheds : x.id = sim.sched /\ x.room = sim.room /\ x.name = 1
               /\ Filled(db', sim.sched, sim.p)
    <3>1. /\ RoomDefs(sim.u)[sim.r].goal = "schedule" /\ RoomAt(db, sim.room, sim.u, sim.r)
          /\ \E x \in db.scheds : x.id = sim.sched /\ x.room = sim.room /\ x.name = 1
          /\ Filled(db, sim.sched, sim.p - 1)
      BY <1>1, <2>1, <2>2 DEF Here
    <3>2. PICK x \in db.scheds : x.id = sim.sched /\ x.room = sim.room
      BY <3>1
    <3>3. RoomAt(db, x.room, sim.u, sim.r) /\ Filled(db, x.id, sim.p - 1)
      BY <3>1, <3>2
    <3>4. Filled(db', x.id, sim.p - 1)
      BY <1>5, <3>3, FilledStays
    <3>5. PICK q \in db'.periods : q.sched = sim.sched /\ q.p \in {0, sim.p}
      BY <1>5
    <3>6. \A p \in 1 .. sim.p : p \in 1 .. sim.p - 1 \/ p = sim.p
      BY <1>3
    <3>7. Filled(db', sim.sched, sim.p)
      BY <3>2, <3>4, <3>5, <3>6 DEF Filled
    <3> QED
      BY <1>5, <3>1, <3>7
  <2>3. Progress(db', touched, NextPeriod(sim))
    BY <1>2, <1>3, <2>1, <2>2, NextPeriodProgress
  <2> QED
    BY <1>1, <1>5, <2>3
<1>6. CASE PeriodAdded /\ sim' = NextPeriod(sim)
  <2>1. PICK s \in db.scheds : s.id = sim.sched /\ NewPeriod(s, sim.p, TRUE)
    BY <1>6 DEF PeriodAdded
  <2>2. RunDb(sim.u)
    BY <1>3, <2>1 DEF RunDb
  <2>3. Grows(db, db', sim.u, NoDevice)
    BY <1>2, <2>1, NewPeriodGrows
  <2>4. db'.scheds = db.scheds /\ db'.periods =
           db.periods \cup {[sched |-> sim.sched, p |-> sim.p, served |-> TRUE]}
    BY <2>1, BecomesFields DEF NewPeriod
  <2>5. \E q \in db'.periods : q.sched = sim.sched /\ q.p \in {0, sim.p}
    <3> DEFINE row == [sched |-> sim.sched, p |-> sim.p, served |-> TRUE]
    <3>1. row \in db'.periods /\ row.sched = sim.sched /\ row.p = sim.p
      BY <2>4
    <3> HIDE DEF row
    <3> QED
      BY <3>1
  <2> QED
    BY <1>5, <1>6, <2>2, <2>3, <2>4, <2>5
<1>7. CASE /\ Untouched /\ sim' = NextPeriod(sim)
           /\ \E q \in db.periods : q.sched = sim.sched /\ q.p \in {0, sim.p}
  <2>1. RunDb(sim.u) /\ Grows(db, db', sim.u, NoDevice)
    BY <1>2, <1>7, UntouchedGrows DEF RunDb
  <2> QED
    BY <1>5, <1>7, <2>1 DEF Untouched
<1> QED
  BY <1>4, <1>6, <1>7, ProvisionPeriodOutcome

LEMMA ActivateScheduleProgress ==
    ASSUME Base, Progress(db, touched, sim), ActivateSchedule
    PROVE  Progress(db', touched', sim')
<1>1. /\ sim.pc = "activate" /\ sim.pc \in InRoom /\ sim.pc \in InRoom \ {"room", "device", "assign"}
      /\ touched' = touched
  BY PcFacts DEF ActivateSchedule, At
<1>2. DbOK /\ sim \in SimType
  BY <1>1, InRoomFacts
<1>3. CASE sim' = Fatal
  BY <1>3, FatalFacts, AwayProgress
<1>4. ASSUME RunDb(sim.u), Grows(db, db', sim.u, NoDevice),
             \E t \in db'.scheds : t.id = sim.sched /\ t.active = TRUE,
             sim' = NextRoom(sim)
      PROVE  Progress(db', touched', sim')
  <2>1. /\ Inside(db', touched, sim)
        /\ sim.u \notin touched => /\ Placed(db', sim.room, sim.u, sim.r, Len(DeviceDefs(sim.u, sim.r)))
                                   /\ Here(db, sim)
    BY <1>1, <1>4, FilledRoomStays
  <2>2. ASSUME sim.u \notin touched PROVE Provided(db', sim.u, sim.r)
    <3> DEFINE n == RoomDefs(sim.u)[sim.r].periods
    <3>1. /\ RoomDefs(sim.u)[sim.r].goal = "schedule" /\ RoomAt(db, sim.room, sim.u, sim.r)
          /\ \E x \in db.scheds : x.id = sim.sched /\ x.room = sim.room /\ x.name = 1
          /\ Filled(db, sim.sched, n)
      BY <1>1, <2>1, <2>2 DEF Here
    <3> HIDE DEF n
    <3>2. PICK x \in db.scheds : x.id = sim.sched /\ x.room = sim.room /\ x.name = 1
      BY <3>1
    <3>3. RoomAt(db, x.room, sim.u, sim.r) /\ Filled(db, x.id, n)
      BY <3>1, <3>2
    <3>4. PICK y \in db'.scheds : y.id = x.id /\ y.room = x.room /\ y.name = x.name
      BY <1>4, <3>3, SchedStays
    <3>5. PICK t \in db'.scheds : t.id = sim.sched /\ t.active = TRUE
      BY <1>4
    <3>6. DbOK'
      BY <1>2, <1>4, RunDbKeeps
    <3>7. t = y
      BY <3>2, <3>4, <3>5, <3>6 DEF DbOK, Unique
    <3>8. Filled(db', sim.sched, n)
      BY <1>4, <3>2, <3>3, FilledStays
    <3>9. InForce(db', sim.room, sim.sched, n) /\ sim.sched \in Nat
      BY <1>2, <3>2, <3>4, <3>5, <3>7, <3>8, SimFields DEF InForce
    <3>10. PICK m \in db'.rooms : m.id = sim.room /\ m.user = sim.u /\ m.name = sim.r
      BY <2>1, <2>2 DEF Inside, RoomAt
    <3> QED
      BY <2>1, <2>2, <3>1, <3>9, <3>10 DEF Provided, n
  <2>3. Progress(db', touched, NextRoom(sim))
    BY <1>1, <2>1, <2>2, RoomDone
  <2> QED
    BY <1>1, <1>4, <2>3
<1>5. CASE Activated /\ sim' = NextRoom(sim)
  <2>1. PICK s \in db.scheds : s.id = sim.sched /\ SchedSet(s, TRUE)
    BY <1>5 DEF Activated
  <2>2. RunDb(sim.u) /\ Grows(db, db', sim.u, NoDevice)
    BY <1>2, <2>1, SchedSetGrows DEF RunDb
  <2>3. \E t \in db'.scheds : t.id = sim.sched /\ t.active = TRUE
    <3> DEFINE t == [s EXCEPT !.active = TRUE]
    <3>1. t \in db'.scheds
      BY <2>1, BecomesFields DEF SchedSet
    <3>2. s \in SchedRow
      BY <1>2, <2>1, RowsFields DEF DbOK, Fields
    <3>3. t.id = sim.sched /\ t.active = TRUE
      BY <2>1, <3>2 DEF SchedRow
    <3> HIDE DEF t
    <3> QED
      BY <3>1, <3>3
  <2> QED
    BY <1>4, <1>5, <2>2, <2>3
<1>6. CASE /\ Untouched /\ sim' = NextRoom(sim)
           /\ \E s \in db.scheds : s.id = sim.sched /\ s.active = TRUE
  <2>1. RunDb(sim.u) /\ Grows(db, db', sim.u, NoDevice)
    BY <1>2, <1>6, UntouchedGrows DEF RunDb
  <2> QED
    BY <1>4, <1>6, <2>1 DEF Untouched
<1> QED
  BY <1>3, <1>5, <1>6, ActivateScheduleOutcome

LEMMA WriteCredentialsProgress ==
    ASSUME Base, Progress(db, touched, sim), WriteCredentials
    PROVE  Progress(db', touched', sim')
<1>1. sim.pc = "credentials" /\ touched' = touched /\ Untouched
  BY WriteCredentialsOutcome DEF WriteCredentials, At
<1>2. sim \in SimType /\ sim.u \in Users /\ sim.u \in db.users
  BY <1>1, BaseFacts, PcFacts
<1>3. CASE sim' = Fatal
  BY <1>3, FatalFacts, AwayProgress
<1>4. CASE sim' = NextUser(sim)
  <2>1. \A v \in 1 .. sim.u - 1 : v \notin touched => DoneUser(db, v)
    BY <1>1, RunningFacts DEF Progress
  <2>2. sim.u \notin touched => DoneUser(db, sim.u)
    BY <1>1, <1>2, RunningFacts DEF Progress, Mine, DoneUser
  <2>3. Progress(db, touched, NextUser(sim))
    BY <1>2, <2>1, <2>2, NextUserProgress
  <2> QED
    BY <1>1, <1>4, <2>3 DEF Untouched
<1> QED
  BY <1>3, <1>4, WriteCredentialsOutcome

LEMMA RunKeepsProgress ==
    ASSUME Base, Progress(db, touched, sim), Run
    PROVE  Progress(db', touched', sim')
BY RunLoginProgress, RunRegisterProgress, RunReloginProgress, ListRoomsProgress, ListDevicesProgress,
   ProvisionRoomProgress, ProvisionDeviceProgress, AssignDeviceProgress, SetDesiredStateProgress,
   ProvisionScheduleProgress, ListSchedulesProgress, ProvisionPeriodProgress,
   ActivateScheduleProgress, WriteCredentialsProgress DEF Run

\* An edit leaves what has been established for the users that nobody edits.
LEMMA EditKeepsProgress ==
    ASSUME Base, Progress(db, touched, sim), NEW u \in Users, Edit(u)
    PROVE  Progress(db', touched', sim')
<1>1. /\ sim' = sim /\ EditStep(u) /\ touched' = touched \cup {u} /\ DbOK
      /\ sim.pc \in Running => sim.u \in Users
  BY EditKeepsBase, BaseFacts, RunningFacts
<1>2. ASSUME NEW v, v \notin touched' PROVE v \notin touched /\ Grows(db, db', v, NoDevice)
  BY <1>1, <1>2, EditStepGrows
<1>3. ASSUME NEW v \in Users, v \notin touched', DoneUser(db, v) PROVE DoneUser(db', v)
  BY <1>2, <1>3, NoDeviceFacts, DoneUserStays
<1>4. sim.pc \in Running => \A v \in 1 .. sim.u - 1 : v \in Users
  BY <1>1, Defs
<1>5. sim.pc \in Running => \A v \in 1 .. sim.u - 1 : v \notin touched' => DoneUser(db', v)
  BY <1>2, <1>3, <1>4 DEF Progress
<1>6. sim.pc \in Running /\ sim.u \notin touched' => Mine(db', sim)
  BY <1>1, <1>2, MineStays DEF Progress
<1>7. sim.pc = "running" => \A v \in Users \ touched' : DoneUser(db', v)
  BY <1>2, <1>3 DEF Progress
<1> QED
  BY <1>1, <1>5, <1>6, <1>7 DEF Progress

LEMMA TeardownGoesOn ==
    ASSUME Base, Teardown
    PROVE  sim'.pc \in {"failed", "torn", "teardown", "deleteMe"}
<1>1. sim.pc \in {"teardown", "deleteMe"} /\ sim \in SimType
  BY BaseFacts DEF Teardown, TeardownLogin, TeardownDelete, At
<1>2. Goto("deleteMe").pc = "deleteMe"
  BY <1>1 DEF Goto, SimType
<1> QED
  BY <1>1, <1>2, NextTeardownFacts, FatalFacts, TeardownLoginOutcome, TeardownDeleteOutcome DEF Teardown

LEMMA ProgressInvariant == Spec => []Progress(db, touched, sim)
<1>1. Init => Progress(db, touched, sim)
  BY AwayProgress DEF Init, Off
<1>2. ASSUME Base, Progress(db, touched, sim), [Next]_vars
      PROVE  Progress(db, touched, sim)'
  <2>1. CASE Start
    <3>1. db' = db /\ sim'.pc \in {"login", "teardown"} /\ sim'.u = 1
      BY <1>2, <2>1, StartFacts
    <3>2. CASE sim'.pc = "teardown"
      BY <3>2, AwayProgress
    <3>3. CASE sim'.pc = "login"
      <4>1. \A v \in 1 .. sim'.u - 1 : FALSE
        BY <3>1
      <4>2. Mine(db', sim')
        BY <3>3, PcFacts DEF Mine, Known
      <4> QED
        BY <3>3, <4>1, <4>2 DEF Progress
    <3> QED
      BY <3>1, <3>2, <3>3
  <2>2. CASE Stop
    BY <1>2, <2>2, StopFacts, AwayProgress
  <2>3. CASE Run
    BY <1>2, <2>3, RunKeepsProgress
  <2>4. CASE Teardown
    <3>1. sim'.pc \in {"failed", "torn", "teardown", "deleteMe"}
      BY <1>2, <2>4, TeardownGoesOn
    <3> QED
      BY <3>1, AwayProgress
  <2>5. ASSUME NEW u \in Users, Edit(u) PROVE Progress(db, touched, sim)'
    BY <1>2, <2>5, EditKeepsProgress
  <2>6. CASE UNCHANGED vars
    BY <1>2, <2>6 DEF vars
  <2> QED
    BY <1>2, <2>1, <2>2, <2>3, <2>4, <2>5, <2>6 DEF Next
<1> QED
  BY <1>1, <1>2, BaseInvariant, PTL DEF Spec

\* When Run has returned, the database holds all that the configuration asks for, of every user
\* that nobody has edited since the process started, whatever earlier runs, failed calls and
\* edits had left there.
THEOREM RunEstablishesHolds == Spec => []RunEstablishes
<1>1. ASSUME Base, Progress(db, touched, sim) PROVE RunEstablishes
  <2> SUFFICES ASSUME sim.pc = "running", NEW u \in Users \ touched, NEW r \in DOMAIN RoomDefs(u),
                      DoneUser(db, u), Provided(db, u, r)
               PROVE  RoomProvisioned(u, r)
    BY <1>1 DEF RunEstablishes, At, Progress, DoneUser
  <2>1. DOMAIN DeviceDefs(u, r) = 1 .. Len(DeviceDefs(u, r))
    BY DeviceDefsType
  <2>2. PICK m \in db.rooms :
          /\ m.user = u /\ m.name = r
          /\ Placed(db, m.id, u, r, Len(DeviceDefs(u, r)))
          /\ RoomDefs(u)[r].goal = "desired" => m.targets = TRUE
          /\ RoomDefs(u)[r].goal = "schedule" =>
               \E k \in Nat : InForce(db, m.id, k, RoomDefs(u)[r].periods)
    BY DEF Provided
  <2>3. \A d \in DOMAIN DeviceDefs(u, r) :
             \E x \in db.devices : /\ x.user = u /\ x.hwID = <<u, r, d>>
                                   /\ x.name = DeviceName(r, d) /\ x.room = m.id
    BY <2>1, <2>2 DEF Placed
  <2>4. ASSUME NEW k \in Nat, NEW n, InForce(db, m.id, k, n)
        PROVE  \E s \in db.scheds :
                /\ s.room = m.id /\ s.name = 1 /\ s.active
                /\ \A p \in 1 .. n : \E q \in PeriodsOf(s.id) : q.p \in {0, p}
    BY <2>4 DEF InForce, Filled, PeriodsOf
  <2> QED
    BY <2>2, <2>3, <2>4 DEF RoomProvisioned
<1> QED
  BY <1>1, BaseInvariant, ProgressInvariant, PTL

-----------------------------------------------------------------------------
(* What a run that is not disturbed relies on. *)

\* A room with a goal has what its goal needs; the configuration is not checked for this.
Equipped ==
    \A u \in Users : \A r \in DOMAIN RoomDefs(u) :
        RoomDefs(u)[r].goal # "none" => Capable({DeviceDefs(u, r)[d] : d \in DOMAIN DeviceDefs(u, r)})

\* Every device is in no room or in its own.
InPlace(D) == \A d \in D.devices, m \in D.rooms : d.room = m.id => m.user = d.hwID[1] /\ m.name = d.hwID[2]

\* No device has a name that the file gives another one, and no period asks for what the
\* devices of the file do not serve.
Named(D) == \A d \in D.devices : d.name[1] = 0 \/ d.name = DeviceName(d.hwID[2], d.hwID[3])
Serving(D) == \A p \in D.periods : p.served

Unobstructed(D) == InPlace(D) /\ Named(D) /\ Serving(D)

\* The lists of the process have the user's rooms from r, and the user's devices from <<r, d>>.
RoomsSeen(D, s, r) ==
    \A n \in D.rooms : n.user = s.u /\ n.name >= r => \E m \in s.roomsByName : m.name = n.name
DevicesSeen(D, s, r, d) ==
    \A x \in D.devices : x.user = s.u /\ (x.hwID[2] > r \/ (x.hwID[2] = r /\ x.hwID[3] >= d)) =>
                            \E y \in s.devicesByHwID : y.hwID = x.hwID

\* What is not in the lists of the process does not exist, but for what it has created.
Smooth(D, s) ==
    /\ s.pc = "register" => s.u \notin D.users
    /\ s.pc = "relogin" => s.u \in D.users
    /\ s.pc = "listDevices" => RoomsSeen(D, s, 1)
    /\ s.pc = "room" => RoomsSeen(D, s, s.r) /\ DevicesSeen(D, s, s.r, 1)
    /\ s.pc = "device" => RoomsSeen(D, s, s.r + 1) /\ DevicesSeen(D, s, s.r, s.d)
    /\ s.pc = "assign" => RoomsSeen(D, s, s.r + 1) /\ DevicesSeen(D, s, s.r, s.d + 1)
    /\ s.pc \in InRoom \ {"room", "device", "assign"} =>
         RoomsSeen(D, s, s.r + 1) /\ DevicesSeen(D, s, s.r + 1, 1)
    /\ s.pc = "failed" => ~Unobstructed(D)

CalmlySmooth == calm = TRUE /\ touched = {} => Smooth(db, sim)

LEMMA AtRestSmooth ==
    ASSUME NEW D, NEW s, s.pc \in {"off", "running", "torn", "login", "listRooms", "credentials",
                                   "teardown", "deleteMe"}
    PROVE  Smooth(D, s)
BY DEF Smooth, InRoom

LEMMA NextRoomSmooth ==
    ASSUME NEW D, NEW s \in SimType, s.u \in Users, s.r <= Len(RoomDefs(s.u)), s.d = 0, s.p = 0,
           RoomsSeen(D, s, s.r + 1), DevicesSeen(D, s, s.r + 1, 1)
    PROVE  Smooth(D, NextRoom(s))
<1>1. CASE s.r < Len(RoomDefs(s.u))
  <2> DEFINE t == [s EXCEPT !.pc = "room", !.r = s.r + 1, !.room = 0, !.sched = 0]
  <2>1. NextRoom(s) = t
    BY <1>1 DEF NextRoom
  <2>2. /\ t.pc = "room" /\ t.u = s.u /\ t.r = s.r + 1
        /\ t.roomsByName = s.roomsByName /\ t.devicesByHwID = s.devicesByHwID
    BY DEF SimType
  <2> HIDE DEF t
  <2>3. RoomsSeen(D, t, t.r) /\ DevicesSeen(D, t, t.r, 1)
    BY <2>2 DEF RoomsSeen, DevicesSeen
  <2> QED
    BY <2>1, <2>2, <2>3, PcFacts DEF Smooth
<1>2. CASE ~(s.r < Len(RoomDefs(s.u)))
  <2>1. NextRoom(s) = EndUser(s)
    BY <1>2 DEF NextRoom
  <2>2. EndUser(s).pc \in {"credentials", "login", "running"}
    BY EndUserCursor
  <2> QED
    BY <2>1, <2>2, AtRestSmooth
<1> QED
  BY <1>1, <1>2

LEMMA GoalSmooth ==
    ASSUME NEW D, NEW s \in SimType, s.u \in Users, s.r \in DOMAIN RoomDefs(s.u), s.d = 0, s.p = 0,
           RoomsSeen(D, s, s.r + 1), DevicesSeen(D, s, s.r + 1, 1)
    PROVE  Smooth(D, Goal(s))
<1>1. ASSUME NEW pc \in {"desired", "schedule"} PROVE Smooth(D, [s EXCEPT !.pc = pc])
  <2> DEFINE t == [s EXCEPT !.pc = pc]
  <2>1. /\ t.pc = pc /\ t.u = s.u /\ t.r = s.r
        /\ t.roomsByName = s.roomsByName /\ t.devicesByHwID = s.devicesByHwID
    BY DEF SimType
  <2> HIDE DEF t
  <2>2. RoomsSeen(D, t, t.r + 1) /\ DevicesSeen(D, t, t.r + 1, 1)
    BY <2>1 DEF RoomsSeen, DevicesSeen
  <2>3. Smooth(D, t)
    BY <2>1, <2>2 DEF Smooth, InRoom
  <2> QED
    BY <2>3 DEF t
<1>2. s.r <= Len(RoomDefs(s.u))
  BY RoomDefsType
<1>3. Smooth(D, NextRoom(s))
  BY <1>2, NextRoomSmooth
<1>4. \/ Goal(s) = [s EXCEPT !.pc = "desired"] \/ Goal(s) = [s EXCEPT !.pc = "schedule"]
      \/ Goal(s) = NextRoom(s)
  BY DEF Goal
<1> QED
  BY <1>1, <1>3, <1>4

\* The devices of the next rooms are among those after any device of this room.
LEMMA SeenFrom ==
    ASSUME NEW D, NEW s, NEW r \in Nat, NEW d, DevicesSeen(D, s, r, d), D.devices \subseteq DeviceRow
    PROVE  DevicesSeen(D, s, r + 1, 1)
<1>1. \A x \in D.devices : x.hwID[2] \in Nat
  BY DEF DeviceRow
<1>2. \A x \in D.devices : x.hwID[2] > r + 1 \/ x.hwID[2] = r + 1 => x.hwID[2] > r
  BY <1>1
<1> QED
  BY <1>2 DEF DevicesSeen

LEMMA NextDeviceSmooth ==
    ASSUME NEW D, NEW s \in SimType, s.u \in Users, s.r \in DOMAIN RoomDefs(s.u), s.p = 0,
           s.d <= Len(DeviceDefs(s.u, s.r)), D.devices \subseteq DeviceRow,
           RoomsSeen(D, s, s.r + 1), DevicesSeen(D, s, s.r, s.d + 1)
    PROVE  Smooth(D, NextDevice(s))
<1>1. CASE s.d < Len(DeviceDefs(s.u, s.r))
  <2> DEFINE t == [s EXCEPT !.pc = "device", !.d = s.d + 1]
  <2>1. NextDevice(s) = t
    BY <1>1 DEF NextDevice
  <2>2. /\ t.pc = "device" /\ t.u = s.u /\ t.r = s.r /\ t.d = s.d + 1
        /\ t.roomsByName = s.roomsByName /\ t.devicesByHwID = s.devicesByHwID
    BY DEF SimType
  <2> HIDE DEF t
  <2>3. RoomsSeen(D, t, t.r + 1) /\ DevicesSeen(D, t, t.r, t.d)
    BY <2>2 DEF RoomsSeen, DevicesSeen
  <2> QED
    BY <2>1, <2>2, <2>3 DEF Smooth
<1>2. CASE ~(s.d < Len(DeviceDefs(s.u, s.r)))
  <2> DEFINE t == [s EXCEPT !.d = 0]
  <2>1. NextDevice(s) = Goal(t)
    BY <1>2 DEF NextDevice
  <2>2. /\ t \in SimType /\ t.u = s.u /\ t.r = s.r /\ t.d = 0 /\ t.p = 0
        /\ t.roomsByName = s.roomsByName /\ t.devicesByHwID = s.devicesByHwID
    BY DEF SimType
  <2> HIDE DEF t
  <2>3. s.r \in Nat
    BY SimFields
  <2>4. RoomsSeen(D, t, t.r + 1) /\ DevicesSeen(D, t, t.r, s.d + 1)
    BY <2>2 DEF RoomsSeen, DevicesSeen
  <2>5. DevicesSeen(D, t, t.r + 1, 1)
    BY <2>2, <2>3, <2>4, SeenFrom
  <2> QED
    BY <2>1, <2>2, <2>4, <2>5, GoalSmooth
<1> QED
  BY <1>1, <1>2

LEMMA NextPeriodSmooth ==
    ASSUME NEW D, NEW s \in SimType, RoomsSeen(D, s, s.r + 1), DevicesSeen(D, s, s.r + 1, 1)
    PROVE  Smooth(D, NextPeriod(s))
<1> DEFINE t == NextPeriod(s)
<1>1. /\ t.pc \in {"period", "activate"} /\ t.u = s.u /\ t.r = s.r
      /\ t.roomsByName = s.roomsByName /\ t.devicesByHwID = s.devicesByHwID
  <2>1. CASE s.p < RoomDefs(s.u)[s.r].periods
    BY <2>1 DEF NextPeriod, SimType
  <2>2. CASE ~(s.p < RoomDefs(s.u)[s.r].periods)
    BY <2>2 DEF NextPeriod, SimType
  <2> QED
    BY <2>1, <2>2
<1> HIDE DEF t
<1>2. RoomsSeen(D, t, t.r + 1) /\ DevicesSeen(D, t, t.r + 1, 1)
  BY <1>1 DEF RoomsSeen, DevicesSeen
<1>3. Smooth(D, t)
  BY <1>1, <1>2 DEF Smooth, InRoom
<1> QED
  BY <1>3 DEF t

\* A change of what the lists do not show.
LEMMA RoomsSeenStay ==
    ASSUME NEW D, NEW E, NEW s, NEW t, t.u = s.u, t.roomsByName = s.roomsByName,
           NEW r, RoomsSeen(D, s, r),
           \A n \in E.rooms : n.user = s.u /\ n.name >= r =>
              \E m \in D.rooms : m.user = n.user /\ m.name = n.name
    PROVE  RoomsSeen(E, t, r)
BY DEF RoomsSeen

LEMMA DevicesSeenStay ==
    ASSUME NEW D, NEW E, NEW s, NEW t, t.u = s.u, t.devicesByHwID = s.devicesByHwID,
           NEW r, NEW d, DevicesSeen(D, s, r, d),
           \A y \in E.devices : \E x \in D.devices : x.user = y.user /\ x.hwID = y.hwID
    PROVE  DevicesSeen(E, t, r, d)
BY DEF DevicesSeen

\* A step of a run in which no call has failed and nobody has edited.
Undisturbed ==
    Base /\ Progress(db, touched, sim) /\ Smooth(db, sim) /\ touched = {} /\ calm' = TRUE

LEMMA UndisturbedFacts ==
    ASSUME Undisturbed, sim.pc \in InRoom
    PROVE  /\ DbOK /\ Here(db, sim) /\ sim \in SimType /\ sim.u \in Users /\ sim.r \in DOMAIN RoomDefs(sim.u)
           /\ sim.r \in Nat /\ sim.r <= Len(RoomDefs(sim.u))
           /\ db.devices \subseteq DeviceRow /\ db.rooms \subseteq RoomRow /\ db.scheds \subseteq SchedRow
           /\ sim.pc # "room" => RoomOf(sim.u, sim.room)
<1>1. DbOK /\ sim \in SimType /\ sim.u \in Users /\ sim.r \in DOMAIN RoomDefs(sim.u)
      /\ sim.r \in Nat /\ sim.r <= Len(RoomDefs(sim.u))
  BY InRoomFacts DEF Undisturbed
<1>2. db.devices \subseteq DeviceRow /\ db.rooms \subseteq RoomRow /\ db.scheds \subseteq SchedRow
  BY <1>1, RowsFields DEF DbOK, Fields
<1>3. Here(db, sim)
  BY RunningFacts DEF Undisturbed, Progress, Mine
<1>4. sim.pc # "room" => RoomOf(sim.u, sim.room)
  BY <1>3 DEF Here, RoomAt, RoomOf
<1> QED
  BY <1>1, <1>2, <1>3, <1>4

LEMMA LoginsSmooth ==
    ASSUME Undisturbed, RunLogin \/ RunRegister \/ RunRelogin
    PROVE  Smooth(db', sim')
<1>1. Base /\ calm' = TRUE /\ Smooth(db, sim) /\ sim \in SimType
  BY BaseFacts DEF Undisturbed
<1>2. ASSUME NEW pc PROVE Goto(pc).pc = pc /\ Goto(pc).u = sim.u
  BY <1>1 DEF Goto, SimType
<1>3. Smooth(db', Goto("listRooms"))
  BY <1>2, AtRestSmooth
<1>4. CASE RunLogin
  <2>1. CASE sim' = Goto("register") /\ sim.u \notin db.users /\ Untouched
    BY <1>2, <2>1, PcFacts DEF Smooth, Untouched
  <2> QED
    BY <1>1, <1>3, <1>4, <2>1, RunLoginOutcome
<1>5. CASE RunRegister
  <2>1. CASE sim' = Goto("relogin") /\ NewUser(sim.u)
    <3>1. sim.u \in db'.users
      BY <2>1, BecomesFields DEF NewUser
    <3> QED
      BY <1>2, <2>1, <3>1, PcFacts DEF Smooth
  <2>2. sim.u \notin db.users
    BY <1>1, <1>5 DEF RunRegister, At, Smooth
  <2> QED
    BY <1>1, <1>5, <2>1, <2>2, RunRegisterOutcome
<1>6. CASE RunRelogin
  <2>1. sim.u \in db.users
    BY <1>1, <1>6 DEF RunRelogin, At, Smooth
  <2> QED
    BY <1>1, <1>3, <1>6, <2>1, RunReloginOutcome
<1> QED
  BY <1>4, <1>5, <1>6

LEMMA ListsSmooth ==
    ASSUME Undisturbed, ListRooms \/ ListDevices
    PROVE  Smooth(db', sim')
<1>1. Base /\ calm' = TRUE /\ Smooth(db, sim)
  BY DEF Undisturbed
<1>2. CASE ListRooms
  <2>1. Untouched /\ sim' = WithRooms
    BY <1>1, <1>2, ListRoomsOutcome
  <2>2. sim'.pc = "listDevices" /\ sim'.u = sim.u /\ sim'.roomsByName = {m \in db.rooms : m.user = sim.u}
    BY <1>1, <1>2, <2>1, WithRoomsFacts DEF ListRooms
  <2>3. RoomsSeen(db', sim', 1)
    BY <2>1, <2>2 DEF RoomsSeen, Untouched
  <2> QED
    BY <2>2, <2>3, PcFacts DEF Smooth
<1>3. CASE ListDevices
  <2> DEFINE s == WithDevices
  <2>1. Untouched /\ sim' = NextRoom(s) /\ sim.pc = "listDevices"
    BY <1>1, <1>3, ListDevicesOutcome DEF ListDevices, At
  <2>2. /\ s \in SimType /\ s.u = sim.u /\ s.r = 0 /\ s.d = 0 /\ s.p = 0 /\ s.roomsByName = sim.roomsByName
        /\ s.devicesByHwID = {d \in db.devices : d.user = sim.u}
    BY <1>1, <2>1, WithDevicesFacts DEF At
  <2> HIDE DEF s
  <2>3. sim.u \in Users /\ 0 <= Len(RoomDefs(sim.u))
    BY <1>1, <2>1, BaseFacts, PcFacts, RoomDefsType
  <2>4. RoomsSeen(db, s, s.r + 1)
    BY <1>1, <2>1, <2>2 DEF Smooth, RoomsSeen
  <2>5. DevicesSeen(db, s, s.r + 1, 1)
    BY <2>2 DEF DevicesSeen
  <2>6. Smooth(db, NextRoom(s))
    BY <2>2, <2>3, <2>4, <2>5, NextRoomSmooth
  <2> QED
    BY <2>1, <2>6 DEF Untouched
<1> QED
  BY <1>2, <1>3

LEMMA ProvisionRoomSmooth ==
    ASSUME Undisturbed, ProvisionRoom
    PROVE  Smooth(db', sim')
<1>1. Base /\ calm' = TRUE /\ Smooth(db, sim) /\ sim.pc = "room" /\ sim.pc \in InRoom
  BY PcFacts DEF Undisturbed, ProvisionRoom, At
<1>2. /\ DbOK /\ sim.u \in Users /\ sim.r \in DOMAIN RoomDefs(sim.u) /\ sim.r \in Nat /\ sim.d = 0 /\ sim.p = 0
      /\ db.devices \subseteq DeviceRow /\ db.rooms \subseteq RoomRow
  BY <1>1, InRoomFacts, UndisturbedFacts
<1>3. RoomsSeen(db, sim, sim.r) /\ DevicesSeen(db, sim, sim.r, 1)
  BY <1>1 DEF Smooth
<1>4. ASSUME NEW id \in Nat, db'.devices = db.devices,
             \A n \in db'.rooms : n.user = sim.u /\ n.name >= sim.r + 1 => n \in db.rooms,
             sim' = NextDevice(WithRoom(id))
      PROVE  Smooth(db', sim')
  <2> DEFINE s == WithRoom(id)
  <2>1. /\ s \in SimType /\ s.u = sim.u /\ s.r = sim.r /\ s.d = 0 /\ s.p = 0
        /\ s.roomsByName = sim.roomsByName /\ s.devicesByHwID = sim.devicesByHwID
    BY <1>1, <1>2, WithFacts
  <2> HIDE DEF s
  <2>2. \A n \in db.rooms : n.name \in Nat
    BY <1>2 DEF RoomRow
  <2>3. RoomsSeen(db, sim, sim.r + 1)
    BY <1>2, <1>3, <2>2 DEF RoomsSeen
  <2>4. RoomsSeen(db', s, s.r + 1)
    BY <1>4, <2>1, <2>3, RoomsSeenStay
  <2>5. DevicesSeen(db', s, s.r, s.d + 1)
    BY <1>3, <1>4, <2>1, DevicesSeenStay
  <2>6. s.d <= Len(DeviceDefs(s.u, s.r)) /\ s.u \in Users /\ s.r \in DOMAIN RoomDefs(s.u)
    BY <1>2, <2>1, DeviceDefsType
  <2>7. Smooth(db', NextDevice(s))
    BY <1>2, <1>4, <2>1, <2>4, <2>5, <2>6, NextDeviceSmooth
  <2> QED
    BY <1>4, <2>7 DEF s
<1>5. CASE NewRoom(sim.u, sim.r) /\ sim' = NextDevice(WithRoom(nextID))
  <2>1. nextID \in Nat
    BY <1>2 DEF DbOK, IdsUsed
  <2> DEFINE row == [id |-> nextID, user |-> sim.u, name |-> sim.r, targets |-> FALSE]
  <2>2. db'.devices = db.devices /\ db'.rooms = db.rooms \cup {row}
    BY <1>5, BecomesFields DEF NewRoom
  <2>3. row.name = sim.r /\ ~(sim.r >= sim.r + 1)
    BY <1>2
  <2> HIDE DEF row
  <2>4. \A n \in db'.rooms : n.user = sim.u /\ n.name >= sim.r + 1 => n \in db.rooms
    BY <2>2, <2>3
  <2> QED
    BY <1>4, <1>5, <2>1, <2>2, <2>4
<1>6. ASSUME Untouched, NEW m \in sim.roomsByName, sim' = NextDevice(WithRoom(m.id))
      PROVE  Smooth(db', sim')
  <2>1. m.id \in Nat
    BY <1>1, InRoomFacts, SimFields DEF RoomRow
  <2> QED
    BY <1>4, <1>6, <2>1 DEF Untouched
<1>7. ASSUME NEW m \in db.rooms, m.user = sim.u, m.name = sim.r
      PROVE  \E n \in sim.roomsByName : n.name = sim.r
  BY <1>2, <1>3, <1>7 DEF RoomsSeen
<1> QED
  BY <1>1, <1>5, <1>6, <1>7, ProvisionRoomOutcome

\* Where no device has another one's name, a device with a name of the file is the one
\* that the file calls so.
LEMMA NamesOwn ==
    ASSUME DbOK, Named(db), NEW x \in db.devices, NEW r \in DOMAIN RoomDefs(x.user), NEW d,
           x.name = DeviceName(r, d)
    PROVE  x.hwID = <<x.user, r, d>>
<1>1. x \in DeviceRow /\ x.hwID[1] = x.user /\ x.user \in Users
  BY RowsFields DEF DbOK, Configured, Fields, DeviceRow
<1>2. r # 0 /\ x.name[1] = r /\ x.name[2] = d
  BY <1>1, RoomDefsType DEF DeviceName
<1>3. x.name = <<x.hwID[2], x.hwID[3]>>
  BY <1>2 DEF Named, DeviceName
<1>4. x.hwID[2] = r /\ x.hwID[3] = d
  BY <1>2, <1>3
<1>5. x.hwID = <<x.hwID[1], x.hwID[2], x.hwID[3]>>
  BY <1>1 DEF DeviceRow
<1> QED
  BY <1>1, <1>4, <1>5

LEMMA ProvisionDeviceSmooth ==
    ASSUME Undisturbed, ProvisionDevice
    PROVE  Smooth(db', sim')
<1>1. Base /\ calm' = TRUE /\ Smooth(db, sim) /\ sim.pc = "device" /\ sim.pc \in InRoom
  BY PcFacts DEF Undisturbed, ProvisionDevice, At
<1>2. /\ DbOK /\ sim.u \in Users /\ sim.r \in DOMAIN RoomDefs(sim.u) /\ sim.r \in Nat
      /\ sim.d \in DOMAIN DeviceDefs(sim.u, sim.r) /\ sim.p = 0
      /\ db.devices \subseteq DeviceRow /\ db.rooms \subseteq RoomRow
  BY <1>1, InRoomFacts, UndisturbedFacts
<1>3. sim.d \in Nat
  BY <1>2, DeviceDefsType
<1>4. RoomsSeen(db, sim, sim.r + 1) /\ DevicesSeen(db, sim, sim.r, sim.d)
  BY <1>1 DEF Smooth
<1>5. ASSUME NEW id \in Nat, db'.rooms = db.rooms,
             \A x \in db'.devices : x \in db.devices \/ x.hwID = hwID,
             sim' = WithDevice(id)
      PROVE  Smooth(db', sim')
  <2>1. /\ sim'.u = sim.u /\ sim'.r = sim.r /\ sim'.d = sim.d /\ sim'.pc = "assign"
        /\ sim'.roomsByName = sim.roomsByName /\ sim'.devicesByHwID = sim.devicesByHwID
    BY <1>1, <1>5, WithFacts
  <2>2. RoomsSeen(db', sim', sim'.r + 1)
    BY <1>4, <1>5, <2>1, RoomsSeenStay
  <2>3. \A x \in db.devices : x.hwID[2] \in Nat /\ x.hwID[3] \in Nat
    BY <1>2 DEF DeviceRow
  <2>4. hwID[2] = sim.r /\ hwID[3] = sim.d
    BY DEF hwID
  <2>5. ASSUME NEW x \in db'.devices, x.user = sim.u,
               x.hwID[2] > sim.r \/ (x.hwID[2] = sim.r /\ x.hwID[3] >= sim.d + 1)
        PROVE  x \in db.devices /\ (x.hwID[2] > sim.r \/ (x.hwID[2] = sim.r /\ x.hwID[3] >= sim.d))
    <3>1. x.hwID # hwID
      BY <1>2, <1>3, <2>4, <2>5
    <3> QED
      BY <1>2, <1>3, <1>5, <2>3, <2>5, <3>1
  <2>6. DevicesSeen(db', sim', sim'.r, sim'.d + 1)
    BY <1>4, <2>1, <2>5 DEF DevicesSeen
  <2> QED
    BY <2>1, <2>2, <2>6 DEF Smooth
<1>6. CASE NewDevice(sim.u, sim.r, sim.d) /\ sim' = WithDevice(nextID)
  <2>1. nextID \in Nat
    BY <1>2 DEF DbOK, IdsUsed
  <2> DEFINE row == [id |-> nextID, user |-> sim.u, hwID |-> <<sim.u, sim.r, sim.d>>,
                     name |-> DeviceName(sim.r, sim.d), room |-> 0,
                     caps |-> DeviceDefs(sim.u, sim.r)[sim.d].caps]
  <2>2. db'.rooms = db.rooms /\ db'.devices = db.devices \cup {row}
    BY <1>6, BecomesFields DEF NewDevice
  <2>3. row.hwID = hwID
    BY DEF hwID
  <2> HIDE DEF row
  <2> QED
    BY <1>5, <1>6, <2>1, <2>2, <2>3
<1>7. ASSUME Untouched, NEW x \in sim.devicesByHwID, sim' = WithDevice(x.id)
      PROVE  Smooth(db', sim')
  <2>1. x.id \in Nat
    BY <1>1, InRoomFacts, SimFields DEF DeviceRow
  <2> QED
    BY <1>5, <1>7, <2>1 DEF Untouched
<1>8. ASSUME NEW x \in db.devices, x.hwID = hwID
      PROVE  \E y \in sim.devicesByHwID : y.hwID = hwID
  <2>1. x.user = sim.u /\ x.hwID[2] = sim.r /\ x.hwID[3] = sim.d
    BY <1>1, <1>2, <1>8, InRoomFacts DEF DbOK, Configured, hwID
  <2> QED
    BY <1>3, <1>4, <1>8, <2>1 DEF DevicesSeen
<1>9. ASSUME Named(db), NEW x \in db.devices, TakesPlace(x) PROVE x.hwID = hwID
  <2>1. CASE x.user = sim.u /\ x.name = DeviceName(sim.r, sim.d)
    <3>1. sim.r \in DOMAIN RoomDefs(x.user)
      BY <1>2, <2>1
    <3>2. x.hwID = <<x.user, sim.r, sim.d>>
      BY <1>2, <1>9, <2>1, <3>1, NamesOwn
    <3> QED
      BY <2>1, <3>2 DEF hwID
  <2> QED
    BY <1>9, <2>1 DEF TakesPlace
<1>10. ASSUME Untouched, sim' = Fatal, ~Named(db) PROVE Smooth(db', sim')
  BY <1>1, <1>10, FatalFacts, PcFacts DEF Smooth, Unobstructed, Untouched
<1> QED
  BY <1>1, <1>6, <1>7, <1>8, <1>9, <1>10, ProvisionDeviceOutcome

LEMMA AssignDeviceSmooth ==
    ASSUME Undisturbed, AssignDevice
    PROVE  Smooth(db', sim')
<1>1. Base /\ calm' = TRUE /\ Smooth(db, sim) /\ sim.pc = "assign" /\ sim.pc \in InRoom
  BY PcFacts DEF Undisturbed, AssignDevice, At
<1>2. /\ DbOK /\ sim.u \in Users /\ sim.r \in DOMAIN RoomDefs(sim.u) /\ sim.r \in Nat /\ sim.r # 0
      /\ sim.d \in DOMAIN DeviceDefs(sim.u, sim.r) /\ sim.p = 0
      /\ db.devices \subseteq DeviceRow /\ db.rooms \subseteq RoomRow /\ RoomOf(sim.u, sim.room)
  BY <1>1, InRoomFacts, UndisturbedFacts
<1>3. RoomsSeen(db, sim, sim.r + 1) /\ DevicesSeen(db, sim, sim.r, sim.d + 1)
  BY <1>1 DEF Smooth
<1>4. CASE DeviceMoved /\ sim' = NextDevice(Assigned)
  <2> DEFINE s == Assigned
  <2>1. /\ s \in SimType /\ s.u = sim.u /\ s.r = sim.r /\ s.d = sim.d /\ s.p = 0
        /\ s.roomsByName = sim.roomsByName /\ s.devicesByHwID = sim.devicesByHwID
    BY <1>1, <1>2, WithFacts
  <2> HIDE DEF s
  <2>2. PICK x \in db.devices : /\ x.id = sim.device /\ x.user = sim.u
                                /\ Moved(x, sim.room, DeviceName(sim.r, sim.d))
    BY <1>4 DEF DeviceMoved
  <2> DEFINE y == [x EXCEPT !.room = sim.room, !.name = DeviceName(sim.r, sim.d)]
  <2>3. db'.rooms = db.rooms /\ db'.devices = (db.devices \ {x}) \cup {y}
    BY <2>2, BecomesFields DEF Moved
  <2>4. x \in DeviceRow /\ sim.room \in Nat /\ DeviceName(sim.r, sim.d) \in Nat \X Nat
    BY <1>2, <2>2 DEF Moved
  <2>5. y \in DeviceRow /\ y.user = x.user /\ y.hwID = x.hwID
    BY <2>4 DEF DeviceRow
  <2> HIDE DEF y
  <2>6. db'.devices \subseteq DeviceRow
    BY <1>2, <2>3, <2>5
  <2>7. RoomsSeen(db', s, s.r + 1)
    BY <1>3, <2>1, <2>3, RoomsSeenStay
  <2>8. DevicesSeen(db', s, s.r, s.d + 1)
    BY <1>3, <2>1, <2>3, <2>5, DevicesSeenStay
  <2>9. s.d <= Len(DeviceDefs(s.u, s.r)) /\ s.u \in Users /\ s.r \in DOMAIN RoomDefs(s.u)
    BY <1>2, <2>1, DeviceDefsType
  <2>10. Smooth(db', NextDevice(s))
    BY <2>1, <2>6, <2>7, <2>8, <2>9, NextDeviceSmooth
  <2> QED
    BY <1>4, <2>10 DEF s
<1>5. ASSUME NEW x \in db.devices, x.id = sim.device, x.user = sim.u, x.room \notin {0, sim.room}
      PROVE  ~InPlace(db)
  <2>1. x.hwID = <<sim.u, sim.r, sim.d>> /\ RoomAt(db, sim.room, sim.u, sim.r)
    BY <1>1, <1>2, <1>5, UndisturbedFacts DEF Here, DbOK, Unique
  <2>2. PICK m \in db.rooms : m.id = x.room /\ m.user = sim.u
    BY <1>2, <1>5 DEF DbOK, Referenced
  <2>3. PICK n \in db.rooms : n.id = sim.room /\ n.user = sim.u /\ n.name = sim.r
    BY <2>1 DEF RoomAt
  <2>4. m.name # sim.r
    BY <1>2, <1>5, <2>2, <2>3 DEF DbOK, Unique
  <2>5. x.hwID[2] = sim.r
    BY <2>1
  <2> QED
    BY <1>5, <2>2, <2>4, <2>5 DEF InPlace
<1>6. \E x \in db.devices : x.id = sim.device /\ x.user = sim.u
  BY <1>1, UndisturbedFacts DEF Here
<1>7. ASSUME NEW x \in db.devices, x.user = sim.u, x.id # sim.device,
             x.name = DeviceName(sim.r, sim.d)
      PROVE  ~Named(db)
  <2>1. PICK y \in db.devices : y.id = sim.device /\ y.hwID = <<sim.u, sim.r, sim.d>>
    BY <1>1, UndisturbedFacts DEF Here
  <2>2. ASSUME Named(db) PROVE x.hwID = <<sim.u, sim.r, sim.d>>
    <3>1. sim.r \in DOMAIN RoomDefs(x.user)
      BY <1>2, <1>7
    <3>2. x.hwID = <<x.user, sim.r, sim.d>>
      BY <1>2, <1>7, <2>2, <3>1, NamesOwn
    <3> QED
      BY <1>7, <3>2
  <2> QED
    BY <1>2, <1>7, <2>1, <2>2 DEF DbOK, Unique
<1>8. Refusable(sim.u, sim.device, sim.room, DeviceName(sim.r, sim.d)) => ~Unobstructed(db)
  BY <1>5, <1>7 DEF Refusable, Unobstructed
<1>9. ASSUME Untouched, sim' = Fatal, ~Unobstructed(db) PROVE Smooth(db', sim')
  BY <1>1, <1>9, FatalFacts, PcFacts DEF Smooth, Untouched
<1> QED
  BY <1>1, <1>2, <1>4, <1>6, <1>8, <1>9, AssignDeviceOutcome

\* The devices of a room with a goal can meet it.
LEMMA CapableHere ==
    ASSUME Equipped, Undisturbed, sim.pc \in {"desired", "activate"}
    PROVE  Capable(DevicesIn(sim.room))
<1> DEFINE defs == DeviceDefs(sim.u, sim.r)
<1>1. sim.pc \in InRoom /\ sim.pc \in InRoom \ {"room", "device", "assign"}
  BY DEF InRoom
<1>2. DbOK /\ Here(db, sim) /\ sim.u \in Users /\ sim.r \in DOMAIN RoomDefs(sim.u)
  BY <1>1, UndisturbedFacts
<1>3. RoomDefs(sim.u)[sim.r].goal # "none" /\ Placed(db, sim.room, sim.u, sim.r, Len(defs))
  BY <1>1, <1>2 DEF Here
<1>4. Capable({defs[d] : d \in DOMAIN defs}) /\ DOMAIN defs = 1 .. Len(defs)
  BY <1>2, <1>3, DeviceDefsType DEF Equipped
<1>5. ASSUME NEW d \in DOMAIN defs
      PROVE  \E x \in DevicesIn(sim.room) : x.caps = defs[d].caps
  <2>1. PICK x \in db.devices : x.user = sim.u /\ x.hwID = <<sim.u, sim.r, d>> /\ x.room = sim.room
    BY <1>3, <1>4, <1>5 DEF Placed
  <2>2. x.hwID[2] = sim.r /\ x.hwID[3] = d
    BY <2>1
  <2>3. x.caps = defs[d].caps
    BY <1>2, <2>1, <2>2 DEF DbOK, Configured
  <2> QED
    BY <2>1, <2>3 DEF DevicesIn
<1> HIDE DEF defs
<1>6. ASSUME NEW c \in {"sensor", "actuator"} PROVE c \in UNION {x.caps : x \in DevicesIn(sim.room)}
  <2>1. PICK d \in DOMAIN defs : c \in defs[d].caps
    BY <1>4 DEF Capable
  <2>2. PICK x \in DevicesIn(sim.room) : x.caps = defs[d].caps
    BY <1>5
  <2> QED
    BY <2>1, <2>2
<1> QED
  BY <1>6 DEF Capable

\* In a room whose devices are all there, the lists are needed for the next rooms only.
LEMMA RestSeen ==
    ASSUME Undisturbed, sim.pc \in InRoom \ {"room", "device", "assign"}, db'.devices = db.devices,
           \A n \in db'.rooms : \E m \in db.rooms : m.user = n.user /\ m.name = n.name
    PROVE  /\ RoomsSeen(db', sim, sim.r + 1) /\ DevicesSeen(db', sim, sim.r + 1, 1)
           /\ sim.p = 0 => Smooth(db', NextRoom(sim))
           /\ Smooth(db', NextPeriod(sim))
           /\ \A k \in Nat : Smooth(db', NextPeriod(WithSchedule(k)))
<1>1. RoomsSeen(db, sim, sim.r + 1) /\ DevicesSeen(db, sim, sim.r + 1, 1) /\ Base /\ sim.pc \in InRoom
  BY DEF Undisturbed, Smooth
<1>2. /\ sim \in SimType /\ sim.u \in Users /\ sim.r <= Len(RoomDefs(sim.u)) /\ sim.d = 0
  BY <1>1, InRoomFacts
<1>3. RoomsSeen(db', sim, sim.r + 1)
  BY <1>1, RoomsSeenStay
<1>4. DevicesSeen(db', sim, sim.r + 1, 1)
  BY <1>1, DevicesSeenStay
<1>5. sim.p = 0 => Smooth(db', NextRoom(sim))
  BY <1>2, <1>3, <1>4, NextRoomSmooth
<1>6. Smooth(db', NextPeriod(sim))
  BY <1>2, <1>3, <1>4, NextPeriodSmooth
<1>7. ASSUME NEW k \in Nat PROVE Smooth(db', NextPeriod(WithSchedule(k)))
  <2> DEFINE s == WithSchedule(k)
  <2>1. /\ s \in SimType /\ s.u = sim.u /\ s.r = sim.r
        /\ s.roomsByName = sim.roomsByName /\ s.devicesByHwID = sim.devicesByHwID
    BY <1>1, WithFacts
  <2> HIDE DEF s
  <2>2. RoomsSeen(db', s, s.r + 1) /\ DevicesSeen(db', s, s.r + 1, 1)
    BY <1>3, <1>4, <2>1 DEF RoomsSeen, DevicesSeen
  <2>3. Smooth(db', NextPeriod(s))
    BY <2>1, <2>2, NextPeriodSmooth
  <2> QED
    BY <2>3 DEF s
<1> QED
  BY <1>3, <1>4, <1>5, <1>6, <1>7

LEMMA SetDesiredStateSmooth ==
    ASSUME Equipped, Undisturbed, SetDesiredState
    PROVE  Smooth(db', sim')
<1>1. /\ Base /\ calm' = TRUE /\ sim.pc = "desired" /\ sim.pc \in InRoom
      /\ sim.pc \in InRoom \ {"room", "device", "assign"}
  BY PcFacts DEF Undisturbed, SetDesiredState, At
<1>2. DbOK /\ sim.p = 0 /\ RoomOf(sim.u, sim.room) /\ db.rooms \subseteq RoomRow
  BY <1>1, InRoomFacts, UndisturbedFacts
<1>3. Capable(DevicesIn(sim.room))
  BY <1>1, CapableHere
<1>4. Targeted(sim.room, TRUE) /\ sim' = NextRoom(sim)
  BY <1>1, <1>2, <1>3, SetDesiredStateOutcome
<1>5. /\ db'.devices = db.devices
      /\ db'.rooms = {IF m.id = sim.room THEN [m EXCEPT !.targets = TRUE] ELSE m : m \in db.rooms}
  BY <1>4, BecomesFields DEF Targeted
<1>6. \A m \in db.rooms : [m EXCEPT !.targets = TRUE].user = m.user
                          /\ [m EXCEPT !.targets = TRUE].name = m.name
  BY <1>2 DEF RoomRow
<1>7. \A n \in db'.rooms : \E m \in db.rooms : m.user = n.user /\ m.name = n.name
  BY <1>5, <1>6
<1> QED
  BY <1>1, <1>2, <1>4, <1>5, <1>7, RestSeen

LEMMA SchedulesSmooth ==
    ASSUME Undisturbed, ProvisionSchedule \/ ListSchedules
    PROVE  Smooth(db', sim')
<1>1. /\ Base /\ calm' = TRUE /\ sim.pc \in {"schedule", "listSchedules"} /\ sim.pc \in InRoom
      /\ sim.pc \in InRoom \ {"room", "device", "assign"}
  BY PcFacts DEF Undisturbed, ProvisionSchedule, ListSchedules, At
<1>2. /\ DbOK /\ RoomOf(sim.u, sim.room) /\ nextID \in Nat /\ Here(db, sim) /\ sim \in SimType
      /\ \A x \in db.scheds : x.id \in Nat
  BY <1>1, UndisturbedFacts DEF DbOK, IdsUsed, SchedRow
<1>3. db'.devices = db.devices /\ db'.rooms = db.rooms
  <2>1. CASE Untouched
    BY <2>1 DEF Untouched
  <2>2. CASE NewSched(sim.room)
    BY <2>2, BecomesFields DEF NewSched
  <2> QED
    BY <1>1, <2>1, <2>2, ProvisionScheduleOutcome, ListSchedulesOutcome
<1>4. /\ RoomsSeen(db', sim, sim.r + 1) /\ DevicesSeen(db', sim, sim.r + 1, 1)
      /\ \A k \in Nat : Smooth(db', NextPeriod(WithSchedule(k)))
  BY <1>1, <1>3, RestSeen
<1>5. CASE ProvisionSchedule
  <2>1. CASE sim' = Goto("listSchedules")
    <3>1. /\ sim'.pc = "listSchedules" /\ sim'.u = sim.u /\ sim'.r = sim.r
          /\ sim'.roomsByName = sim.roomsByName /\ sim'.devicesByHwID = sim.devicesByHwID
      BY <1>2, <2>1 DEF Goto, SimType
    <3>2. RoomsSeen(db', sim', sim'.r + 1) /\ DevicesSeen(db', sim', sim'.r + 1, 1)
      BY <1>4, <3>1 DEF RoomsSeen, DevicesSeen
    <3> QED
      BY <3>1, <3>2 DEF Smooth
  <2> QED
    BY <1>1, <1>2, <1>4, <1>5, <2>1, ProvisionScheduleOutcome
<1>6. CASE ListSchedules
  <2>1. \E s \in db.scheds : s.room = sim.room
    BY <1>2, <1>6 DEF Here, ListSchedules, At
  <2> QED
    BY <1>1, <1>2, <1>4, <1>6, <2>1, ListSchedulesOutcome
<1> QED
  BY <1>5, <1>6

LEMMA ProvisionPeriodSmooth ==
    ASSUME Undisturbed, ProvisionPeriod
    PROVE  Smooth(db', sim')
<1>1. /\ Base /\ calm' = TRUE /\ sim.pc = "period" /\ sim.pc \in InRoom
      /\ sim.pc \in InRoom \ {"room", "device", "assign"}
  BY PcFacts DEF Undisturbed, ProvisionPeriod, At
<1>2. \E s \in db.scheds : s.id = sim.sched
  BY <1>1, UndisturbedFacts DEF Here
<1>3. sim' = NextPeriod(sim) /\ (Untouched \/ PeriodAdded)
  BY <1>1, <1>2, ProvisionPeriodOutcome
<1>4. db'.devices = db.devices /\ db'.rooms = db.rooms
  <2>1. CASE Untouched
    BY <2>1 DEF Untouched
  <2>2. CASE PeriodAdded
    BY <2>2, BecomesFields DEF PeriodAdded, NewPeriod
  <2> QED
    BY <1>3, <2>1, <2>2
<1> QED
  BY <1>1, <1>3, <1>4, RestSeen

LEMMA ActivateScheduleSmooth ==
    ASSUME Equipped, Undisturbed, ActivateSchedule
    PROVE  Smooth(db', sim')
<1>1. /\ Base /\ calm' = TRUE /\ sim.pc = "activate" /\ sim.pc \in InRoom
      /\ sim.pc \in InRoom \ {"room", "device", "assign"}
  BY PcFacts DEF Undisturbed, ActivateSchedule, At
<1>2. sim.p = 0 /\ DbOK
  BY <1>1, InRoomFacts
<1>3. \E s \in db.scheds : s.id = sim.sched /\ s.room = sim.room
  BY <1>1, UndisturbedFacts DEF Here
<1>4. \A s \in db.scheds : s.id = sim.sched => s.room = sim.room
  BY <1>2, <1>3 DEF DbOK, Unique
<1>5. Capable(DevicesIn(sim.room))
  BY <1>1, CapableHere
<1>6. CASE sim' = NextRoom(sim) /\ (Untouched \/ Activated)
  <2>1. db'.devices = db.devices /\ db'.rooms = db.rooms
    <3>1. CASE Untouched
      BY <3>1 DEF Untouched
    <3>2. CASE Activated
      BY <3>2, BecomesFields DEF Activated, SchedSet
    <3> QED
      BY <1>6, <3>1, <3>2
  <2> QED
    BY <1>1, <1>2, <1>6, <2>1, RestSeen
<1>7. ASSUME sim' = Fatal, NEW s \in db.scheds, s.id = sim.sched, Refuses(s), Untouched
      PROVE  Smooth(db', sim')
  <2>1. Unserved(s.id)
    BY <1>4, <1>5, <1>7 DEF Refuses
  <2>2. ~Serving(db)
    BY <2>1 DEF Unserved, PeriodsOf, Serving
  <2> QED
    BY <1>1, <1>7, <2>2, FatalFacts, PcFacts DEF Smooth, Unobstructed, Untouched
<1> QED
  BY <1>1, <1>3, <1>4, <1>5, <1>6, <1>7, ActivateScheduleOutcome

LEMMA WriteCredentialsSmooth ==
    ASSUME Undisturbed, WriteCredentials
    PROVE  Smooth(db', sim')
<1>1. Base /\ calm' = TRUE /\ sim.pc = "credentials"
  BY DEF Undisturbed, WriteCredentials, At
<1>2. sim \in SimType /\ sim.u \in Users
  BY <1>1, BaseFacts, PcFacts
<1>3. sim' = NextUser(sim)
  BY <1>1, WriteCredentialsOutcome
<1>4. sim'.pc \in {"login", "running"}
  BY <1>2, <1>3, NextUserCursor
<1> QED
  BY <1>4, AtRestSmooth

\* No failing call is forgotten before the next start.
LEMMA StaysCalm == ASSUME Base, Run \/ Teardown, calm' = TRUE PROVE calm = TRUE
<1>1. \A a, s : Call(a, s) => calm = TRUE
  BY DEF Call, Base
<1>2. CASE WriteCredentials
  BY <1>2 DEF WriteCredentials
<1>3. CASE Teardown
  BY <1>1, <1>3 DEF Teardown, TeardownLogin, TeardownDelete
<1>4. CASE Run /\ ~WriteCredentials
  BY <1>1, <1>4 DEF Run, RunLogin, RunRegister, RunRelogin, ListRooms, ListDevices, ProvisionRoom,
     ProvisionDevice, AssignDevice, SetDesiredState, ProvisionSchedule, ListSchedules,
     ProvisionPeriod, ActivateSchedule
<1> QED
  BY <1>2, <1>3, <1>4

LEMMA SmoothInvariant == Equipped => (Spec => []CalmlySmooth)
<1> SUFFICES ASSUME Equipped PROVE Spec => []CalmlySmooth
  OBVIOUS
<1>1. Init => CalmlySmooth
  BY AtRestSmooth DEF Init, Off, CalmlySmooth
<1>2. ASSUME Base, Progress(db, touched, sim), CalmlySmooth, [Next]_vars
      PROVE  CalmlySmooth'
  <2> SUFFICES ASSUME calm' = TRUE, touched' = {} PROVE Smooth(db', sim')
    BY DEF CalmlySmooth
  <2>1. CASE Start
    <3>1. sim'.pc \in {"login", "teardown"}
      BY <1>2, <2>1, StartFacts
    <3> QED
      BY <3>1, AtRestSmooth
  <2>2. CASE Stop
    <3>1. sim'.pc = "off"
      BY <1>2, <2>2, StopFacts
    <3> QED
      BY <3>1, AtRestSmooth
  <2>3. CASE Run
    <3>1. Undisturbed
      BY <1>2, <2>3, RunTouches, StaysCalm DEF Undisturbed, CalmlySmooth
    <3> QED
      BY <2>3, <3>1, LoginsSmooth, ListsSmooth, ProvisionRoomSmooth, ProvisionDeviceSmooth,
         AssignDeviceSmooth, SetDesiredStateSmooth, SchedulesSmooth, ProvisionPeriodSmooth,
         ActivateScheduleSmooth, WriteCredentialsSmooth DEF Run
  <2>4. CASE Teardown
    <3>1. sim.pc \in {"teardown", "deleteMe"} /\ sim \in SimType
      BY <1>2, <2>4, BaseFacts DEF Teardown, TeardownLogin, TeardownDelete, At
    <3>2. Goto("deleteMe").pc = "deleteMe"
      BY <3>1 DEF Goto, SimType
    <3>3. sim'.pc \in {"torn", "teardown", "deleteMe"}
      BY <1>2, <2>4, <3>1, <3>2, NextTeardownFacts, TeardownLoginOutcome, TeardownDeleteOutcome DEF Teardown
    <3> QED
      BY <3>3, AtRestSmooth
  <2>5. ASSUME NEW u \in Users, Edit(u) PROVE FALSE
    BY <1>2, <2>5, EditKeepsBase
  <2>6. CASE UNCHANGED vars
    BY <1>2, <2>6 DEF vars, CalmlySmooth
  <2> QED
    BY <1>2, <2>1, <2>2, <2>3, <2>4, <2>5, <2>6 DEF Next
<1> QED
  BY <1>1, <1>2, BaseInvariant, ProgressInvariant, PTL DEF Spec

\* Where the rooms with a goal have the devices for it, a run in which no call fails and that
\* nobody disturbs ends only at a device that a person has put into another room or given
\* another one's name, or at a period that the devices of the file do not serve.
THEOREM OnlyEditsBlockHolds == Equipped => (Spec => []OnlyEditsBlock)
<1>1. ASSUME Base, CalmlySmooth PROVE OnlyEditsBlock
  <2> SUFFICES ASSUME sim.pc = "failed", calm, touched = {}, ~Unobstructed(db)
               PROVE  \/ \E d \in db.devices, m \in db.rooms :
                            d.room = m.id /\ <<m.user, m.name>> # <<d.hwID[1], d.hwID[2]>>
                      \/ \E d \in db.devices :
                            d.name[1] # 0 /\ d.name # DeviceName(d.hwID[2], d.hwID[3])
                      \/ \E p \in db.periods : ~p.served
    BY <1>1 DEF OnlyEditsBlock, At, CalmlySmooth, Smooth, Base
  <2> QED
    BY DEF Unobstructed, InPlace, Named, Serving
<1> QED
  BY <1>1, BaseInvariant, SmoothInvariant, PTL
=============================================================================
