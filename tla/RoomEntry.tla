----------------------------- MODULE RoomEntry -----------------------------
(***************************************************************************)
(* The cache entry of one room and the goroutines that share it: a tick of *)
(* the control loop, ingestion, and two that reload the room (the refresh  *)
(* goroutine and the stream consumer).                                     *)
(*                                                                         *)
(* A reload builds a new entry, takes over the runtime fields of the entry *)
(* that is in the store and replaces it.  Entries are pointers: whoever    *)
(* fetched the old one goes on using it, under the old one's lock.  The    *)
(* two maps are taken over as references, LastActivePeriod by value.       *)
(*                                                                         *)
(* A map is named by the entry that made it.  A tick publishes one command *)
(* (ActuatorStates keeps its number), a message has one reading; what they *)
(* compute is in Control and ControlLoop.                                  *)
(***************************************************************************)
EXTENDS Naturals

CONSTANTS
    Ptrs,        \* entries that can be allocated
    First,       \* the entry of the warm start
    None,
    Reloaders,   \* goroutines that run ReloadRoom
    Ticker, Ingestor,
    MaxCommands, MaxPeriods, MaxMsgs   \* bounds

Threads == Reloaders \cup {Ticker, Ingestor}

ASSUME RoomEntryAssumption ==
    /\ First \in Ptrs /\ None \notin Ptrs /\ None \notin Threads
    /\ Ticker \notin Reloaders /\ Ingestor \notin Reloaders /\ Ticker # Ingestor
    /\ MaxCommands \in Nat /\ MaxPeriods \in Nat /\ MaxMsgs \in Nat

VARIABLES
    exists,    \* the room's row
    store,     \* Store.rooms of the room: an entry or None
    entry,     \* entry[p]: its maps and its LastActivePeriod
    used,      \* entries allocated so far
    readings,  \* content of each LatestReadings map
    states,    \* content of each ActuatorStates map
    writer,    \* the thread that holds Mu of an entry
    readers,   \* the threads that hold Mu of an entry for reading
    pc,        \* where each thread is
    rc,        \* the entry each thread fetched
    new,       \* the entry each reloader builds
    got,       \* history: number of readings appended
    sent,      \* history: last command published
    period     \* history: last period a tick remembered

vars == <<exists, store, entry, used, readings, states, writer, readers, pc, rc, new,
          got, sent, period>>

maps == <<readings, states>>
locks == <<writer, readers>>
hist == <<got, sent, period>>

Init ==
    /\ exists = TRUE
    /\ store = First
    /\ entry = [p \in Ptrs |-> [readings |-> p, states |-> p, period |-> 0]]
    /\ used = {First}
    /\ readings = [p \in Ptrs |-> {}]
    /\ states = [p \in Ptrs |-> 0]
    /\ writer = [p \in Ptrs |-> None]
    /\ readers = [p \in Ptrs |-> {}]
    /\ pc = [t \in Threads |-> "idle"]
    /\ rc = [t \in Threads |-> None]
    /\ new = [t \in Reloaders |-> None]
    /\ got = 0 /\ sent = 0 /\ period = 0

-----------------------------------------------------------------------------
(* sync.RWMutex *)

Lock(t, p) ==
    /\ writer[p] = None /\ readers[p] = {}
    /\ writer' = [writer EXCEPT ![p] = t]
    /\ UNCHANGED readers

Unlock(t, p) ==
    /\ writer' = [writer EXCEPT ![p] = None]
    /\ UNCHANGED readers

RLock(t, p) ==
    /\ writer[p] = None
    /\ readers' = [readers EXCEPT ![p] = @ \cup {t}]
    /\ UNCHANGED writer

RUnlock(t, p) ==
    /\ readers' = [readers EXCEPT ![p] = @ \ {t}]
    /\ UNCHANGED writer

Goto(t, l) == pc' = [pc EXCEPT ![t] = l]

\* t fetches the entry from the store; without one it has nothing to do.
FetchEntry(t, l) ==
    /\ rc' = [rc EXCEPT ![t] = store]
    /\ Goto(t, IF store = None THEN "idle" ELSE l)

-----------------------------------------------------------------------------
(* Repository.ReloadRoom *)

\* api-service deletes the room.
DeleteRow ==
    /\ exists /\ exists' = FALSE
    /\ UNCHANGED <<store, entry, used, maps, locks, pc, rc, new, hist>>

\* room_deleted is handled.
DeleteRoom ==
    /\ ~exists /\ store # None
    /\ store' = None
    /\ UNCHANGED <<exists, entry, used, maps, locks, pc, rc, new, hist>>

\* The queries: the room is gone, or a new entry with maps of its own is built.
Fetch(t) ==
    /\ pc[t] = "idle"
    /\ \/ /\ ~exists
          /\ store' = None
          /\ UNCHANGED <<used, new, pc>>
       \/ /\ exists
          /\ \E p \in Ptrs \ used :
               /\ used' = used \cup {p}
               /\ new' = [new EXCEPT ![t] = p]
          /\ Goto(t, "existing")
          /\ UNCHANGED store
    /\ UNCHANGED <<exists, entry, maps, locks, rc, hist>>

Existing(t) ==
    /\ pc[t] = "existing"
    /\ rc' = [rc EXCEPT ![t] = store]
    /\ Goto(t, IF store = None THEN "add" ELSE "rlock")
    /\ UNCHANGED <<exists, store, entry, used, maps, locks, new, hist>>

ReloadRLock(t) ==
    /\ t \in Reloaders /\ pc[t] = "rlock"
    /\ RLock(t, rc[t]) /\ Goto(t, "preserve")
    /\ UNCHANGED <<exists, store, entry, used, maps, rc, new, hist>>

\* Mutant: the new entry gets copies of the maps.
PreserveCopies(t) ==
    /\ pc[t] = "preserve"
    /\ entry' = [entry EXCEPT ![new[t]].period = entry[rc[t]].period]
    /\ readings' = [readings EXCEPT ![new[t]] = readings[entry[rc[t]].readings]]
    /\ states' = [states EXCEPT ![new[t]] = states[entry[rc[t]].states]]
    /\ RUnlock(t, rc[t]) /\ Goto(t, "add")
    /\ UNCHANGED <<exists, store, used, rc, new, hist>>

\* Mutant: the commanded states are forgotten.
PreserveReadings(t) ==
    /\ pc[t] = "preserve"
    /\ entry' = [entry EXCEPT ![new[t]] = [entry[rc[t]] EXCEPT !.states = new[t]]]
    /\ RUnlock(t, rc[t]) /\ Goto(t, "add")
    /\ UNCHANGED <<exists, store, used, maps, rc, new, hist>>

\* The runtime fields of the existing entry.
Preserve(t) ==
    /\ pc[t] = "preserve"
    /\ entry' = [entry EXCEPT ![new[t]] = entry[rc[t]]]
    /\ RUnlock(t, rc[t]) /\ Goto(t, "add")
    /\ UNCHANGED <<exists, store, used, maps, rc, new, hist>>

AddRoom(t) ==
    /\ pc[t] = "add"
    /\ store' = new[t]
    /\ Goto(t, "idle")
    /\ UNCHANGED <<exists, entry, used, maps, locks, rc, new, hist>>

-----------------------------------------------------------------------------
(* Scheduler.tick *)

TickFetch ==
    /\ pc[Ticker] = "idle" /\ sent < MaxCommands
    /\ FetchEntry(Ticker, "rlock")
    /\ UNCHANGED <<exists, store, entry, used, maps, locks, new, hist>>

TickRLock ==
    /\ pc[Ticker] = "rlock"
    /\ RLock(Ticker, rc[Ticker]) /\ Goto(Ticker, "evaluate")
    /\ UNCHANGED <<exists, store, entry, used, maps, rc, new, hist>>

\* Evaluate read both maps and releases the lock.
Evaluate ==
    /\ pc[Ticker] = "evaluate"
    /\ RUnlock(Ticker, rc[Ticker]) /\ Goto(Ticker, "publish")
    /\ UNCHANGED <<exists, store, entry, used, maps, rc, new, hist>>

\* The command is published, or not.
Publish(ok) ==
    /\ pc[Ticker] = "publish"
    /\ sent' = IF ok THEN sent + 1 ELSE sent
    /\ Goto(Ticker, IF ok THEN "lock" ELSE "locklap")
    /\ UNCHANGED <<exists, store, entry, used, maps, locks, rc, new, got, period>>

TickLock ==
    /\ \/ pc[Ticker] = "lock" /\ Goto(Ticker, "setstate")
       \/ pc[Ticker] = "locklap" /\ Goto(Ticker, "setlap")
    /\ Lock(Ticker, rc[Ticker])
    /\ UNCHANGED <<exists, store, entry, used, maps, rc, new, hist>>

\* Mutant: the tick notes the state and goes on to its next command without Unlock.
SetStateLocked ==
    /\ pc[Ticker] = "setstate"
    /\ states' = [states EXCEPT ![entry[rc[Ticker]].states] = sent]
    /\ Goto(Ticker, "locklap")
    /\ UNCHANGED <<exists, store, entry, used, readings, locks, rc, new, hist>>

SetState ==
    /\ pc[Ticker] = "setstate"
    /\ states' = [states EXCEPT ![entry[rc[Ticker]].states] = sent]
    /\ Unlock(Ticker, rc[Ticker]) /\ Goto(Ticker, "locklap")
    /\ UNCHANGED <<exists, store, entry, used, readings, rc, new, hist>>

\* A new period, or the same one again, was the control source, or none was.
SetLastActivePeriod ==
    /\ pc[Ticker] = "setlap"
    /\ \E n \in {period, period + 1} \cap 0 .. MaxPeriods :
         /\ period' = n
         /\ \/ entry' = [entry EXCEPT ![rc[Ticker]].period = n]
            \/ n = period /\ UNCHANGED entry
    /\ Unlock(Ticker, rc[Ticker]) /\ Goto(Ticker, "idle")
    /\ UNCHANGED <<exists, store, used, maps, rc, new, got, sent>>

-----------------------------------------------------------------------------
(* Ingestor.Process *)

IngestFetch ==
    /\ pc[Ingestor] = "idle" /\ got < MaxMsgs
    /\ FetchEntry(Ingestor, "lock")
    /\ UNCHANGED <<exists, store, entry, used, maps, locks, new, hist>>

IngestLock ==
    /\ pc[Ingestor] = "lock"
    /\ Lock(Ingestor, rc[Ingestor]) /\ Goto(Ingestor, "append")
    /\ UNCHANGED <<exists, store, entry, used, maps, rc, new, hist>>

AppendReading ==
    /\ pc[Ingestor] = "append"
    /\ readings' = [readings EXCEPT ![entry[rc[Ingestor]].readings] = @ \cup {got + 1}]
    /\ got' = got + 1
    /\ Unlock(Ingestor, rc[Ingestor]) /\ Goto(Ingestor, "idle")
    /\ UNCHANGED <<exists, store, entry, used, states, rc, new, sent, period>>

Reload(t) == Fetch(t) \/ Existing(t) \/ ReloadRLock(t) \/ Preserve(t) \/ AddRoom(t)

Tick ==
    \/ TickFetch \/ TickRLock \/ Evaluate \/ (\E ok \in BOOLEAN : Publish(ok))
    \/ TickLock \/ SetState \/ SetLastActivePeriod

Process == IngestFetch \/ IngestLock \/ AppendReading

Next == DeleteRow \/ DeleteRoom \/ (\E t \in Reloaders : Reload(t)) \/ Tick \/ Process

Spec == Init /\ [][Next]_vars

-----------------------------------------------------------------------------
(* Properties *)

Labels == {"idle", "existing", "rlock", "preserve", "add", "evaluate", "publish", "lock",
           "setstate", "locklap", "setlap", "append"}

Shapes ==
    /\ store \in Ptrs \cup {None} /\ used \subseteq Ptrs
    /\ entry \in [Ptrs -> [readings : Ptrs, states : Ptrs, period : Nat]]
    /\ readings \in [Ptrs -> SUBSET Nat] /\ states \in [Ptrs -> Nat]
    /\ writer \in [Ptrs -> Threads \cup {None}] /\ readers \in [Ptrs -> SUBSET Threads]
    /\ pc \in [Threads -> Labels]
    /\ rc \in [Threads -> Ptrs \cup {None}] /\ new \in [Reloaders -> Ptrs \cup {None}]
    /\ exists \in BOOLEAN /\ got \in Nat /\ sent \in Nat /\ period \in Nat
    /\ \A p \in Ptrs : writer[p] # None => readers[p] = {}

\* Every lock is held by the threads that are inside a section it guards, and by no other:
\* no way out of a section forgets it.
LocksHeld ==
    \A p \in Ptrs, t \in Threads :
        /\ (writer[p] = t) = (pc[t] \in {"setstate", "setlap", "append"} /\ rc[t] = p)
        /\ (t \in readers[p]) = (pc[t] \in {"preserve", "evaluate"} /\ rc[t] = p)

\* Entries point to allocated maps; an entry is locked by one writer or by readers, who
\* are in the sections of ReloadRoom, tick and Process that the lock guards.
TypeOK == Shapes /\ LocksHeld

\* control-service.md, "Runtime fields survive reloads": as long as the room exists,
\* what ingestion appended and what the tick commanded is in the entry of the store,
\* also when it was written to an entry that had been replaced.
MapsSurvive ==
    exists => /\ 1 .. got \subseteq readings[entry[store].readings]
              /\ pc[Ticker] \notin {"lock", "setstate"} => states[entry[store].states] = sent

\* The record that a room's readers see: the maps of the entry in the store.
Record == INSTANCE RoomRecord WITH
    live <- exists,
    readings <- IF exists THEN readings[entry[store].readings] ELSE {},
    command <- IF exists THEN states[entry[store].states] ELSE 0

\* cache.go, RoomCache, and repository.go, ReloadRoom: with its pointers, locks and
\* reloads the cache implements one record per room.  A reload is invisible, and a
\* write through an entry that was replaced meanwhile is a write to the record.
IsOneRecord == Record!Spec

\* Threads inside a critical section that reads or writes a map.
Reads(t, m) ==
    \/ t = Ticker /\ pc[t] = "evaluate" /\ m \in {<<"r", entry[rc[t]].readings>>, <<"s", entry[rc[t]].states>>}
Writes(t, m) ==
    \/ t = Ticker /\ pc[t] = "setstate" /\ m = <<"s", entry[rc[t]].states>>
    \/ t = Ingestor /\ pc[t] = "append" /\ m = <<"r", entry[rc[t]].readings>>

\* cache.go, RoomCache: "Mu protects all fields": no map is written while another
\* goroutine reads or writes it, which the Go runtime punishes with a fatal error.
NoMapRace ==
    \A t, u \in Threads : \A m \in {"r", "s"} \X Ptrs :
        t # u => ~(Writes(t, m) /\ (Reads(u, m) \/ Writes(u, m)))
=============================================================================
