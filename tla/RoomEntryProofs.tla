-------------------------- MODULE RoomEntryProofs --------------------------
(***************************************************************************)
(* Proofs about RoomEntry, for any number of reloading goroutines, entries, *)
(* ticks and messages.                                                     *)
(***************************************************************************)
EXTENDS RoomEntry, TLAPS

\* A thread past its fetch has an entry, a reloader past its queries a new one.
Fetched ==
    /\ \A t \in Threads : pc[t] \notin {"idle", "existing", "add"} => rc[t] \in Ptrs
    /\ \A t \in Reloaders : pc[t] \in {"existing", "rlock", "preserve", "add"} => new[t] \in Ptrs
    /\ \A t \in Reloaders : pc[t] \in {"idle", "existing", "rlock", "preserve", "add"}
    /\ pc[Ticker] \notin {"existing", "preserve", "add", "append"}
    /\ pc[Ingestor] \in {"idle", "lock", "append"}

\* Reloads hand the maps of the warm start on from entry to entry.
Shares(p) == entry[p].readings = First /\ entry[p].states = First

\* As long as the room exists, so do all entries in use: the one in the store, the
\* ones threads have fetched and the ones about to be stored.
Sharing ==
    exists =>
        /\ store \in Ptrs /\ Shares(store)
        /\ \A t \in Threads : pc[t] \notin {"idle", "existing", "add"} => Shares(rc[t])
        /\ \A t \in Reloaders : pc[t] = "add" => Shares(new[t])
        /\ 1 .. got \subseteq readings[First]
        /\ pc[Ticker] \notin {"lock", "setstate"} => states[First] = sent

\* The inductive invariant behind MapsSurvive.
EntryInv == TypeOK /\ Fetched /\ Sharing

LEMMA InitEntry == Init => EntryInv
<1> SUFFICES ASSUME Init PROVE EntryInv
  OBVIOUS
<1>1. TypeOK
  <2>1. entry \in [Ptrs -> [readings : Ptrs, states : Ptrs, period : Nat]]
    BY DEF Init
  <2> QED
    BY <2>1, RoomEntryAssumption DEF Init, TypeOK, Shapes, LocksHeld, Labels
<1>2. Fetched
  BY RoomEntryAssumption DEF Init, Fetched, Threads
<1>3. Sharing
  <2>1. Shares(First) /\ readings[First] = {} /\ states[First] = 0
    BY RoomEntryAssumption DEF Init, Shares
  <2>2. \A n \in 1 .. 0 : FALSE
    OBVIOUS
  <2> QED
    BY <2>1, <2>2, RoomEntryAssumption DEF Init, Sharing, Threads
<1> QED
  BY <1>1, <1>2, <1>3 DEF EntryInv

LEMMA ReloadTypes ==
    ASSUME Shapes, Fetched, NEW t \in Reloaders, Reload(t)
    PROVE  Shapes' /\ Fetched'
<1> USE RoomEntryAssumption DEF Shapes, Fetched, Threads, Labels, Goto, maps, locks, hist
<1>1. CASE Fetch(t)
  <2>1. Shapes'
    BY <1>1 DEF Fetch
  <2>2. Fetched'
    BY <1>1 DEF Fetch
  <2> QED
    BY <2>1, <2>2
<1>2. CASE Existing(t)
  BY <1>2 DEF Existing
<1>3. CASE ReloadRLock(t)
  <2>1. Shapes'
    <3>1. readers' = [readers EXCEPT ![rc[t]] = @ \cup {t}] /\ writer' = writer /\ writer[rc[t]] = None
      BY <1>3 DEF ReloadRLock, RLock
    <3>2. readers' \in [Ptrs -> SUBSET Threads]
      BY <3>1
    <3>3. \A p \in Ptrs : writer'[p] # None => readers'[p] = {}
      BY <3>1
    <3> QED
      BY <1>3, <3>1, <3>2, <3>3 DEF ReloadRLock
  <2>2. Fetched'
    BY <1>3 DEF ReloadRLock, RLock
  <2> QED
    BY <2>1, <2>2
<1>4. CASE Preserve(t)
  BY <1>4 DEF Preserve, RUnlock
<1>5. CASE AddRoom(t)
  BY <1>5 DEF AddRoom
<1> QED
  BY <1>1, <1>2, <1>3, <1>4, <1>5 DEF Reload

LEMMA TickTypes == ASSUME Shapes, Fetched, Tick PROVE Shapes' /\ Fetched'
<1> USE RoomEntryAssumption DEF Shapes, Fetched, Threads, Labels, Goto, maps, locks, hist
<1>1. CASE TickFetch
  BY <1>1 DEF TickFetch, FetchEntry
<1>2. CASE TickRLock
  BY <1>2 DEF TickRLock, RLock
<1>3. CASE Evaluate
  BY <1>3 DEF Evaluate, RUnlock
<1>4. ASSUME NEW ok \in BOOLEAN, Publish(ok) PROVE Shapes' /\ Fetched'
  BY <1>4 DEF Publish
<1>5. CASE TickLock
  <2>1. Shapes'
    BY <1>5 DEF TickLock, Lock
  <2>2. Fetched'
    BY <1>5 DEF TickLock, Lock
  <2> QED
    BY <2>1, <2>2
<1>6. CASE SetState
  BY <1>6 DEF SetState, Unlock
<1>7. CASE SetLastActivePeriod
  <2>1. PICK n \in Nat : /\ period' = n
                         /\ \/ entry' = [entry EXCEPT ![rc[Ticker]].period = n]
                            \/ UNCHANGED entry
    BY <1>7 DEF SetLastActivePeriod
  <2>2. entry' \in [Ptrs -> [readings : Ptrs, states : Ptrs, period : Nat]]
    BY <2>1, <1>7 DEF SetLastActivePeriod
  <2> QED
    BY <1>7, <2>1, <2>2 DEF SetLastActivePeriod, Unlock
<1> QED
  BY <1>1, <1>2, <1>3, <1>4, <1>5, <1>6, <1>7 DEF Tick

LEMMA ProcessTypes == ASSUME Shapes, Fetched, Process PROVE Shapes' /\ Fetched'
<1> USE RoomEntryAssumption DEF Shapes, Fetched, Threads, Labels, Goto, maps, locks, hist
<1>1. CASE IngestFetch
  BY <1>1 DEF IngestFetch, FetchEntry
<1>2. CASE IngestLock
  BY <1>2 DEF IngestLock, Lock
<1>3. CASE AppendReading
  BY <1>3, SMTT(40) DEF AppendReading, Unlock
<1> QED
  BY <1>1, <1>2, <1>3 DEF Process

LEMMA NextShapes == ASSUME Shapes, Fetched, [Next]_vars PROVE Shapes' /\ Fetched'
<1>1. CASE DeleteRow \/ DeleteRoom
  BY <1>1 DEF DeleteRow, DeleteRoom, Shapes, Fetched, maps, locks, hist
<1>2. CASE UNCHANGED vars
  BY <1>2 DEF vars, Shapes, Fetched
<1> QED
  BY <1>1, <1>2, ReloadTypes, TickTypes, ProcessTypes DEF Next

\* A lock is taken on the way into a section and released on the way out, and in between
\* the thread keeps the entry it fetched.
LEMMA NextLocks == ASSUME TypeOK, Fetched, [Next]_vars PROVE LocksHeld'
<1> USE RoomEntryAssumption DEF TypeOK, Shapes, LocksHeld, Fetched, Goto, maps, locks, hist
<1>1. ASSUME NEW t \in Reloaders, Reload(t) PROVE LocksHeld'
  <2>1. CASE Fetch(t)
    BY <1>1, <2>1 DEF Fetch, Threads
  <2>2. CASE Existing(t)
    BY <1>1, <2>2 DEF Existing, Threads
  <2>3. CASE ReloadRLock(t)
    BY <1>1, <2>3 DEF ReloadRLock, RLock, Threads
  <2>4. CASE Preserve(t)
    BY <1>1, <2>4 DEF Preserve, RUnlock, Threads
  <2>5. CASE AddRoom(t)
    BY <1>1, <2>5 DEF AddRoom, Threads
  <2> QED
    BY <1>1, <2>1, <2>2, <2>3, <2>4, <2>5 DEF Reload
<1>2. CASE Tick
  <2>1. CASE TickFetch
    BY <2>1 DEF TickFetch, FetchEntry, Threads
  <2>2. CASE TickRLock
    BY <2>2 DEF TickRLock, RLock, Threads
  <2>3. CASE Evaluate
    BY <2>3 DEF Evaluate, RUnlock, Threads
  <2>4. ASSUME NEW ok \in BOOLEAN, Publish(ok) PROVE LocksHeld'
    BY <2>4, SMTT(40) DEF Publish, Threads
  <2>5. CASE TickLock
    BY <2>5 DEF TickLock, Lock, Threads
  <2>6. CASE SetState
    BY <2>6 DEF SetState, Unlock, Threads
  <2>7. CASE SetLastActivePeriod
    BY <2>7 DEF SetLastActivePeriod, Unlock, Threads
  <2> QED
    BY <1>2, <2>1, <2>2, <2>3, <2>4, <2>5, <2>6, <2>7 DEF Tick
<1>3. CASE Process
  <2>1. CASE IngestFetch
    BY <2>1 DEF IngestFetch, FetchEntry, Threads
  <2>2. CASE IngestLock
    BY <2>2 DEF IngestLock, Lock, Threads
  <2>3. CASE AppendReading
    BY <2>3 DEF AppendReading, Unlock, Threads
  <2> QED
    BY <1>3, <2>1, <2>2, <2>3 DEF Process
<1>4. CASE DeleteRow \/ DeleteRoom
  BY <1>4 DEF DeleteRow, DeleteRoom
<1>5. CASE UNCHANGED vars
  BY <1>5 DEF vars
<1> QED
  BY <1>1, <1>2, <1>3, <1>4, <1>5 DEF Next

LEMMA NextTypes == TypeOK /\ Fetched /\ [Next]_vars => TypeOK' /\ Fetched'
BY NextShapes, NextLocks DEF TypeOK

\* The cache entry's pointers and its reader-writer lock stay sound for any number of
\* goroutines (RoomCache.Mu as tick, Process and ReloadRoom use it).
THEOREM EntryTypesHold == Spec => []TypeOK
<1>1. Init => TypeOK /\ Fetched
  BY InitEntry DEF EntryInv
<1>2. TypeOK /\ Fetched /\ [Next]_vars => TypeOK' /\ Fetched'
  BY NextTypes
<1> QED
  BY <1>1, <1>2, PTL DEF Spec

-----------------------------------------------------------------------------
(* What is written to a replaced entry is not lost. *)

LEMMA ReloadSharing == ASSUME EntryInv, NEW t \in Reloaders, Reload(t) PROVE Sharing'
<1> USE RoomEntryAssumption DEF EntryInv, TypeOK, Shapes, Fetched, Sharing, Shares, Threads, Goto, maps, locks, hist
<1>1. CASE Fetch(t)
  BY <1>1 DEF Fetch
<1>2. CASE Existing(t)
  BY <1>2 DEF Existing
<1>3. CASE ReloadRLock(t)
  BY <1>3 DEF ReloadRLock, RLock
<1>4. CASE Preserve(t)
  <2>1. \A p \in Ptrs : exists /\ (p = new[t] \/ Shares(p)) => Shares(p)'
    BY <1>4 DEF Preserve
  <2> QED
    BY <1>4, <2>1 DEF Preserve, RUnlock
<1>5. CASE AddRoom(t)
  BY <1>5 DEF AddRoom
<1> QED
  BY <1>1, <1>2, <1>3, <1>4, <1>5 DEF Reload

LEMMA TickSharing == ASSUME EntryInv, Tick PROVE Sharing'
<1> USE RoomEntryAssumption DEF EntryInv, TypeOK, Shapes, Fetched, Sharing, Shares, Threads, Goto, maps, locks, hist
<1>1. CASE TickFetch
  BY <1>1 DEF TickFetch, FetchEntry
<1>2. CASE TickRLock
  BY <1>2 DEF TickRLock, RLock
<1>3. CASE Evaluate
  BY <1>3 DEF Evaluate, RUnlock
<1>4. ASSUME NEW ok \in BOOLEAN, Publish(ok) PROVE Sharing'
  BY <1>4 DEF Publish
<1>5. CASE TickLock
  BY <1>5 DEF TickLock, Lock
<1>6. CASE SetState
  BY <1>6 DEF SetState, Unlock
<1>7. CASE SetLastActivePeriod
  <2>1. \A p \in Ptrs : Shares(p) => Shares(p)'
    BY <1>7 DEF SetLastActivePeriod
  <2> QED
    BY <1>7, <2>1 DEF SetLastActivePeriod, Unlock
<1> QED
  BY <1>1, <1>2, <1>3, <1>4, <1>5, <1>6, <1>7 DEF Tick

LEMMA ProcessSharing == ASSUME EntryInv, Process PROVE Sharing'
<1> USE RoomEntryAssumption DEF EntryInv, TypeOK, Shapes, Fetched, Sharing, Shares, Threads, Goto, maps, locks, hist
<1>1. CASE IngestFetch
  BY <1>1 DEF IngestFetch, FetchEntry
<1>2. CASE IngestLock
  BY <1>2 DEF IngestLock, Lock
<1>3. CASE AppendReading
  <2>1. exists => 1 .. got' \subseteq readings'[First]
    <3> SUFFICES ASSUME exists, NEW n \in 1 .. got + 1 PROVE n \in readings'[First]
      BY <1>3 DEF AppendReading
    <3>1. rc[Ingestor] \in Ptrs /\ entry[rc[Ingestor]].readings = First
      BY <1>3 DEF AppendReading
    <3>2. readings'[First] = readings[First] \cup {got + 1}
      BY <1>3, <3>1 DEF AppendReading
    <3>3. n \in 1 .. got \/ n = got + 1
      OBVIOUS
    <3> QED
      BY <3>2, <3>3
  <2> QED
    BY <1>3, <2>1 DEF AppendReading, Unlock
<1> QED
  BY <1>1, <1>2, <1>3 DEF Process

LEMMA EntryInvStep == ASSUME EntryInv, [Next]_vars PROVE EntryInv'
<1>1. TypeOK' /\ Fetched'
  BY NextTypes DEF EntryInv
<1>2. CASE DeleteRow \/ DeleteRoom
  BY <1>2, <1>1 DEF DeleteRow, DeleteRoom, EntryInv, Sharing, maps, locks, hist
<1>3. CASE UNCHANGED vars
  BY <1>3, <1>1 DEF vars, EntryInv, Sharing, Shares
<1> QED
  BY <1>1, <1>2, <1>3, ReloadSharing, TickSharing, ProcessSharing DEF Next, EntryInv

\* Readings and commanded states survive reloads, also those written to an entry that
\* was already replaced, for any number of concurrent reloads (ReloadRoom hands the
\* maps on by reference).
THEOREM RuntimeMapsSurvive == Spec => []MapsSurvive
<1>1. EntryInv /\ [Next]_vars => EntryInv'
  BY EntryInvStep
<1>2. EntryInv => MapsSurvive
  BY DEF EntryInv, Sharing, Shares, MapsSurvive
<1> QED
  BY <1>1, <1>2, InitEntry, PTL DEF Spec

-----------------------------------------------------------------------------
(* The cache implements one record per room. *)

\* A command that was published and not noted yet is the next one.
Behind == exists /\ pc[Ticker] \in {"lock", "setstate"} => sent = states[First] + 1

\* The record as the refinement mapping computes it.
SeenReadings == IF exists THEN readings[entry[store].readings] ELSE {}
SeenCommand == IF exists THEN states[entry[store].states] ELSE 0

LEMMA Seen ==
    ASSUME EntryInv
    PROVE  /\ SeenReadings = IF exists THEN readings[First] ELSE {}
           /\ SeenCommand = IF exists THEN states[First] ELSE 0
BY DEF EntryInv, Sharing, Shares, SeenReadings, SeenCommand

LEMMA SeenNext ==
    ASSUME EntryInv'
    PROVE  /\ SeenReadings' = IF exists' THEN readings'[First] ELSE {}
           /\ SeenCommand' = IF exists' THEN states'[First] ELSE 0
BY DEF EntryInv, Sharing, Shares, SeenReadings, SeenCommand

LEMMA BehindStep == ASSUME EntryInv, Behind, [Next]_vars PROVE Behind'
<1> USE RoomEntryAssumption DEF Behind, EntryInv, TypeOK, Shapes, Threads, Goto, maps, locks, hist
<1>1. CASE DeleteRow \/ DeleteRoom
  BY <1>1 DEF DeleteRow, DeleteRoom
<1>2. ASSUME NEW t \in Reloaders, Reload(t) PROVE Behind'
  BY <1>2 DEF Reload, Fetch, Existing, ReloadRLock, Preserve, AddRoom
<1>3. CASE Tick
  <2>1. ASSUME NEW ok \in BOOLEAN, Publish(ok) PROVE Behind'
    BY <2>1 DEF Publish, Sharing
  <2>2. CASE SetState
    BY <2>2 DEF SetState
  <2>3. CASE TickLock
    BY <2>3 DEF TickLock
  <2> QED
    BY <1>3, <2>1, <2>2, <2>3 DEF Tick, TickFetch, FetchEntry, TickRLock, Evaluate, SetLastActivePeriod
<1>4. CASE Process
  BY <1>4 DEF Process, IngestFetch, FetchEntry, IngestLock, AppendReading
<1>5. CASE UNCHANGED vars
  BY <1>5 DEF vars
<1> QED
  BY <1>1, <1>2, <1>3, <1>4, <1>5 DEF Next

\* Every step of the goroutines is a step of the record or leaves it as it is.
LEMMA RecordStep ==
    ASSUME EntryInv, Behind, EntryInv', [Next]_vars
    PROVE  [Record!Next]_(Record!record)
<1> DEFINE Same == UNCHANGED <<exists, SeenReadings, SeenCommand>>
<1>1. Same => [Record!Next]_(Record!record)
  BY DEF Record!record, SeenReadings, SeenCommand
<1>2. UNCHANGED <<exists, readings, states>> => Same
  BY Seen, SeenNext
<1>3. CASE DeleteRow
  <2>1. exists /\ ~exists' /\ SeenReadings' = {} /\ SeenCommand' = 0
    BY <1>3 DEF DeleteRow, SeenReadings, SeenCommand
  <2> QED
    BY <2>1 DEF Record!Next, Record!Delete, SeenReadings, SeenCommand, EntryInv, TypeOK, Shapes
<1>4. CASE SetState
  <2>1. CASE exists
    <3>1. entry[rc[Ticker]].states = First /\ sent = states[First] + 1
      BY <1>4, <2>1 DEF SetState, Behind, EntryInv, Sharing, Shares, Threads
    <3>2. states'[First] = states[First] + 1 /\ readings' = readings /\ exists' = exists
      BY <1>4, <3>1, RoomEntryAssumption DEF SetState, EntryInv, TypeOK, Shapes
    <3>3. SeenCommand' = SeenCommand + 1 /\ SeenReadings' = SeenReadings
      BY <2>1, <3>2, Seen, SeenNext
    <3> QED
      BY <2>1, <3>2, <3>3 DEF Record!Next, Record!Command, SeenReadings, SeenCommand
  <2>2. CASE ~exists
    BY <1>1, <1>4, <2>2 DEF SetState, SeenReadings, SeenCommand
  <2> QED
    BY <2>1, <2>2
<1>5. CASE AppendReading
  <2>1. CASE exists
    <3>1. entry[rc[Ingestor]].readings = First
      BY <1>5, <2>1 DEF AppendReading, EntryInv, Sharing, Shares, Threads
    <3>2. readings'[First] = readings[First] \cup {got + 1} /\ states' = states /\ exists' = exists
      BY <1>5, <3>1, RoomEntryAssumption DEF AppendReading, EntryInv, TypeOK, Shapes
    <3>3. SeenReadings' = SeenReadings \cup {got + 1} /\ SeenCommand' = SeenCommand
      BY <2>1, <3>2, Seen, SeenNext
    <3>4. got + 1 \in SeenReadings'
      BY <3>3
    <3> QED
      BY <2>1, <3>2, <3>3, <3>4 DEF Record!Next, Record!Ingest, SeenReadings, SeenCommand
  <2>2. CASE ~exists
    BY <1>1, <1>5, <2>2 DEF AppendReading, SeenReadings, SeenCommand
  <2> QED
    BY <2>1, <2>2
<1>6. CASE DeleteRoom
  BY <1>1, <1>2, <1>6 DEF DeleteRoom, maps
<1>7. ASSUME NEW t \in Reloaders, Reload(t) PROVE UNCHANGED <<exists, readings, states>>
  BY <1>7 DEF Reload, Fetch, Existing, ReloadRLock, Preserve, AddRoom, maps
<1>8. ASSUME Tick, ~SetState PROVE UNCHANGED <<exists, readings, states>>
  BY <1>8 DEF Tick, TickFetch, TickRLock, Evaluate, Publish, TickLock, SetLastActivePeriod, maps
<1>9. ASSUME Process, ~AppendReading PROVE UNCHANGED <<exists, readings, states>>
  BY <1>9 DEF Process, IngestFetch, IngestLock, maps
<1>10. CASE UNCHANGED vars
  BY <1>1, <1>2, <1>10 DEF vars
<1> QED
  BY <1>1, <1>2, <1>3, <1>4, <1>5, <1>6, <1>7, <1>8, <1>9, <1>10 DEF Next

\* The cache of device-service, for any number of goroutines that reload the room,
\* implements RoomRecord: reloads are invisible and no write is lost.
THEOREM EntryImplementsRecord == Spec => IsOneRecord
<1>1. Init => EntryInv /\ Behind
  BY InitEntry DEF Init, Behind, Threads
<1>2. Init => Record!Init
  <2> SUFFICES ASSUME Init PROVE Record!Init
    OBVIOUS
  <2>1. SeenReadings = {} /\ SeenCommand = 0 /\ exists = TRUE
    BY RoomEntryAssumption DEF Init, SeenReadings, SeenCommand
  <2> QED
    BY <2>1 DEF Record!Init, SeenReadings, SeenCommand
<1>3. EntryInv /\ Behind /\ [Next]_vars => EntryInv' /\ Behind'
  BY EntryInvStep, BehindStep
<1>4. EntryInv /\ Behind /\ EntryInv' /\ [Next]_vars => [Record!Next]_(Record!record)
  BY RecordStep
<1> QED
  BY <1>1, <1>2, <1>3, <1>4, PTL DEF Spec, IsOneRecord, Record!Spec
=============================================================================
