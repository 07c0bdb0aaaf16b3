# Verification of climate-control

TLA+ models of the climate-control system, checked with TLC and proved with TLAPS.
The repository is the reference: every definition is translated from the source
lines that `PROJECT.json` ("map") names.

## 1. The system

Three Go services and a web client share PostgreSQL (`appdb`: users, rooms, desired
states, schedules, devices), TimescaleDB (`metricsdb`: readings, control logs), a Redis
stream (`stream:cache-invalidation`) and an MQTT broker.

    web-client --HTTP--> api-service --SQL--> appdb <--SQL-- device-service --SQL--> metricsdb
                              |                                   ^    |
                              +--XADD--> Redis stream --XREADGROUP+    +--MQTT cmd--> devices
                                                                       <--MQTT telemetry--

### Inventory

| component | state | operations | hard behaviours | what makes it correct |
|---|---|---|---|---|
| api-service `events` | none | one XADD per change, after the commit | lost and reordered events | a change reaches the room's cache entry |
| api-service `room`, `schedule`, `device`, `user` | rows of appdb | CRUD, desired state, periods, activation, assignment | check-then-act without transactions, whole-row `Save`, cascades without events | no overlapping periods, one active schedule per room, capabilities match targets |
| api-service `auth` | refresh tokens in Redis | login, refresh (rotation), logout | concurrent refresh, partial failure | a rotated token is dead for good, and the one in the browser is alive |
| device-service `stream` | consumer group: delivered, pending | ensureGroup, drainPending, readLoop, dispatch, ack | crash between effect and ack, replay | at-least-once, eventual drain |
| device-service `appdb` | none | WarmCache, ReloadRoom, ReloadDevice | several queries without a transaction, concurrent reloads of one room | the entry converges to the rows |
| device-service `cache` | rooms and devices by pointer, one lock each | Room, AddRoom, DeleteRoom, ... | an entry is replaced while others hold its pointer | runtime fields survive reloads |
| device-service `scheduler` | context per room, two goroutines per room | Start, AddRoom, RemoveRoom, tick, refresh | cancellation is asynchronous, a tick in flight | one control loop per existing room |
| device-service `control` | none (pure) | Evaluate | boundaries of minutes, days, thresholds | priority chain, safe failure to OFF, deadband |
| device-service `ingestion` | LatestReadings | Process, trimStale | shares staleness with control | window holds exactly what may count |
| device-service `mqtt`, `metricsdb`, `health`, `config`, `debug`, `connect` | connections | publish, subscribe, batch insert, probes | reconnect | I/O |
| simulator-service `simulator`, `mqtt` | simulated room climate, actuator states with watchdog | telemetry tick, command handler, subscription | watchdog racing a command, a subscription that the broker forgets | actuators fail safe |
| simulator-service `provisioning`, `api`, `main` | none but the rows it creates and the credentials file | run, teardown | a run that stops between two of its calls, people who edit between two runs | a run that returns has established all of the simulation, a teardown leaves nothing |
| web-client | access token, cookie, SWR caches | fetchers with refresh, ProtectedRoute, login, logout | several hooks and tabs refreshing at once, pages left in between | one refresh per page, nobody waits for a refresh that is not in flight |

## 2. Plan

Modules, in the order of what the system's correctness hangs on. Every module EXTENDS no
other module of the project unless it says so.

| # | module | what it models | state |
|---|---|---|---|
| 1 | `CacheSync` | api-service's writes and events, the Redis consumer group, the consumer, the scheduler's contexts and refresh goroutines, crashes | done, proved |
| 2 | `Control`, `ControlLoop` (extends `Control`) | evaluation of a tick, ingestion, reloads, publishes, restarts, on a small calendar | done, proved |
| 3 | `RoomConfig` | concurrent requests of api-service on one room: schedules, periods, devices, desired state | done, proved; four of its properties for requests that do not overlap |
| 4 | `RoomEntry` | the cache entry as a pointer with a lock, replaced while a tick and ingestion use it | done, proved |
| 5 | `DeviceSync` | where device-service believes a device to be: device cache and actuator lists | done, safety proved |
| 6 | `Simulator` | commands, watchdogs and climate of simulator-service | done, safety proved |
| 7 | `Session` | login, refresh with rotation, logout, and the web client's shared refresh | done, proved |
| 8 | `Provisioning` | the simulator's provisioning and teardown over HTTP, partial runs and re-runs | done, proved |
| 9 | `RoomRecord` | abstract: a room's runtime fields as one record | done, `RoomEntry` is proved to implement it |
| 10 | `ClosedLoop` | `ControlLoop` and `Simulator` composed: the commands of one are the inbox of the other | planned |

An abstract specification still worth stating and proving: "an entry of the cache follows the
row of the database" (implemented by `CacheSync` for a controlled room, where the entry is a past
version of the row).

## 3. The modules and the code

**CacheSync.** A room's rows are a version number (`db`), which every write increases; an
entry of the cache is the version it was built from (`store`). A request of api-service
commits and leaves an event in `outbox`; `xadd` sends it at any later time, in any order, or
loses it. `stream`, `group` and `pel` are the Redis stream, the consumer group's position and
its pending list; `readLoop`, `drainPending`, `ensureGroup`, `ack` and the `Dispatch...`
actions are the methods of `Consumer`, with the queries of `ReloadRoom` apart from each other
and from `AddRoom`. A goroutine pair of a room is a context (`gor`); `active` is
`Scheduler.activeRooms`. `Crash` loses all of that and keeps the database and Redis.

**Control** has the pure functions of `control.go`: `resolveEffectiveState` (override,
matching period, grace, none), `freshAverage`, `evaluateOrOff`, `Evaluate`. Averages are kept
as sum and count, so that no division is needed. **ControlLoop** gives them a clock:
`Process` (ingestion with `trimStale`), `ReloadRoom`, `tick`, `Restart`. Its readings, ticks and
reloads are atomic; `RoomEntry` opens exactly that up.

**RoomConfig.** A request is a process with a program counter; every query or write of the
service is a step. `Fail` is any refusal or failing query. `Locked` stands for the row locks of
`Activate`'s transaction, `IndexHolds` for the partial unique index. A time is an hour and
whether it is written with one digit, since the code compares texts (`Rank`).

**RoomEntry.** Entries and maps are pointers; `Preserve` copies the map references of the old
entry to the new one, as `ReloadRoom` does. Threads: two reloaders (refresh and consumer), the
ticker, the ingestor. Lock and unlock of `sync.RWMutex` are actions' conjuncts. **RoomRecord**
is what the cache promises: readings are added and commands noted one by one, until the room is
deleted, and there is no such thing as a reload. `Record` instantiates it with the maps of the
entry in the store, and `IsOneRecord` says that `RoomEntry` implements it.

**DeviceSync.** One device and several rooms: `dbRoom` in the database, `dcache` the
`DeviceCache`, `hw` the membership in each room's `ActuatorHwIDs`. `Route` is what
`Ingestor.Process` does with a message.

**Simulator.** One device with actuators (named by measurement) and the sensors of a room.
`route` is the callback the MQTT client has for the command topic, `h` the callback in
progress; the watchdog's look at `lastCmd` and its `ClearContribution` are separate steps, and
so are the snapshot of `heatInput` and the advance of the room. `ConnectionLost` takes the clean
session with its subscription (`linked`) and the commands on their way; the client reconnects and
nobody subscribes again.

**Session.** One browser: a cookie jar, tabs, and in each tab a loaded page with its access token,
its SWR hooks (`fetch`) and its ProtectedRoute (`view`, `auth` for `isAuthenticated`, `asking` for
a route that waits for `doRefresh`). A request to an auth endpoint is an entry of `calls` with the
step its handler is at; `GetUserID`, `Delete` and `Store` are the three Redis commands of a
refresh, so two tabs with one cookie interleave between them. Tokens are the numbers of the pairs
they were issued in. A reload or a redirect loads a new page: the browser drops the answers for
the old one, and its requests may be cancelled in api-service. `lost` is history: tokens that
ended by TTL, with a failed Redis command after the DEL, or with an answer that reached nobody.

**Provisioning.** `sim` is the simulator process with a cursor (user, room, device, period) for
the nested loops of `Run`; every method of the HTTP client is a step, answered by an operator that
stands for the endpoint (`CreateRoom`, `UpdateDevice`, ...) over the rows `db`. `Answers` adds the
failures: an error before the effect, or after it (a lost answer, the client's timeout). `Stop`
ends the process between any two calls; `Edit` is what the people who log in as an interactive
user do to their rooms, devices and schedules. `Groups` is the resolved configuration.

Coarsenings, each the same in all modules: SQL statements are atomic; a batch of queries is
one step where nothing depends on the state between them, and else separate steps; the queries
of one capability or overlap check are one step; loggings, JSON and the metrics database are
left out. Where two modules model one function, one of them has the steps apart: `ReloadRoom`
is opened up in `CacheSync` (queries against events) and in `RoomEntry` (locks), and atomic in
`ControlLoop`.

## 4. Runs

All bounds are CONSTANTS set in the cfg files. `CHECK_DEADLOCK FALSE` stands where the bounds,
and nothing else, stop the system; the simulator's run checks for deadlock.

| run | bounds | checks |
|---|---|---|
| `cache_sync` | 1 room, 2 contexts, 3 writes, 1 crash, 1 failed call, batches of 2 | acknowledged events were applied; one live pair of goroutines per room; the entry of a controlled room catches up; pending messages are drained |
| `control_loop` | 2-day week of 3 minutes of 2 ticks, 8 ticks, 2 readings, 1 reload, 1 restart, 2 failed publishes, 4 configs in 2 timezones | window of readings exact; sensor loss turns off in bounded time; deadband repeats; grace minute bridges |
| `room_config` | 1 process, 9 requests, 3 devices, 2 periods, 5 period bodies | no overlap; capabilities kept by removals and required by activations; only deletions are silent |
| `activation` | 3 processes, 3 schedules, 6 requests | one active schedule; no period without schedule |
| `room_entry` | 4 entries, 2 reloaders, 2 commands, 1 message | readings and commanded states survive reloads; the cache implements `RoomRecord` |
| `device_sync` | 2 rooms, 2 requests, 1 fault, 1 restart | telemetry routed to the right room; actuator lists converge |
| `simulator` | 2 actuators, 1 sensor, timeout 2 | cut-off within twice the timeout; obeys its own commands only; returns to ambient without device-service or subscription |
| `session` | 2 tabs, 2 hooks (one of each fetcher), 3 requests, 1 page load or fault | a rotated token is dead; the cookie is alive unless a named failure killed it; a page presents a token once; nobody waits for nothing |
| `provisioning` | 2 groups with 3 users, 4 rooms, 5 devices, 1 schedule; 3 processes, 1 fault, 2 edits | a finished run has established everything; only a device moved elsewhere can block one; a teardown is complete |

Why the bounds are enough for the cases the properties are about: a write needs one more write
and one reload around it to become stale, and a replay one crash, so `cache_sync` has three
writes (create, change, delete) and one of each failure; two contexts let a room be started
again while the goroutines of its first start still run (a third would need two restarts of a
room in the life of one refresh). `control_loop` runs past the end of the small week, so every
period begins and ends and the last minute of a day occurs; two readings make an average inside
the band of two values outside it. In `room_config` a period, two devices, an override and their
removal take six requests; nine let any of them be undone and redone. `room_entry` needs one
entry for the warm start, one per reloader and one more. In `device_sync` two moves (or a move
and a deletion) interleave with a lost event and a restart. `simulator` has a device of the
template climate-controller. `session` has the three requests that a race between two tabs and a
third party (a logout, a login, a retry) needs. In `provisioning` the first process can stop or
fail anywhere, people edit twice, a second process meets the result, and a third one what both
left; the groups have every branch of the loops (a second group, two users of a group, two
devices, a desired state, a schedule with two periods, a room with neither). Each property of these runs has a mutant in `PROJECT.json`, a
plausible slip in the mapped code, that TLC catches under the same cfg.

Runs that show a disagreement between the code and what a comment or document says of it:

| run | property | what happens |
|---|---|---|
| `missed_room_created` | `RoomEventuallyControlled` | a room whose `room_created` is lost is never controlled, as the refresh serves rooms with goroutines only |
| `zombie_loop` | `DeletedRoomStopped` | a replayed `room_created` starts goroutines for a deleted room |
| `map_race` | `NoMapRace` | after a reload one map is used under two locks |

## 5. Fairness

`FairSpec` of `CacheSync`: a committed request reaches its XADD (a crash of api-service in
between is a failed XADD); device-service is started again after a crash (`restart: on-failure`
in `docker-compose.yml`); the consumer's loop and every refresh ticker keep running. `DeviceSync` has
the same. `Simulator`: goroutines, tickers and the MQTT callback keep running; nothing is assumed
of device-service, nor that a goroutine gets to its Subscribe. Weak fairness is enough
everywhere: none of these steps is disabled again and again by others. Crashes, faults and
requests have no fairness. `ConfigConverges` and `HwConverges` speak of the time after the
last write, which the bound on writes makes every behaviour reach. `Session` and `Provisioning`
have safety properties only and state no fairness.

## 6. Proofs

The modules `...Proofs` extend their component and hold for every value of the constants that
satisfies the ASSUME of the component; the bounds on writes, time, faults and so on are arbitrary
natural numbers there.

- **CacheSyncProofs**: `TypesHold`, `AckedEventsWereApplied`, `LoopsMatch`. Acknowledgement is
  safe because a handler in progress has either not finished its queries or has applied a version
  at least the event's: `AckInv` adds that, for every step of the dispatch, to the type
  invariant, together with the fact that an event's version is never ahead of the database.
  `LoopInv` adds to `LoopsMatchRegistry` that a registered context is in use and belongs to
  its room.
- **ControlLoopProofs**: `LoopTypesHold`, `WindowIsExact` (readings are in the order of
  arrival, `Chronological`, so trimming the front is trimming by age, `WindowInv`),
  `SensorLossIsSafe` (`OnUntilNextTick`: an actuator that is on was told so at a tick with a
  fresh reading, and the bound is kept up to the next tick; under the hypothesis
  `FixedDevices` that reloads do not change which devices the room has, since a device moved
  elsewhere is told nothing more), `DeadbandHolds` and `GraceHolds` (`Remembers`:
  `ActuatorStates` and `LastActivePeriod` are what this process last sent and used).
- **RoomConfigProofs**: `RoomTypesHold` (`RowsOK`: a period's schedule exists; needs the
  cascade and the foreign key) and `OneActiveHolds` for any number of concurrent requests,
  from the index alone. The other four are false for concurrent requests (their checks and writes
  are apart, section 7), so each theorem names the absence of the race that breaks it.
  `NoOverlapWithoutRace` assumes `OneSaver`, that no two requests are between `buildPeriod`'s
  check and its write at once, and lets everything else overlap: `SavesChecked` says that the
  period a request is about to write still crosses no other. `SerialRequestsAnnounce`,
  `SerialRemovalsAreSafe` and `SerialActivationsAreCapable` assume `Serial`, one request of the
  room at a time: what a request has read is then still in the rows when it writes (`Reads`), and
  whatever was written is announced, about to be, or a deletion (`Announced`). The run
  `room_config` has one process, so all its behaviours satisfy both hypotheses.
- **DeviceSyncProofs**: `DeviceTypesHold` and `RoutedWhenQuietHolds`, for any interleaving of
  moves, deletions, refreshes, restarts and faults. `Routed` is what quiet states inherit it from:
  as long as nothing was lost and no reload missed, either a device event is still to be sent or
  to be begun, or what device-service will believe after the event in progress (`Believed`)
  matches the row.
- **RoomEntryProofs**: `EntryTypesHold`, `RuntimeMapsSurvive` and `EntryImplementsRecord`.
  `EntryInv` is TypeOK, `Fetched` (a thread past its fetch has an entry) and `Sharing`: all
  entries in use share the maps of the first one, which is why a write to a replaced entry is
  not lost. The refinement rests on the same invariant: `Preserve` and `AddRoom` leave the maps
  of the entry in the store alone, so they are stuttering steps of `RoomRecord`, and
  `AppendReading` and `SetState` are steps of it through whichever entry they were taken.
- **SessionProofs**: `SessionTypesHold`, `JarAliveHolds`, `RotatedIsDeadHolds`,
  `OncePerPageHolds`, from one invariant, `TokenInv`: pairs are numbered in the order the server
  issues them (`Bounded`); a pair on its way to the browser is alive or expired and has been
  presented by nobody (`Fresh`), without which the rest is not inductive; the cookie is alive, has
  expired, was lost with an answer that never came, or is consumed by a request whose answer will
  replace or clear it (`Jar`); a used token is deleted (`Rotated`); the refreshes of a page
  follow each other (`Single`), and what one has rotated has left the jar (`Replaced`).
  `NobodyStrandedHolds` is independent of the tokens: a hook or a route waits only on its
  page's own call, and that call is in flight.
- **ProvisioningProofs**: `ProvisioningTypesHold`, `TeardownCompletes`, `RunEstablishesHolds`,
  `OnlyMovedDevicesBlockHolds`, for any groups, processes and edits. The steps of Run, Teardown
  and the people's edits fall into a few classes of database steps, each shown to keep what the
  database enforces (`DbOK`: unique ids and names, references that exist); `Base` adds what the
  process's variables hold at each line. `TornSoFar` and `Progress` say what the loops have
  removed or established up to the current group, user, room, device or period, for the users
  nobody has edited meanwhile; `Grows` says what a step of one user's provisioning leaves to
  the rest. `Smooth` adds the converse for an undisturbed database: what the lists the process
  fetched do not contain does not exist, so nothing is created twice, and a conflict can only come
  from a device in another room. That theorem needs `Equipped`: a room with a desired state has
  a device for it. `validateSimulation` (`config.go:750`) does not check this, and without it the
  property is false (TLC has a counterexample; section 7). The expansion of templates to devices
  is a recursive function, and its types are proved by its least counterexample (a minimal
  element of a set of naturals), since the library's induction theorems take an operator.
- **SimulatorProofs**: `SimulatorTypesHold`, `SilenceCutsOff` (`Guarded`: age of the last
  command plus time to the next watchdog tick stays below twice the timeout) and
  `CallbackObeys` (`Obeys`).

Only model-checked: liveness (`ConfigConverges`, `PendingDrained`, `HwConverges`,
`ReturnsToAmbient`), since the prover does not handle fairness. Every other property of the
passing runs is stated by a theorem, under the hypotheses named above where it has any.

## 7. Known disagreements that no run checks

Met while modelling; the models contain the steps that lead to them.

- A refresh that fetched before a write can install its entry after the consumer handled the
  write's event (`appdb/repository.go:266`); until the next refresh the room runs on old config,
  against `consumer.go:2-4`. In the same way it can put the entry of a deleted room back.
- After a restart a room within its deadband is told OFF, and a grace minute is lost: the
  runtime fields are not persisted (`appdb/repository.go:456-473`).
- `LastActivePeriod` is never cleared: when a schedule is removed, the minute its last period
  would end on a later day is still a grace minute (`control.go:106`). A tick writes it to the
  entry it fetched, so a reload in between loses it (`scheduler.go:195`).
- A rename of a schedule saves the whole row (`schedule/repository.go:64`): a concurrent
  activation, deactivation or deletion is undone, against its comment "(name only)".
- Validation accepts hours of one digit and times are compared as text
  (`schedule/service.go:264`), so 10:00 to 9:00 is accepted; `NoOverlap` speaks of two-digit
  hours only.
- The capability checks of a removal and of a new target do not see each other when they run
  concurrently (`device/service.go:117`).
- Deletions of schedules and devices send no event; a deleted device keeps its `DeviceCache`, and
  the devices of a deleted room stay routed to it (`consumer.go:246`, `device/service.go:159`). A
  lost device event is never repaired for the `DeviceCache` (`scheduler.go:234`).
- `buildPeriod` checks for overlap and the write follows later without a transaction or a
  constraint (`schedule/service.go:268`): two concurrent requests both pass, and `NoOverlap`
  fails with two processes.
- The simulator's watchdog cuts off after up to twice the timeout, not after the timeout
  (`docs/architecture/simulator.md:155-156`), can clear a contribution just set
  (`simulator.go:200`), and is missing when Subscribe timed out (`simulator.go:183`). Every
  device with sensors advances its room, so two of them double the simulated time.
- The actuators of one device subscribe to one topic (`simulator.go:159`), and the MQTT client
  keeps the last callback only: of a climate-controller one actuator is served, against
  `docs/architecture/simulator.md:148-150`.
- Neither MQTT client subscribes again after a reconnect (`mqtt/client.go:33` of device-service,
  `:25` of the simulator): telemetry and commands stop until a restart.
- A logout deletes the token it presents (`auth/service.go:72`). A refresh in progress, of
  another tab or a hook, that has already read the user stores a new one afterwards, so the
  session goes on, against `docs/architecture/client.md:46-47`.
- Re-running provisioning is not always safe (`docs/architecture/simulator.md:18`): after
  somebody has renamed a room, its devices must move to the room created anew, the capability
  check of the old one refuses (409), and the run fails for good (`provisioning.go:239`). A period
  of somebody's own counts as the configured one that it overlaps (`provisioning.go:256-258`).
- Any error of the first login leads to a registration (`provisioning.go:66`), not only a 401
  (lines 2-3), and teardown takes any login error for a user that is not there
  (`provisioning.go:141`).
- A goal of the simulation for which its room has no device makes every run fail there
  (`room/handler.go:226`), as the configuration's validation does not compare them (`config.go:750`).
- Every interactive group writes the same credentials file (`provisioning.go:410`): only the last
  one's users are in it.

## 8. Not modelled

Device-service's shutdown (`wg.Add` of a room started by the consumer against `sched.Wait`) and
the composition of control loop and simulator are planned. Left out for good: the read-only
metrics queries, handlers' decoding and formatting, the resolution of the simulator's YAML
templates (floating-point scales, whose result is a constant of `Provisioning` and `Simulator`),
health probes, debug output and connection set-up, the pages and forms of the web client,
TimescaleDB, the blacklist of hardware ids. `PROJECT.json` lists every component with its status.
