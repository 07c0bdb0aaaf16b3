---------------------------- MODULE ControlLoop ----------------------------
(***************************************************************************)
(* One room of device-service at run time: telemetry arrives and is kept   *)
(* in the sliding window of LatestReadings, the cache entry is replaced by *)
(* reloads, the ticker fires, and a tick evaluates the entry, publishes    *)
(* its commands one by one (each can fail, or fail and arrive later), and  *)
(* then notes the last active period in the entry it began with.  A        *)
(* room_created that is replayed replaces the control loop while the old   *)
(* one may be in the middle of a tick; the process can crash, which loses  *)
(* everything but the database, and stay down for any time.                *)
(*                                                                         *)
(* The room exists throughout.  The evaluation of a tick, the handling of  *)
(* a message, and a publish with the note of it in ActuatorStates are each *)
(* one step (RoomEntry opens the first two up).                            *)
(***************************************************************************)
EXTENDS Control

CONSTANTS
    Hw,            \* devices
    Values,        \* sensor values
    Configs,       \* configs the room can have
    TickInterval,
    MaxTime,       \* bound: the clock
    MaxReadings,   \* bound: readings of a channel between two starts
    MaxTroubles    \* bound: reloads, replays, crashes and failed publishes together

ASSUME ControlLoopAssumption ==
    /\ IsFiniteSet(Channels) /\ IsFiniteSet(Hw)
    /\ Values \subseteq Int
    /\ \A c \in Configs : c.zone \in Int /\ c.hw \in [Channels -> SUBSET Hw]
    /\ TickInterval \in Nat \ {0}
    /\ MaxTime \in Nat /\ MaxReadings \in Nat /\ MaxTroubles \in Nat

VARIABLES
    now,        \* the clock
    up,         \* is the process running
    loop,       \* the control loops of the room; those before cur are cancelled
    cur,        \* the registered control loop
    run,        \* the tick each loop is in the middle of
    result,     \* what that tick decided
    cfg,        \* config part of the room's cache entry
    pending,    \* entries that reloads have built and not yet stored
    log,        \* readings received since the process started, per channel
    head,       \* LatestReadings of a channel is log[k] from head[k] + 1 on
    states,     \* ActuatorStates
    lap,        \* LastActivePeriod
    dev,        \* the state each actuator was last told
    late,       \* commands whose publish failed and that may yet be delivered
    bridge,     \* history: period of the last finished tick, if nothing interfered
    lastAt,     \* history: when the last reading of each channel arrived
    sent,       \* history: last state of each channel whose publish succeeded
    shaken,     \* history: actuators not told, or told by others, since the last tick
    lastDue,    \* history: the due time of the last finished tick
    troubles    \* reloads, replays, crashes and failed publishes so far

vars == <<now, up, loop, cur, run, result, cfg, pending, log, head, states, lap, dev, late,
          bridge, lastAt, sent, shaken, lastDue, troubles>>

loopVars == <<up, loop, cur, run, result>>
entryVars == <<cfg, pending, lap>>
readingVars == <<log, head, lastAt>>
commandVars == <<states, dev, late, sent, shaken>>
tickVars == <<bridge, lastDue>>

Loops == 0 .. MaxTroubles
Actuators == Channels \X Hw

Reading == [val : Values, ts : Nat]

Window(k) == [i \in head[k] + 1 .. Len(log[k]) |-> log[k][i]]

NoResult == [source |-> "none", period |-> NoPeriod, cmd |-> <<>>]

\* A control loop: its ticker fires at nextTick, and due is the time of the firing in the
\* ticker's channel (0 when it is empty).
Loop == [on : BOOLEAN, nextTick : Nat, due : Nat]
NoLoop == [on |-> FALSE, nextTick |-> 0, due |-> 0]
NewLoop(first) == [on |-> TRUE, nextTick |-> first, due |-> 0]

\* A tick: the firing it is for, whom it still has to tell, and whether the entry it
\* began with has been replaced since.
Run == [busy : BOOLEAN, due : Nat, todo : SUBSET Actuators, stale : BOOLEAN]
NoRun == [busy |-> FALSE, due |-> 0, todo |-> {}, stale |-> FALSE]

TypeOK ==
    /\ now \in Nat /\ up \in BOOLEAN /\ cur \in Loops
    /\ loop \in [Loops -> Loop] /\ run \in [Loops -> Run] /\ DOMAIN result = Loops
    /\ \A l \in Loops :
         /\ loop[l].on => now < loop[l].nextTick /\ loop[l].due < loop[l].nextTick
         /\ \A a \in run[l].todo : result[l].cmd[a[1]] \in BOOLEAN
    /\ cfg \in Configs /\ \A p \in pending : p.cfg \in Configs
    /\ log \in [Channels -> Seq(Reading)]
    /\ head \in [Channels -> Nat]
    /\ \A k \in Channels : head[k] <= Len(log[k])
    /\ states \in [Channels -> BOOLEAN]
    /\ dev \in [Actuators -> BOOLEAN]
    /\ late \subseteq [to : Actuators, on : BOOLEAN]
    /\ lastAt \in [Channels -> Nat]
    /\ shaken \subseteq Actuators /\ lastDue \in Nat
    /\ troubles \in Nat

\* Mutant: the first tick is not counted from the start of the process.
FirstTickAbsolute(t) == {s + TickInterval : s \in 0 .. TickInterval - 1}

\* The first tick of a control loop comes one interval after its stagger.
FirstTick(t) == {t + s + TickInterval : s \in 0 .. TickInterval - 1}

\* Init: the process has just started for the first time.
Init ==
    /\ now = 0 /\ up = TRUE /\ cur = 0
    /\ \E first \in FirstTick(0) :
         loop = [l \in Loops |-> IF l = 0 THEN NewLoop(first) ELSE NoLoop]
    /\ run = [l \in Loops |-> NoRun] /\ result = [l \in Loops |-> NoResult]
    /\ cfg \in Configs /\ pending = {}
    /\ log = [k \in Channels |-> <<>>]
    /\ head = [k \in Channels |-> 0]
    /\ states = [k \in Channels |-> FALSE]
    /\ lap = NoPeriod
    /\ dev = [a \in Actuators |-> FALSE] /\ late = {}
    /\ bridge = NoPeriod /\ lastDue = 0
    /\ lastAt = [k \in Channels |-> 0]
    /\ sent = [k \in Channels |-> FALSE]
    /\ shaken = Actuators
    /\ troubles = 0

Trouble == troubles < MaxTroubles /\ troubles' = troubles + 1

-----------------------------------------------------------------------------
(* The clock and the tickers *)

\* A ticker fires: its channel holds one firing, and a firing that finds it full is
\* dropped.
Fire(lp) == [lp EXCEPT !.due = IF @ = 0 THEN lp.nextTick ELSE @,
                       !.nextTick = @ + TickInterval]

\* Time passes, whatever the loops are doing.
Advance ==
    /\ now < MaxTime
    /\ now' = now + 1
    /\ loop' = [l \in Loops |-> IF loop[l].on /\ loop[l].nextTick = now + 1
                                THEN Fire(loop[l]) ELSE loop[l]]
    /\ UNCHANGED <<up, cur, run, result, entryVars, readingVars, commandVars, tickVars, troubles>>

-----------------------------------------------------------------------------
(* Telemetry *)

\* Mutant: a reading exactly as old as the threshold is dropped.
trimStaleInclusive(rs, from, t, i) ==
    /\ i \in from .. Len(rs)
    /\ \A j \in from + 1 .. i : rs[j].ts <= t - StaleThreshold
    /\ i < Len(rs) => rs[i + 1].ts > t - StaleThreshold

\* The scan of trimStale, from the front of the slice that begins after from,
\* stops after i.
trimStale(rs, from, t, i) ==
    /\ i \in from .. Len(rs)
    /\ \A j \in from + 1 .. i : rs[j].ts < t - StaleThreshold
    /\ i < Len(rs) => rs[i + 1].ts >= t - StaleThreshold

\* A message with readings m, stamped on arrival: append and trim, per reading.
Process(m) ==
    /\ up
    /\ \A k \in DOMAIN m : Len(log[k]) < MaxReadings
    /\ log' = [k \in Channels |-> IF k \in DOMAIN m
                                  THEN Append(log[k], [val |-> m[k], ts |-> now])
                                  ELSE log[k]]
    /\ \E h \in [Channels -> 0 .. MaxReadings] :
         /\ head' = h
         /\ \A k \in Channels : IF k \in DOMAIN m
                                THEN trimStale(log'[k], head[k], now, h[k])
                                ELSE h[k] = head[k]
    /\ lastAt' = [k \in Channels |-> IF k \in DOMAIN m THEN now ELSE lastAt[k]]
    /\ UNCHANGED <<now, loopVars, entryVars, commandVars, tickVars, troubles>>

-----------------------------------------------------------------------------
(* Reloads *)

\* ReloadRoom up to the copy of the runtime fields: the maps are shared with the
\* existing entry, LastActivePeriod is copied as it is now.
ReloadRoom(c) ==
    /\ up /\ Trouble
    /\ pending' = pending \cup {[cfg |-> c, lap |-> lap]}
    /\ UNCHANGED <<now, loopVars, cfg, lap, readingVars, commandVars, tickVars>>

\* ReloadRoom's store.AddRoom: ticks that are running keep the entry they have.  A
\* device that joins the room has not been told anything by the room's ticks.
Install(p) ==
    /\ pending' = pending \ {p}
    /\ cfg' = p.cfg /\ lap' = p.lap
    /\ run' = [l \in Loops |-> [run[l] EXCEPT !.stale = run[l].busy]]
    /\ shaken' = shaken \cup {a \in Actuators : a[2] \in p.cfg.hw[a[1]] \ cfg.hw[a[1]]}
    /\ UNCHANGED <<now, up, loop, cur, result, readingVars, states, dev, late, sent,
                   tickVars, troubles>>

-----------------------------------------------------------------------------
(* The control loop *)

\* tick: fetch the entry and evaluate it as of the time the ticker fired.  A cancelled
\* loop whose channel holds a firing may still take it.
tick(l) ==
    /\ loop[l].on /\ loop[l].due # 0 /\ ~run[l].busy
    /\ loop' = [loop EXCEPT ![l].due = 0]
    /\ run' = [run EXCEPT ![l] =
                 [busy |-> TRUE, due |-> loop[l].due, stale |-> FALSE,
                  todo |-> {a \in Actuators : a[2] \in cfg.hw[a[1]]}]]
    /\ result' = [result EXCEPT ![l] =
                    Evaluate(cfg, [k \in Channels |-> Window(k)], states, lap, loop[l].due)]
    /\ UNCHANGED <<now, up, cur, entryVars, readingVars, commandVars, tickVars, troubles>>

\* Mutant: ActuatorStates is updated whether or not the publish succeeded.
RememberAlways(k, on, ok) == [states EXCEPT ![k] = on]

\* ActuatorStates of the entry (a map every entry shares) after one publish.
Remember(k, on, ok) == IF ok THEN [states EXCEPT ![k] = on] ELSE states

\* One publish of a tick.  When it fails the command is lost, or it is still in flight:
\* after a timeout the client keeps it, and sends it again when it has reconnected.
Publish(l, a) ==
    LET k  == a[1]
        on == result[l].cmd[k]
    IN  /\ a \in run[l].todo
        /\ run' = [run EXCEPT ![l].todo = @ \ {a}]
        /\ \/ /\ dev' = [dev EXCEPT ![a] = on]
              /\ states' = Remember(k, on, TRUE)
              /\ sent' = [sent EXCEPT ![k] = on]
              /\ shaken' = IF l = cur THEN shaken \ {a} ELSE shaken \cup {a}
              /\ UNCHANGED <<late, troubles>>
           \/ /\ Trouble
              /\ states' = Remember(k, on, FALSE)
              /\ late' \in {late, late \cup {[to |-> a, on |-> on]}}
              /\ shaken' = shaken \cup {a}
              /\ UNCHANGED <<dev, sent>>
        /\ UNCHANGED <<now, up, loop, cur, result, entryVars, readingVars, tickVars>>

\* A command whose publish failed is delivered after all.
Deliver(c) ==
    /\ late' = late \ {c}
    /\ dev' = [dev EXCEPT ![c.to] = c.on]
    /\ shaken' = shaken \cup {c.to}
    /\ UNCHANGED <<now, loopVars, entryVars, readingVars, states, sent, tickVars, troubles>>

\* LastActivePeriod of an entry after a tick that decided res.
NotePeriod(res) == IF res.period # NoPeriod THEN res.period ELSE lap

\* The end of a tick: LastActivePeriod is written to the entry the tick began with, and
\* is lost when that entry has been, or is about to be, replaced.
FinishTick(l) ==
    LET alone == ~run[l].stale /\ pending = {} /\ \A j \in Loops \ {cur} : ~loop[j].on
    IN  /\ run[l].busy /\ run[l].todo = {}
        /\ run' = [run EXCEPT ![l] = NoRun]
        /\ result' = [result EXCEPT ![l] = NoResult]
        /\ lap' = IF run[l].stale THEN lap ELSE NotePeriod(result[l])
        /\ IF l = cur
           THEN /\ bridge' = IF alone THEN result[l].period ELSE NoPeriod
                /\ lastDue' = run[l].due
           ELSE UNCHANGED tickVars
        /\ UNCHANGED <<now, up, loop, cur, cfg, pending, readingVars, commandVars, troubles>>

\* startRoom for a room that has a loop already, as a room_created that is replayed
\* does: the old loop is cancelled and the new one's ticker starts afresh.
AddRoom ==
    /\ up /\ cur + 1 \in Loops /\ Trouble
    /\ cur' = cur + 1
    /\ loop' = [loop EXCEPT ![cur + 1] = NewLoop(now + TickInterval)]
    /\ bridge' = NoPeriod
    /\ UNCHANGED <<now, up, run, result, entryVars, readingVars, commandVars, lastDue>>

\* ctx.Done: a cancelled loop that is not in a tick returns.
Exit(l) ==
    /\ l # cur /\ loop[l].on /\ ~run[l].busy
    /\ loop' = [loop EXCEPT ![l] = NoLoop]
    /\ UNCHANGED <<now, up, cur, run, result, entryVars, readingVars, commandVars, tickVars,
                   troubles>>

-----------------------------------------------------------------------------
(* Crash and start *)

\* The process dies, possibly between two publishes of a tick.
Crash ==
    /\ up /\ Trouble
    /\ up' = FALSE
    /\ loop' = [l \in Loops |-> NoLoop]
    /\ run' = [l \in Loops |-> NoRun] /\ result' = [l \in Loops |-> NoResult]
    /\ pending' = {}
    /\ bridge' = NoPeriod
    /\ UNCHANGED <<now, cur, cfg, lap, readingVars, commandVars, lastDue>>

\* The process starts again, any time later: the cache is warmed from the database,
\* runtime fields start empty, the loop starts with some stagger.
Start ==
    /\ ~up /\ up' = TRUE
    /\ cur' = 0
    /\ \E first \in FirstTick(now) :
         loop' = [l \in Loops |-> IF l = 0 THEN NewLoop(first) ELSE NoLoop]
    /\ cfg' \in Configs
    /\ log' = [k \in Channels |-> <<>>]
    /\ head' = [k \in Channels |-> 0]
    /\ states' = [k \in Channels |-> FALSE]
    /\ lap' = NoPeriod
    /\ sent' = [k \in Channels |-> FALSE]
    /\ shaken' = Actuators
    /\ lastDue' = 0
    /\ UNCHANGED <<now, run, result, pending, lastAt, dev, late, bridge, troubles>>

Messages == UNION {[S -> Values] : S \in SUBSET Channels \ {{}}}

Next ==
    \/ Advance
    \/ \E m \in Messages : Process(m)
    \/ \E c \in Configs : ReloadRoom(c)
    \/ \E p \in pending : Install(p)
    \/ \E l \in Loops : \/ tick(l) \/ FinishTick(l) \/ Exit(l)
                         \/ \E a \in run[l].todo : Publish(l, a)
    \/ \E c \in late : Deliver(c)
    \/ AddRoom
    \/ Crash \/ Start

Spec == Init /\ [][Next]_vars

-----------------------------------------------------------------------------
(* Properties *)

\* Ingestion and control agree on what is stale (trimStale, freshAverage): what
\* was trimmed is never fresh again, and the window holds nothing that was stale
\* when the last message arrived.
WindowExact ==
    \A k \in Channels : \A i \in 1 .. Len(log[k]) :
        IF i <= head[k] THEN ~IsFresh(log[k][i], now)
                        ELSE IsFresh(log[k][i], log[k][Len(log[k])].ts)

\* Loss of sensors switches everything off (control.go tells every actuator of the room
\* in every tick): an actuator is on after a finished tick only if a reading of its
\* channel was at most a threshold old when that tick was due.  The exceptions last
\* until the registered loop reaches the actuator again: a publish failed, a command
\* of an earlier tick or of a replaced loop arrived, the device has just joined the
\* room, or the process has just started.  Nothing is said of a process that is down.
SensorLossTurnsOff ==
    up => \A k \in Channels : \A h \in cfg.hw[k] :
        dev[<<k, h>>] => lastDue - lastAt[k] <= StaleThreshold \/ <<k, h>> \in shaken

\* Within the deadband the command is the one this process last sent, and OFF before it
\* sent one (evaluateOrOff, ActuatorStates), also when publishes of earlier ticks
\* failed, an entry was replaced or two loops ran.
DeadbandResends ==
    [][\A l \in Loops, k \in Channels :
         LET res == result'[l]
             es  == resolveEffectiveState(cfg, lap, loop[l].due)
             avg == freshAverage(Window(k), loop[l].due)
         IN  /\ tick(l)
             /\ k \in DOMAIN res.cmd
             /\ es.mode # "OFF" /\ es.targets[k] # NoTarget /\ avg.count > 0
             /\ ~Below(avg, es.targets[k], cfg.deadband[k])
             /\ ~Above(avg, es.targets[k], cfg.deadband[k])
             => res.cmd[k] = sent[k]]_vars

\* The grace minute bridges the end of a period (the only way to cover the last
\* minute of a day): a tick due in the minute its period ends, after a tick the period
\* controlled, is not without control source.  The exception is a tick that a reload
\* overtook or that ran beside a replaced loop: what it noted may be lost.
GraceBridges ==
    [][\A l \in Loops :
         /\ tick(l)
         /\ bridge # NoPeriod
         /\ MinuteOfDay(cfg, loop[l].due) = bridge.end
         /\ DayOfWeek(cfg, loop[l].due) \in bridge.days
         => result'[l].source # "none"]_vars
=============================================================================
