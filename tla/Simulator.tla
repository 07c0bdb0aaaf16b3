----------------------------- MODULE Simulator -----------------------------
(***************************************************************************)
(* simulator-service: one room with a device whose actuators obey MQTT     *)
(* commands, a watchdog per actuator, and devices with sensors that        *)
(* advance the room's climate.                                             *)
(*                                                                         *)
(* An actuator is named by its measurement type.  Time passes in units of  *)
(* the publish interval and only when nobody has work left: handlers,      *)
(* watchdogs and sensor ticks take less than a unit.  A SUBSCRIBE can wait *)
(* for its answer longer.  Ages stop growing at Long.  A room is not noisy *)
(* here.                                                                   *)
(***************************************************************************)
EXTENDS Integers, Sequences

CONSTANTS
    Acts,      \* actuators of the device (measurement types)
    Sensors,   \* devices of the room that have sensors
    None,
    Timeout,   \* watchdogTimeout, three ticks of device-service
    Patience,  \* how long Subscribe waits for its token (10 s)
    Ambient, Rate, Conductance, Mass, Lo, Hi,   \* MeasurementConfig, MeasurementBounds
    MaxInbox   \* bound on commands on their way

ASSUME SimulatorAssumption ==
    /\ None \notin Acts /\ Timeout \in Nat \ {0} /\ MaxInbox \in Nat
    /\ Patience \in 0 .. Timeout - 1
    /\ {Ambient, Rate, Conductance, Lo, Hi} \subseteq Int
    /\ Mass \in Nat \ {0} /\ Lo <= Ambient /\ Ambient <= Hi

VARIABLES
    alive,    \* device-service runs
    inbox,    \* commands published to devices/{hw_id}/cmd
    sub,      \* how far each actuator's goroutine is with its Subscribe: "new", "asked",
              \* "acked", "up", "late" (gave up before the broker's answer) or "failed"
    route,    \* the actuator whose callback paho calls for the topic
    linked,   \* the broker has a subscription of the client's session
    h,        \* the callback in progress
    on,       \* contributions: the actuators that heat
    age,      \* time since lastCmd of each actuator
    phase,    \* time to the next tick of each watchdog, or to the end of the wait
    clearing, \* watchdogs that found the timeout exceeded
    due,      \* sensors whose ticker fired
    snap,     \* heatInput as snapshotted by each sensor goroutine
    cur,      \* Current
    said      \* history: state of the last command for the type of route's callback

vars == <<alive, inbox, sub, route, linked, h, on, age, phase, clearing,
          due, snap, cur, said>>

topicVars == <<alive, inbox, sub, route, linked>>
watchdogVars == <<age, phase, clearing>>
roomVars == <<due, snap, cur>>

Long == 2 * Timeout
Older(n) == IF n < Long THEN n + 1 ELSE n
\* Goroutines that wait for their token, those that have a watchdog, and those that ended.
waiting == {a \in Acts : sub[a] \in {"asked", "acked"}}
started == {a \in Acts : sub[a] = "up"}
failed  == {a \in Acts : sub[a] \in {"late", "failed"}}

Idle == [pc |-> "idle", act |-> None, state |-> FALSE]

Init ==
    /\ alive = TRUE
    /\ inbox = <<>>
    /\ sub = [a \in Acts |-> "new"] /\ route = None /\ linked = FALSE
    /\ h = Idle
    /\ on = {}
    /\ age = [a \in Acts |-> 0]
    /\ phase = [a \in Acts |-> Timeout]
    /\ clearing = {}
    /\ due = Sensors
    /\ snap = [s \in Sensors |-> None]
    /\ cur = [a \in Acts |-> Ambient]
    /\ said = FALSE

-----------------------------------------------------------------------------
(* device-service and the broker *)

\* A tick publishes a command; without a subscription it goes nowhere.
Publish(a, st) ==
    /\ alive /\ linked /\ Len(inbox) < MaxInbox
    /\ inbox' = Append(inbox, [act |-> a, state |-> st])
    /\ UNCHANGED <<alive, sub, route, linked, h, on, watchdogVars, roomVars, said>>

DeviceServiceStops ==
    /\ alive /\ alive' = FALSE
    /\ UNCHANGED <<inbox, sub, route, linked, h, on, watchdogVars, roomVars, said>>

DeviceServiceStarts ==
    /\ ~alive /\ alive' = TRUE
    /\ UNCHANGED <<inbox, sub, route, linked, h, on, watchdogVars, roomVars, said>>

\* A SUBSCRIBE on its way to the broker, or the answer to it.
Asking(a) == sub[a] \in {"asked", "late"}

\* The connection to the broker is lost, and with it the clean session: its
\* subscription and what was on its way.  The client reconnects, and the handler for
\* lost connections does nothing: nobody subscribes again.
ConnectionLost ==
    /\ linked \/ \E a \in Acts : Asking(a)
    /\ linked' = FALSE
    /\ inbox' = <<>>
    /\ sub' = [a \in Acts |-> IF Asking(a) THEN "failed" ELSE sub[a]]
    /\ age' = [a \in Acts |-> IF Asking(a) THEN 0 ELSE age[a]]
    /\ phase' = [a \in Acts |-> IF Asking(a) THEN Timeout ELSE phase[a]]
    /\ UNCHANGED <<alive, route, h, on, clearing, roomVars, said>>

-----------------------------------------------------------------------------
(* runActuator *)

\* lastCmd is now; paho registers the callback and sends SUBSCRIBE.  The goroutines
\* subscribe to one topic, and the client keeps one callback per topic, the last one.
Subscribe(a) ==
    /\ sub[a] = "new"
    /\ sub' = [sub EXCEPT ![a] = "asked"]
    /\ route' = a /\ said' = FALSE
    /\ age' = [age EXCEPT ![a] = 0]
    /\ phase' = [phase EXCEPT ![a] = Patience]
    /\ UNCHANGED <<alive, inbox, linked, h, on, clearing, roomVars>>

\* The broker subscribes the session, whether or not the goroutine still waits.
Suback(a) ==
    /\ Asking(a)
    /\ sub' = [sub EXCEPT ![a] = IF @ = "asked" THEN "acked" ELSE "failed"]
    /\ linked' = TRUE
    /\ UNCHANGED <<alive, inbox, route, h, on, watchdogVars, roomVars, said>>

\* The token is complete: the watchdog's ticker starts.
Subscribed(a) ==
    /\ sub[a] = "acked"
    /\ sub' = [sub EXCEPT ![a] = "up"]
    /\ phase' = [phase EXCEPT ![a] = Timeout]
    /\ UNCHANGED <<alive, inbox, route, linked, h, on, age, clearing, roomVars, said>>

\* Subscribe returns an error and the goroutine ends without a watchdog: there is no
\* connection, the wait is over, or the broker refuses.  But for the first the callback
\* has been registered.
SubscribeFails(a) ==
    /\ \/ sub[a] = "new" /\ sub' = [sub EXCEPT ![a] = "failed"]
       \/ sub[a] = "asked" /\ \E s \in {"late", "failed"} : sub' = [sub EXCEPT ![a] = s]
    /\ age' = [age EXCEPT ![a] = 0] /\ phase' = [phase EXCEPT ![a] = Timeout]
    /\ UNCHANGED <<alive, inbox, route, linked, h, on, clearing, roomVars, said>>

\* Mutant: the callback does not look at the type of the command.
DeliverUnfiltered ==
    /\ h.pc = "idle" /\ inbox # <<>>
    /\ LET m == Head(inbox)
       IN  /\ h' = [pc |-> "apply", act |-> route, state |-> m.state]
           /\ said' = IF m.act = route THEN m.state ELSE said
    /\ inbox' = Tail(inbox)
    /\ UNCHANGED <<alive, sub, route, linked, on, watchdogVars, roomVars>>

\* The callback gets the next command and ignores those for another type.
Deliver ==
    /\ h.pc = "idle" /\ inbox # <<>>
    /\ LET m == Head(inbox)
       IN  /\ h' = IF m.act = route THEN [pc |-> "apply", act |-> route, state |-> m.state]
                                    ELSE h
           /\ said' = IF m.act = route THEN m.state ELSE said
    /\ inbox' = Tail(inbox)
    /\ UNCHANGED <<alive, sub, route, linked, on, watchdogVars, roomVars>>

SetContribution(a) == on' = on \cup {a}
ClearContribution(a) == on' = on \ {a}

Apply ==
    /\ h.pc = "apply"
    /\ IF h.state THEN SetContribution(h.act) ELSE ClearContribution(h.act)
    /\ h' = [h EXCEPT !.pc = "stamp"]
    /\ UNCHANGED <<topicVars, watchdogVars, roomVars, said>>

\* lastCmd = time.Now()
Stamp ==
    /\ h.pc = "stamp"
    /\ age' = [age EXCEPT ![h.act] = 0]
    /\ h' = Idle
    /\ UNCHANGED <<topicVars, on, phase, clearing, roomVars, said>>

\* Mutant: the comparison is strict.
WatchdogFiresLate(a) ==
    /\ a \in started /\ a \notin clearing /\ phase[a] = 0
    /\ phase' = [phase EXCEPT ![a] = Timeout]
    /\ clearing' = IF age[a] > Timeout THEN clearing \cup {a} ELSE clearing
    /\ UNCHANGED <<topicVars, h, on, age, roomVars, said>>

\* The watchdog ticks and looks at the time since lastCmd.
WatchdogFires(a) ==
    /\ a \in started /\ a \notin clearing /\ phase[a] = 0
    /\ phase' = [phase EXCEPT ![a] = Timeout]
    /\ clearing' = IF age[a] >= Timeout THEN clearing \cup {a} ELSE clearing
    /\ UNCHANGED <<topicVars, h, on, age, roomVars, said>>

\* Mutant: the watchdog clears the device's key, not the actuator's.
WatchdogClearsOther(a) ==
    /\ a \in clearing
    /\ clearing' = clearing \ {a}
    /\ UNCHANGED <<topicVars, h, on, age, phase, roomVars, said>>

WatchdogClears(a) ==
    /\ a \in clearing
    /\ ClearContribution(a)
    /\ clearing' = clearing \ {a}
    /\ UNCHANGED <<topicVars, h, age, phase, roomVars, said>>

-----------------------------------------------------------------------------
(* runSensor *)

HeatInput(s) ==
    /\ s \in due /\ snap[s] = None
    /\ snap' = [snap EXCEPT ![s] = [a \in Acts |-> IF a \in on THEN Rate ELSE 0]]
    /\ UNCHANGED <<topicVars, h, on, watchdogVars, due, cur, said>>

\* EnvironmentModel.Advance for one measurement, per tick.
Advance(c, heat) == c + (heat - Conductance * (c - Ambient)) \div Mass

\* Mutant: the upper bound is forgotten.
ClampBelow(v) == IF v < Lo THEN Lo ELSE v

Clamp(v) == IF v < Lo THEN Lo ELSE IF v > Hi THEN Hi ELSE v

\* Under the lock, with the snapshot; then the device publishes what it reads.
advanceRoom(s) ==
    /\ s \in due /\ snap[s] # None
    /\ cur' = [a \in Acts |-> Clamp(Advance(cur[a], snap[s][a]))]
    /\ snap' = [snap EXCEPT ![s] = None]
    /\ due' = due \ {s}
    /\ UNCHANGED <<topicVars, h, on, watchdogVars, said>>

-----------------------------------------------------------------------------

Clock ==
    /\ due = {} /\ clearing = {} /\ h = Idle
    /\ \A a \in started \cup waiting : phase[a] > 0
    /\ age' = [a \in Acts |-> IF a \in started \cup waiting THEN Older(age[a]) ELSE age[a]]
    /\ phase' = [a \in Acts |-> IF a \in started \cup waiting THEN phase[a] - 1 ELSE phase[a]]
    /\ due' = Sensors
    /\ UNCHANGED <<topicVars, h, on, clearing, snap, cur, said>>

DeviceService ==
    \/ \E a \in Acts, st \in BOOLEAN : Publish(a, st)
    \/ DeviceServiceStops \/ DeviceServiceStarts

Callback == Deliver \/ Apply \/ Stamp
Watchdog(a) == WatchdogFires(a) \/ WatchdogClears(a)
Sensor(s) == HeatInput(s) \/ advanceRoom(s)

\* What the simulator's goroutines do between two units of time.
Work ==
    \/ Callback
    \/ \E a \in Acts : Subscribe(a) \/ Subscribed(a) \/ SubscribeFails(a) \/ Watchdog(a)
    \/ \E s \in Sensors : Sensor(s)

Next == DeviceService \/ ConnectionLost \/ (\E a \in Acts : Suback(a)) \/ Work \/ Clock

Spec == Init /\ [][Next]_vars

\* Goroutines and timers keep running, in any order; device-service need not do anything.
FairSpec == Spec /\ WF_vars(Work) /\ WF_vars(Clock)

-----------------------------------------------------------------------------
(* Properties *)

TypeOK ==
    /\ alive \in BOOLEAN
    /\ inbox \in Seq([act : Acts, state : BOOLEAN])
    /\ sub \in [Acts -> {"new", "asked", "acked", "up", "late", "failed"}]
    /\ route \in Acts \cup {None} /\ (route # None => sub[route] # "new")
    /\ \A a \in Acts : sub[a] \notin {"new", "failed"} => route # None
    /\ linked \in BOOLEAN /\ (linked => route # None) /\ (inbox # <<>> => linked)
    /\ h \in [pc : {"idle", "apply", "stamp"}, act : Acts \cup {None}, state : BOOLEAN]
    /\ h.pc # "idle" => h.act # None /\ sub[h.act] # "new"
    /\ on \subseteq {a \in Acts : sub[a] # "new"} /\ clearing \subseteq started
    /\ age \in [Acts -> 0 .. Long] /\ phase \in [Acts -> 0 .. Timeout]
    /\ due \subseteq Sensors
    /\ snap \in [Sensors -> [Acts -> {0, Rate}] \cup {None}]
    /\ cur \in [Acts -> Lo .. Hi]
    /\ said \in BOOLEAN

\* An actuator that hears nothing stops heating before twice the timeout, whatever the
\* phase of its watchdog (runActuator: the watchdog's period is the timeout itself); one
\* whose Subscribe failed has no watchdog.
CutOff == h.pc = "idle" => \A a \in on \ failed : age[a] < Long

\* The actuator whose callback the topic has heats only while the last command for its
\* own type was ON (the filter of the callback, and contributions keyed by type).
HeatsOnCommand == h.pc = "idle" => (route \in on => said)

\* simulator.md: when device-service stops, "the room passively returns to ambient", and
\* so it does when the broker forgets the subscription of the simulator: in every
\* measurement whose actuator has a watchdog.
ReturnsToAmbient ==
    \A a \in Acts :
        ~(alive /\ linked) ~> ((alive /\ linked) \/ a \in failed \/ cur[a] = Ambient)
=============================================================================
