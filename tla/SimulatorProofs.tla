-------------------------- MODULE SimulatorProofs --------------------------
(***************************************************************************)
(* Proofs about Simulator, for any actuators, sensors, timeout and room    *)
(* model.                                                                  *)
(***************************************************************************)
EXTENDS Simulator, TLAPS

\* What the room model returns is a number within the bounds.
LEMMA ClampedAdvance ==
    ASSUME NEW c \in Int, NEW q \in {0, Rate}
    PROVE  Clamp(Advance(c, q)) \in Lo .. Hi
<1>1. q - Conductance * (c - Ambient) \in Int
  BY SimulatorAssumption
<1>2. (q - Conductance * (c - Ambient)) \div Mass \in Int
  BY <1>1, SimulatorAssumption
<1>3. Advance(c, q) \in Int
  BY <1>2 DEF Advance
<1> QED
  BY <1>3, SimulatorAssumption DEF Clamp

LEMMA Bounds ==
    /\ Long \in Nat /\ Timeout < Long
    /\ Patience \in 0 .. Timeout
    /\ 0 \in 0 .. Long /\ 0 \in 0 .. Timeout /\ Timeout \in 0 .. Timeout
    /\ Ambient \in Lo .. Hi
BY SimulatorAssumption DEF Long

LEMMA InitTypes == Init => TypeOK
<1> SUFFICES ASSUME Init PROVE TypeOK
  OBVIOUS
<1> USE DEF Init
<1>1. inbox \in Seq([act : Acts, state : BOOLEAN])
  OBVIOUS
<1>2. /\ age \in [Acts -> 0 .. Long] /\ phase \in [Acts -> 0 .. Timeout]
      /\ cur \in [Acts -> Lo .. Hi]
  BY Bounds
<1> QED
  BY <1>1, <1>2 DEF TypeOK, Idle

LEMMA HeadAndTail ==
    ASSUME NEW S, NEW q \in Seq(S), q # <<>>
    PROVE  Head(q) \in S /\ Tail(q) \in Seq(S)
OBVIOUS

LEMMA DeviceServiceTypes == ASSUME TypeOK, DeviceService PROVE TypeOK'
<1> USE DEF TypeOK, watchdogVars, roomVars, started
<1>1. CASE \E a \in Acts, st \in BOOLEAN : Publish(a, st)
  BY <1>1 DEF Publish
<1>2. CASE DeviceServiceStops \/ DeviceServiceStarts
  <2>1. alive' \in BOOLEAN
    BY <1>2 DEF DeviceServiceStops, DeviceServiceStarts
  <2>2. UNCHANGED <<inbox, sub, route, linked, h, on, age, phase, clearing, due,
                    snap, cur, said>>
    BY <1>2 DEF DeviceServiceStops, DeviceServiceStarts
  <2> QED
    BY <2>1, <2>2
<1> QED
  BY <1>1, <1>2 DEF DeviceService

LEMMA ConnectionTypes == ASSUME TypeOK, ConnectionLost PROVE TypeOK'
<1>1. UNCHANGED <<alive, route, h, on, clearing, due, snap, cur, said>>
  BY DEF ConnectionLost, watchdogVars, roomVars
<1>2. linked' = FALSE /\ inbox' = <<>> /\ inbox' \in Seq([act : Acts, state : BOOLEAN])
  BY DEF ConnectionLost
<1>3. age' \in [Acts -> 0 .. Long] /\ phase' \in [Acts -> 0 .. Timeout]
  BY Bounds DEF ConnectionLost, TypeOK
<1>4. /\ sub' \in [Acts -> {"new", "asked", "acked", "up", "late", "failed"}]
      /\ \A a \in Acts : (sub[a] # "new" => sub'[a] # "new") /\ (sub[a] = "up" => sub'[a] = "up")
  BY DEF ConnectionLost, TypeOK, Asking
<1>5. /\ route \in Acts \cup {None} /\ (route # None => sub'[route] # "new")
      /\ \A a \in Acts : sub'[a] \notin {"new", "failed"} => route # None
      /\ h.pc # "idle" => h.act # None /\ sub'[h.act] # "new"
      /\ on \subseteq {a \in Acts : sub'[a] # "new"} /\ clearing \subseteq started'
  <2>1. \A a \in Acts : sub'[a] \notin {"new", "failed"} => sub[a] \notin {"new", "failed"}
    BY DEF ConnectionLost, Asking, TypeOK
  <2> QED
    BY <1>4, <2>1 DEF TypeOK, started
<1> QED
  BY <1>1, <1>2, <1>3, <1>4, <1>5 DEF TypeOK

LEMMA CallbackTypes == ASSUME TypeOK, Callback PROVE TypeOK'
<1> USE DEF TypeOK, topicVars, watchdogVars, roomVars, started
<1>1. CASE Deliver
  <2> DEFINE m == Head(inbox)
  <2>1. /\ m \in [act : Acts, state : BOOLEAN]
        /\ Tail(inbox) \in Seq([act : Acts, state : BOOLEAN])
    <3>1. inbox \in Seq([act : Acts, state : BOOLEAN]) /\ inbox # <<>>
      BY <1>1 DEF Deliver
    <3> HIDE DEF TypeOK
    <3> QED
      BY <3>1, HeadAndTail
  <2>2. route # None /\ route \in Acts /\ sub[route] # "new"
    BY <1>1 DEF Deliver
  <2>3. /\ h' \in [pc : {"idle", "apply", "stamp"}, act : Acts \cup {None}, state : BOOLEAN]
        /\ h'.pc # "idle" => h'.act # None /\ sub[h'.act] # "new"
    BY <1>1, <2>1, <2>2 DEF Deliver
  <2>4. said' \in BOOLEAN
    BY <1>1, <2>1 DEF Deliver
  <2> QED
    BY <1>1, <2>1, <2>2, <2>3, <2>4 DEF Deliver
<1>2. CASE Apply
  BY <1>2 DEF Apply, SetContribution, ClearContribution
<1>3. CASE Stamp
  <2>1. age' \in [Acts -> 0 .. Long]
    BY <1>3, Bounds DEF Stamp
  <2> QED
    BY <1>3, <2>1 DEF Stamp, Idle
<1> QED
  BY <1>1, <1>2, <1>3 DEF Callback

\* What the steps of one goroutine's Subscribe have in common.
Advances(a, from, to) ==
    /\ sub[a] \in from /\ \E s \in to : sub' = [sub EXCEPT ![a] = s]
    /\ UNCHANGED <<alive, inbox, h, on, clearing, due, snap, cur>>

LEMMA AdvanceTypes ==
    ASSUME TypeOK, NEW a \in Acts,
           Advances(a, {"new", "asked", "acked", "late"}, {"asked", "acked", "up", "late", "failed"})
    PROVE  /\ sub' \in [Acts -> {"new", "asked", "acked", "up", "late", "failed"}]
           /\ \A b \in Acts : (sub[b] # "new" => sub'[b] # "new") /\ (b \in started => b \in started')
           /\ h.pc # "idle" => h.act # None /\ sub'[h.act] # "new"
           /\ on' \subseteq {b \in Acts : sub'[b] # "new"} /\ clearing' \subseteq started'
           /\ sub'[a] # "new"
           /\ sub[a] # "new" \/ sub'[a] = "failed"
                => \A b \in Acts : sub'[b] \notin {"new", "failed"} => route # None
<1>1. /\ sub' \in [Acts -> {"new", "asked", "acked", "up", "late", "failed"}]
      /\ sub'[a] # "new"
      /\ \A b \in Acts : (sub[b] # "new" => sub'[b] # "new") /\ (b \in started => b \in started')
  BY DEF TypeOK, Advances, started
<1>2. ASSUME sub[a] # "new" \/ sub'[a] = "failed", NEW b \in Acts, sub'[b] \notin {"new", "failed"}
      PROVE  route # None
  <2>1. CASE a = b
    BY <1>2, <2>1 DEF TypeOK, Advances
  <2>2. CASE a # b
    BY <1>2, <2>2 DEF TypeOK, Advances
  <2> QED
    BY <2>1, <2>2
<1> QED
  BY <1>1, <1>2 DEF TypeOK, Advances, started

LEMMA ActuatorTypes ==
    ASSUME TypeOK, NEW a \in Acts,
           Subscribe(a) \/ Suback(a) \/ Subscribed(a) \/ SubscribeFails(a) \/ Watchdog(a)
    PROVE  TypeOK'
<1> DEFINE Adv == Advances(a, {"new", "asked", "acked", "late"}, {"asked", "acked", "up", "late", "failed"})
<1> USE DEF watchdogVars, roomVars
<1>1. CASE Subscribe(a)
  <2>1. age' \in [Acts -> 0 .. Long] /\ phase' \in [Acts -> 0 .. Timeout]
    BY <1>1, Bounds DEF Subscribe, TypeOK
  <2>2. Adv
    BY <1>1 DEF Subscribe, Advances
  <2> QED
    BY <1>1, <2>1, <2>2, AdvanceTypes, SimulatorAssumption DEF Subscribe, TypeOK
<1>2. CASE Suback(a)
  <2>1. Adv
    BY <1>2 DEF Suback, Advances, Asking
  <2>2. route # None => sub'[route] # "new"
    BY <2>1, AdvanceTypes DEF TypeOK
  <2>3. sub[a] # "new" /\ sub[a] \notin {"new", "failed"} /\ route # None
    BY <1>2 DEF Suback, Asking, TypeOK
  <2>4. \A b \in Acts : sub'[b] \notin {"new", "failed"} => route # None
    BY <2>3
  <2> QED
    BY <1>2, <2>1, <2>2, <2>3, <2>4, AdvanceTypes DEF Suback, TypeOK
<1>3. CASE Subscribed(a)
  <2>1. phase' \in [Acts -> 0 .. Timeout]
    BY <1>3, Bounds DEF Subscribed, TypeOK
  <2>2. Adv
    BY <1>3 DEF Subscribed, Advances
  <2>3. route # None => sub'[route] # "new"
    BY <2>2, AdvanceTypes DEF TypeOK
  <2> QED
    BY <1>3, <2>1, <2>2, <2>3, AdvanceTypes DEF Subscribed, TypeOK
<1>4. CASE SubscribeFails(a)
  <2>1. age' \in [Acts -> 0 .. Long] /\ phase' \in [Acts -> 0 .. Timeout]
    BY <1>4, Bounds DEF SubscribeFails, TypeOK
  <2>2. Adv
    BY <1>4 DEF SubscribeFails, Advances
  <2>3. route # None => sub'[route] # "new"
    BY <2>2, AdvanceTypes DEF TypeOK
  <2> QED
    BY <1>4, <2>1, <2>2, <2>3, AdvanceTypes DEF SubscribeFails, TypeOK
<1>5. CASE WatchdogFires(a)
  <2>1. phase' \in [Acts -> 0 .. Timeout]
    BY <1>5, Bounds DEF WatchdogFires, TypeOK
  <2> QED
    BY <1>5, <2>1 DEF WatchdogFires, TypeOK, topicVars, started
<1>6. CASE WatchdogClears(a)
  BY <1>6 DEF WatchdogClears, ClearContribution, TypeOK, topicVars, started
<1> QED
  BY <1>1, <1>2, <1>3, <1>4, <1>5, <1>6 DEF Watchdog

LEMMA SensorTypes == ASSUME TypeOK, NEW s \in Sensors, Sensor(s) PROVE TypeOK'
<1> USE DEF TypeOK, topicVars, watchdogVars, started
<1>1. CASE HeatInput(s)
  BY <1>1 DEF HeatInput
<1>2. CASE advanceRoom(s)
  <2>1. snap[s] \in [Acts -> {0, Rate}]
    BY <1>2 DEF advanceRoom
  <2>2. \A a \in Acts : cur[a] \in Int /\ snap[s][a] \in {0, Rate}
    <3>1. cur \in [Acts -> Lo .. Hi] /\ Lo .. Hi \subseteq Int
      OBVIOUS
    <3> HIDE DEF TypeOK
    <3> QED
      BY <2>1, <3>1
  <2>3. \A a \in Acts : Clamp(Advance(cur[a], snap[s][a])) \in Lo .. Hi
    BY <2>2, ClampedAdvance
  <2>4. cur' \in [Acts -> Lo .. Hi]
    BY <1>2, <2>3 DEF advanceRoom
  <2> QED
    BY <1>2, <2>4 DEF advanceRoom
<1> QED
  BY <1>1, <1>2 DEF Sensor

LEMMA ClockTypes == ASSUME TypeOK, Clock PROVE TypeOK'
<1>1. ASSUME NEW a \in Acts PROVE Older(age[a]) \in 0 .. Long
  <2>1. age[a] \in 0 .. Long
    BY <1>1 DEF TypeOK
  <2> QED
    BY <2>1, Bounds DEF Older
<1>2. age' \in [Acts -> 0 .. Long]
  BY <1>1 DEF Clock, TypeOK
<1>3. ASSUME NEW a \in started \cup waiting PROVE phase[a] - 1 \in 0 .. Timeout
  <2>1. phase[a] \in 0 .. Timeout /\ phase[a] > 0
    BY <1>3 DEF Clock, TypeOK, started, waiting
  <2> QED
    BY <2>1, SimulatorAssumption
<1>4. phase' \in [Acts -> 0 .. Timeout]
  BY <1>3 DEF Clock, TypeOK
<1> QED
  BY <1>2, <1>4 DEF Clock, TypeOK, topicVars, started

LEMMA NextTypes == ASSUME TypeOK, [Next]_vars PROVE TypeOK'
<1>1. CASE UNCHANGED vars
  BY <1>1 DEF vars, TypeOK, started
<1> QED
  BY <1>1, DeviceServiceTypes, ConnectionTypes, CallbackTypes, ActuatorTypes, SensorTypes, ClockTypes DEF Next, Work

\* Every state the simulator reaches is well formed: no actuator heats that has no
\* callback, and the climate of the room stays within MeasurementBounds.
THEOREM SimulatorTypesHold == Spec => []TypeOK
BY InitTypes, NextTypes, PTL DEF Spec

-----------------------------------------------------------------------------
(* The watchdog *)

\* A goroutine that waits for its token began to do so with lastCmd at now; an actuator
\* that heats and has a watchdog was either told so just now, or is being cleared, or its
\* watchdog ticks again before twice the timeout has passed.
Guarded ==
    /\ \A a \in waiting : age[a] + phase[a] <= Patience
    /\ \A a \in on \cap started :
        \/ h.pc = "stamp" /\ h.act = a
        \/ a \in clearing /\ age[a] < Long
        \/ age[a] + phase[a] < Long

\* The facts about age and phase that the steps below need.
LEMMA Numbers ==
    ASSUME TypeOK, NEW a \in Acts
    PROVE  age[a] \in Nat /\ phase[a] \in Nat /\ phase[a] <= Timeout
BY SimulatorAssumption DEF TypeOK, Long

LEMMA CallbackGuarded == ASSUME TypeOK, Guarded, Callback PROVE Guarded'
<1> USE DEF TypeOK, Guarded, topicVars, watchdogVars, started, waiting
<1>1. CASE Deliver
  BY <1>1 DEF Deliver
<1>2. CASE Apply
  BY <1>2 DEF Apply, SetContribution, ClearContribution
<1>3. CASE Stamp
  <2>1. ASSUME NEW a \in waiting PROVE age'[a] + phase[a] <= Patience
    <3>1. age'[a] \in {0, age[a]} /\ age[a] + phase[a] <= Patience
      BY <1>3, <2>1 DEF Stamp
    <3>2. a \in Acts /\ age[a] \in Nat /\ phase[a] \in Nat /\ Patience \in Nat
      BY <2>1, Numbers, SimulatorAssumption
    <3> HIDE DEF TypeOK, Guarded
    <3> QED
      BY <3>1, <3>2
  <2>2. ASSUME NEW a \in on \cap started
        PROVE  (a \in clearing /\ age'[a] < Long) \/ age'[a] + phase[a] < Long
    <3>1. CASE h.act = a
      <4>1. age'[a] = 0 /\ phase[a] \in Nat /\ phase[a] <= Timeout
        BY <1>3, <2>2, <3>1, Numbers DEF Stamp
      <4> QED
        BY <4>1, Bounds, SimulatorAssumption
    <3>2. CASE h.act # a
      BY <1>3, <2>2, <3>2 DEF Stamp
    <3> QED
      BY <3>1, <3>2
  <2> QED
    BY <1>3, <2>1, <2>2 DEF Stamp
<1> QED
  BY <1>1, <1>2, <1>3 DEF Callback

LEMMA ActuatorGuarded ==
    ASSUME TypeOK, Guarded, NEW a \in Acts,
           Subscribe(a) \/ Suback(a) \/ Subscribed(a) \/ SubscribeFails(a) \/ Watchdog(a)
    PROVE  Guarded'
<1> USE DEF TypeOK, Guarded, topicVars, watchdogVars, started, waiting
<1>1. CASE Subscribe(a)
  <2>1. 0 + Patience <= Patience
    BY SimulatorAssumption
  <2> QED
    BY <1>1, <2>1 DEF Subscribe
<1>2. CASE Suback(a)
  BY <1>2 DEF Suback, Asking
<1>3. CASE Subscribed(a)
  <2>1. age[a] + phase[a] <= Patience /\ phase'[a] = Timeout /\ age' = age
    BY <1>3 DEF Subscribed
  <2>2. age[a] + Timeout < Long
    BY <2>1, Numbers, SimulatorAssumption DEF Long
  <2> QED
    BY <1>3, <2>1, <2>2 DEF Subscribed
<1>4. CASE SubscribeFails(a)
  BY <1>4 DEF SubscribeFails
<1>5. CASE WatchdogFires(a)
  <2>1. CASE age[a] >= Timeout
    <3>1. a \in clearing' /\ phase[a] = 0
      BY <1>5, <2>1 DEF WatchdogFires
    <3>2. age[a] + phase[a] < Long => age[a] < Long
      BY <3>1, Numbers
    <3> QED
      BY <1>5, <2>1, <3>1, <3>2 DEF WatchdogFires
  <2>2. CASE ~(age[a] >= Timeout)
    <3>1. phase'[a] = Timeout /\ age[a] + Timeout < Long
      BY <1>5, <2>2, Numbers, SimulatorAssumption DEF WatchdogFires, Long
    <3> QED
      BY <1>5, <2>2, <3>1 DEF WatchdogFires
  <2> QED
    BY <2>1, <2>2
<1>6. CASE WatchdogClears(a)
  BY <1>6 DEF WatchdogClears, ClearContribution
<1> QED
  BY <1>1, <1>2, <1>3, <1>4, <1>5, <1>6 DEF Watchdog

\* A lost connection ends the goroutines that wait, and touches no watchdog.
LEMMA ConnectionGuarded == ASSUME TypeOK, Guarded, ConnectionLost PROVE Guarded'
<1>1. UNCHANGED <<h, on, clearing>>
  BY DEF ConnectionLost
<1>2. ASSUME NEW a \in waiting' PROVE a \in waiting /\ age'[a] = age[a] /\ phase'[a] = phase[a]
  BY <1>2 DEF ConnectionLost, Asking, waiting, TypeOK
<1>3. ASSUME NEW a \in started' PROVE a \in started /\ age'[a] = age[a] /\ phase'[a] = phase[a]
  BY <1>3 DEF ConnectionLost, Asking, started, TypeOK
<1> QED
  BY <1>1, <1>2, <1>3 DEF Guarded

LEMMA ClockGuarded == ASSUME TypeOK, Guarded, Clock PROVE Guarded'
<1>1. /\ UNCHANGED <<sub, on, h, clearing>> /\ h.pc = "idle" /\ clearing = {}
      /\ waiting' = waiting /\ started' = started
  BY DEF Clock, topicVars, Idle, waiting, started
<1>2. ASSUME NEW a \in started \cup waiting
      PROVE  /\ age[a] \in Nat /\ phase[a] \in Nat /\ age'[a] \in Nat
             /\ age'[a] <= age[a] + 1 /\ phase'[a] = phase[a] - 1
  <2>1. a \in Acts
    BY DEF started, waiting
  <2>2. age[a] \in Nat /\ phase[a] \in Nat
    BY <2>1, Numbers
  <2>3. age'[a] = Older(age[a]) /\ phase'[a] = phase[a] - 1
    BY <2>1 DEF Clock
  <2> QED
    BY <2>2, <2>3 DEF Older
<1>3. ASSUME NEW a \in waiting PROVE age'[a] + phase'[a] <= Patience
  BY <1>2, <1>3, SimulatorAssumption DEF Guarded
<1>4. ASSUME NEW a \in on \cap started PROVE age'[a] + phase'[a] < Long
  <2>1. age[a] + phase[a] < Long
    BY <1>1, <1>4 DEF Guarded
  <2> QED
    BY <1>2, <1>4, <2>1, Bounds
<1> QED
  BY <1>1, <1>3, <1>4 DEF Guarded

\* A silent device-service stops heating before twice the timeout has passed, for any
\* timeout and any number of actuators, at whatever phase of the watchdog the commands
\* stop (runActuator).
THEOREM SilenceCutsOff == Spec => []CutOff
<1>1. Init => Guarded
  BY DEF Init, Guarded, waiting
<1>2. TypeOK /\ Guarded /\ [Next]_vars => Guarded'
  <2> SUFFICES ASSUME TypeOK, Guarded, [Next]_vars PROVE Guarded'
    OBVIOUS
  <2> USE DEF Guarded, waiting, started
  <2>1. CASE DeviceService
    BY <2>1 DEF DeviceService, Publish, DeviceServiceStops, DeviceServiceStarts, watchdogVars
  <2>2. CASE \E s \in Sensors : Sensor(s)
    BY <2>2 DEF Sensor, HeatInput, advanceRoom, watchdogVars, topicVars
  <2>3. CASE UNCHANGED vars
    BY <2>3 DEF vars
  <2> HIDE DEF Guarded, waiting, started
  <2> QED
    BY <2>1, <2>2, <2>3, CallbackGuarded, ActuatorGuarded, ConnectionGuarded, ClockGuarded
    DEF Next, Work
<1>3. TypeOK /\ Guarded => CutOff
  <2> SUFFICES ASSUME TypeOK, Guarded, h.pc = "idle", NEW a \in on \ failed PROVE age[a] < Long
    BY DEF CutOff
  <2>1. a \in Acts /\ (a \in waiting \/ a \in started)
    BY DEF TypeOK, failed, waiting, started
  <2>2. \/ age[a] + phase[a] <= Patience
        \/ age[a] < Long
        \/ age[a] + phase[a] < Long
    BY <2>1 DEF Guarded
  <2> QED
    BY <2>1, <2>2, Numbers, Bounds, SimulatorAssumption
<1> QED
  BY <1>1, <1>2, <1>3, SimulatorTypesHold, PTL DEF Spec

-----------------------------------------------------------------------------
(* The callback *)

\* What is not said is only on while the callback is about to switch it off.
Obeys ==
    /\ route \in on /\ ~said => h.pc = "apply" /\ h.act = route
    /\ h.pc # "idle" /\ h.act = route => h.state = said

\* Nothing heats but on a command of its own type (the filter of the callback), whatever
\* commands, watchdogs and later subscriptions interleave.
THEOREM CallbackObeys == Spec => []HeatsOnCommand
<1>1. Init => Obeys
  BY DEF Init, Obeys, Idle
<1>2. TypeOK /\ Obeys /\ [Next]_vars => Obeys'
  <2> SUFFICES ASSUME TypeOK, Obeys, [Next]_vars PROVE Obeys'
    OBVIOUS
  <2> USE DEF Obeys, topicVars, watchdogVars, roomVars
  <2>1. CASE DeviceService
    BY <2>1 DEF DeviceService, Publish, DeviceServiceStops, DeviceServiceStarts
  <2>2. CASE Deliver
    BY <2>2 DEF Deliver, TypeOK
  <2>3. CASE Apply
    BY <2>3 DEF Apply, SetContribution, ClearContribution, TypeOK
  <2>4. CASE Stamp
    BY <2>4 DEF Stamp, Idle, TypeOK
  <2>5. CASE Clock
    BY <2>5 DEF Clock
  <2>6. ASSUME NEW a \in Acts, Subscribe(a) PROVE Obeys'
    BY <2>6 DEF Subscribe, TypeOK
  <2>7. ASSUME NEW a \in Acts, Suback(a) \/ Subscribed(a) \/ SubscribeFails(a) PROVE Obeys'
    BY <2>7 DEF Suback, Subscribed, SubscribeFails
  <2>8. ASSUME NEW a \in Acts, Watchdog(a) PROVE Obeys'
    BY <2>8 DEF Watchdog, WatchdogFires, WatchdogClears, ClearContribution
  <2>9. CASE \E s \in Sensors : Sensor(s)
    BY <2>9 DEF Sensor, HeatInput, advanceRoom
  <2>10. CASE UNCHANGED vars
    BY <2>10 DEF vars
  <2>11. CASE ConnectionLost
    BY <2>11 DEF ConnectionLost
  <2> QED
    BY <2>1, <2>2, <2>3, <2>4, <2>5, <2>6, <2>7, <2>8, <2>9, <2>10, <2>11 DEF Next, Work, Callback
<1>3. Obeys => HeatsOnCommand
  BY DEF Obeys, HeatsOnCommand
<1> QED
  BY <1>1, <1>2, <1>3, SimulatorTypesHold, PTL DEF Spec
=============================================================================
