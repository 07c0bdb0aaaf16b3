---------------------------- MODULE MCRoomConfig ----------------------------
(***************************************************************************)
(* RoomConfig for TLC: a sensor, a heater and a device with both.          *)
(***************************************************************************)
EXTENDS RoomConfig, TLC

CONSTANTS Probe, Heater, Combi

SensorsOf(d) == IF d \in {Probe, Combi} THEN Kinds ELSE {}
ActuatorsOf(d) == IF d \in {Heater, Combi} THEN Kinds ELSE {}

Hour(h) == [h |-> h, short |-> FALSE]
Short(h) == [h |-> h, short |-> TRUE]

Body(start, end, mode, targets) ==
    [days |-> {1}, start |-> start, end |-> end, mode |-> mode, targets |-> targets]

\* Periods that touch and periods that overlap; one ends in an hour written with one
\* digit.
Bodies == {Body(Hour(3), Hour(5), "AUTO", Kinds), Body(Hour(4), Hour(6), "OFF", {}),
           Body(Hour(5), Short(9), "OFF", {})}

States == {[manual |-> TRUE, mode |-> "AUTO", targets |-> Kinds],
           [manual |-> FALSE, mode |-> "OFF", targets |-> {}]}

Symmetry == Permutations(Procs) \cup Permutations(PeriodIds)
=============================================================================
