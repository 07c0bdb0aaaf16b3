----------------------------- MODULE RoomRecord -----------------------------
(***************************************************************************)
(* What the cache of device-service promises for the runtime fields of a   *)
(* room: one record that readings are added to and commands are noted in,  *)
(* none of them lost, until the room is deleted.  There is no reload here: *)
(* to the goroutines that share a room it must look as if nothing happens. *)
(***************************************************************************)
EXTENDS Naturals

VARIABLES
    live,      \* the room has not been deleted
    readings,  \* LatestReadings: the readings taken so far
    command    \* ActuatorStates: the number of the last command

record == <<live, readings, command>>

Init == live = TRUE /\ readings = {} /\ command = 0

Ingest ==
    /\ live
    /\ \E n \in readings' : readings' = readings \cup {n}
    /\ UNCHANGED <<live, command>>

\* Commands are noted one by one, in the order in which they are given.
Command ==
    /\ live
    /\ command' = command + 1
    /\ UNCHANGED <<live, readings>>

Delete ==
    /\ live
    /\ live' = FALSE /\ readings' = {} /\ command' = 0

Next == Ingest \/ Command \/ Delete

Spec == Init /\ [][Next]_record
=============================================================================
