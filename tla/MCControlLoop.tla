--------------------------- MODULE MCControlLoop ---------------------------
(***************************************************************************)
(* ControlLoop for TLC: a week of two days of three minutes of two ticks.   *)
(***************************************************************************)
EXTENDS ControlLoop

CONSTANTS Heater, Boiler, Spare

MCChannels == {Heater}
MCHw == {Boiler, Spare}
MCValues == {0, 4}

Hold(mode, until) == [active |-> TRUE, until |-> until, mode |-> mode,
                      targets |-> [k \in Channels |-> 2]]
NoHold == [active |-> FALSE, until |-> 0, mode |-> "OFF", targets |-> NoTargets]

Config(manual, periods, zone, hw) ==
    [manual |-> manual, periods |-> periods, zone |-> zone,
     deadband |-> [k \in Channels |-> 1], hw |-> [k \in Channels |-> hw]]

Period(days, start, end) ==
    [days |-> days, start |-> start, end |-> end, mode |-> "AUTO",
     targets |-> [k \in Channels |-> 2]]

\* Target 2, deadband 1: values 0 and 4 are outside the band, their average is in it.
\* A hold that never ends with one device, one that ends at time 2 with a schedule
\* behind it, and a schedule without a hold in another timezone, which covers a day up to
\* its grace minute; the last two with both devices.
MCConfigs ==
    {Config(Hold("AUTO", 1000), <<>>, 0, {Boiler}),
     Config(Hold("OFF", 2), <<Period({0}, 0, 1), Period({0}, 1, 2)>>, 0, Hw),
     Config(NoHold, <<Period({0, 1}, 0, 2)>>, 1, Hw)}
=============================================================================
