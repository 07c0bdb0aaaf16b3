SPECIFICATION Spec
CONSTANTS
    Probe = Probe
    Heater = Heater
    Combi = Combi
    Procs = {p1, p2}
    Schedules = {s1}
    PeriodIds = {i1, i2}
    Devices = {Probe, Heater, Combi}
    Kinds = {"temperature"}
    PeriodInputs <- Bodies
    StateInputs <- States
    HoursPerDay = 24
    Sensors <- SensorsOf
    Actuators <- ActuatorsOf
    MaxRequests = 3
CHECK_DEADLOCK FALSE
PROPERTY RenameKeepsActive
