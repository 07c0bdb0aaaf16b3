SPECIFICATION Spec
CONSTANTS
    Probe = Probe
    Heater = Heater
    Combi = Combi
    Procs = {p1, p2}
    Schedules = {s1}
    PeriodIds = {i1, i2}
    Devices = {Probe, Heater, Combi}
    Kinds = {"temperature"}
    PeriodInputs <- Bodies
    StateInputs <- States
    HoursPerDay = 24
    Sensors <- SensorsOf
    Actuators <- ActuatorsOf
    MaxRequests = 4
SYMMETRY Symmetry
CHECK_DEADLOCK FALSE
INVARIANTS TypeOK NoOverlap OnlyDeletesSilent
PROPERTIES RemovalKeepsCapability ActivationIsCapable
