SPECIFICATION Spec
CONSTANTS
    Heater = Heater
    Boiler = Boiler
    Spare = Spare
    NoTarget = NoTarget
    NoPeriod = NoPeriod
    Channels <- MCChannels
    Hw <- MCHw
    Values <- MCValues
    Configs <- MCConfigs
    TicksPerMinute = 2
    MinutesPerDay = 3
    DaysPerWeek = 2
    StaleThreshold = 1
    TickInterval = 1
    MaxTime = 3
    MaxReadings = 2
    MaxTroubles = 1
CHECK_DEADLOCK FALSE
INVARIANTS TypeOK WindowExact SensorLossTurnsOff
PROPERTIES DeadbandResends GraceBridges
