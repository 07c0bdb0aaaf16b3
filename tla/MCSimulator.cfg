SPECIFICATION FairSpec
CONSTANTS
    Acts = {temperature, humidity}
    Sensors = {s1}
    None = None
    Timeout = 2
    Patience = 1
    Ambient = 1
    Rate = 4
    Conductance = 1
    Mass = 2
    Lo = 0
    Hi = 2
    MaxInbox = 1
INVARIANTS TypeOK CutOff HeatsOnCommand
PROPERTY ReturnsToAmbient
