SPECIFICATION Spec
CONSTANTS
    Groups <- MCGroups
    Edits = {"deleteRoom", "renameRoom", "moveDevice", "renameDevice", "deleteDevice", "clearTargets",
             "deactivate", "deleteSchedule", "deletePeriod", "ownPeriod"}
    MaxRuns = 3
    MaxFaults = 1
    MaxEdits = 2
CHECK_DEADLOCK FALSE
INVARIANTS TypeOK RunEstablishes OnlyEditsBlock TeardownComplete
