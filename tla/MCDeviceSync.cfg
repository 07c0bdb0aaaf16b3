SPECIFICATION FairSpec
CONSTANTS
    Rooms = {r1, r2}
    Unassigned = Unassigned
    Gone = Gone
    NoEntry = NoEntry
    MaxRequests = 2
    MaxFaults = 1
    MaxCrashes = 1
CHECK_DEADLOCK FALSE
INVARIANTS TypeOK RoutedWhenQuiet
PROPERTY HwConverges
