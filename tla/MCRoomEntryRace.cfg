SPECIFICATION Spec
CONSTANTS
    Ptrs = {e0, e1, e2, e3}
    First = e0
    None = None
    Reloaders = {Refresh, Consumer}
    Ticker = Ticker
    Ingestor = Ingestor
    MaxCommands = 2
    MaxPeriods = 1
    MaxMsgs = 1
CHECK_DEADLOCK FALSE
SYMMETRY Symmetry
INVARIANT NoMapRace
