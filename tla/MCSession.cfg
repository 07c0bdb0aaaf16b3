SPECIFICATION Spec
CONSTANTS
    t1 = t1
    t2 = t2
    rooms = rooms
    climate = climate
    Tabs = {t1, t2}
    Fetches = {rooms, climate}
    Mounted <- MCMounted
    Climate = {climate}
    MaxCalls = 3
    MaxMishaps = 1
CHECK_DEADLOCK FALSE
INVARIANTS TypeOK JarAlive RotatedIsDead OncePerPage NobodyStranded
