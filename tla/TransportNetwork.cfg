CONSTANTS
    a = a
    b = b
    c = c
    Stations = {a, b, c}
    Lines <- MCLines
    Files <- MCFiles
    MaxTime = 2
    MaxCount = 1
    MaxRoutes = 6
SPECIFICATION Spec
INVARIANTS
    TypeOK
    RoutesAreWalkable
    RoutesListedOnce
    LoadedTimesAgree
    LoadIsComplete
CHECK_DEADLOCK FALSE
