SPECIFICATION Spec
CONSTANTS
    Backends <- MCBackends
    Importers <- MCImporters
    Stories <- MCStories
    Titles = {"a"}
    MaxObjects = 2
    MaxWrites = 2
    MaxEdits = 1
    MaxLosses = 1
    MaxCrashes = 1
    MaxFaults = 2
    Day = 4
    Shift = 6
    LateShift = 9
    User = "east"
    Calendar = "east"
CHECK_DEADLOCK FALSE
INVARIANTS Agreed OnceEach AcceptedIsFiled ValuesKept
