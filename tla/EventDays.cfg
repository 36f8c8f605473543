SPECIFICATION Spec
CONSTANTS
    Day = 4
    Offset0 <- MCOffset
    Shifts = {"east"}
    Shift = 6
    User = "east"
    Calendar = "east"
CHECK_DEADLOCK FALSE
INVARIANTS DaysKept
