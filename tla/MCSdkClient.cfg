SPECIFICATION Spec
CONSTANTS
    c1 = c1
    c2 = c2
    c3 = c3
    c4 = c4
    Calls = {c1, c2, c3, c4}
    CheckUpdate = TRUE
    None = none
    Reserved = 2
INVARIANTS AutoCheckOnce KnownIsTold
PROPERTY ChecksConclude
CHECK_DEADLOCK FALSE
