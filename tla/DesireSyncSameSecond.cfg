SPECIFICATION Spec
CONSTANTS
    Docs = {d1}
    Contents = {a, b}
    NoContent = NoContent
    MaxEdits = 0
    MaxFaults = 0
    Quiet = FALSE
INVARIANT NothingLeftBehind
CHECK_DEADLOCK FALSE
