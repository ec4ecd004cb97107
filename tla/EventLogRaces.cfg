SPECIFICATION Spec
CONSTANTS
    Capacity = 3
    MaxEvents = 5
INVARIANTS RecorderInv QuietEventsSurvive
CHECK_DEADLOCK FALSE
