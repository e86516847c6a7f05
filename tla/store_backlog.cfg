SPECIFICATION Spec
CONSTANTS
    TaskId = {1, 2}
    SprintId = {"s1"}
    Priority <- Priorities
    Seeds <- Empty
    MaxCalls = 3
    MaxMinute = 2
    NoRow = NoRow
    Null = Null
INVARIANTS BacklogListed
CHECK_DEADLOCK FALSE
