SPECIFICATION Spec
CONSTANTS
    s1 = s1
    Statements = {s1}
    Refused = {}
    Interval = 1
    HalfRange = 16
    MaxClock = 2
    MaxCalls = 1
PROPERTY RetriesWhenDue
CHECK_DEADLOCK FALSE
