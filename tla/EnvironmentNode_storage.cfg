SPECIFICATION MCSpec
CONSTANTS
    s1 = s1
    s2 = s2
    Nothing = Nothing
    Statements = {s1, s2}
    Refused = {s2}
    Insert = s1
    Interval = 2
    HalfRange = 16
    MaxClock = 3
    MaxCalls = 3
    Order <- MCOrder
    Every = 1
    MaxHeard = 3
    MaxEffort = 5
INVARIANTS ReportedStored RecordedAsHeard CrossingsLogged
CHECK_DEADLOCK FALSE
