SPECIFICATION Spec
CONSTANTS
    p1 = p1
    p2 = p2
    food = food
    Event = Event
    Notice = Notice
    File = File
    None = None
    Slots = {p1, p2}
    Signals = {food}
    Written <- MCWritten
    Keep = 1
    Retention = 4
    Week = 2
    Day = 2
    CronAt = 0
    ByHand = FALSE
    Answers = {TRUE}
    MaxRows = 2
    MaxClock = 5
    MaxRuns = 3
SYMMETRY Interchangeable
INVARIANT DeletedWasSummarised
CHECK_DEADLOCK FALSE
