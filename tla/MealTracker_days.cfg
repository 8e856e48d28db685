SPECIFICATION Spec
CONSTANTS
    breakfast = breakfast
    dinner = dinner
    bowl_1 = bowl_1
    bowl_2 = bowl_2
    NoBowl = NoBowl
    Meals = {breakfast, dinner}
    Bowls = {bowl_1, bowl_2}
    Schedules <- MCSchedules
    Day = 6
    MinIntake = 1
    ServedStep = 1
    Portion = 2
    MaxServed = 4
    MaxClock = 9
    MaxCrashes = 1
    MaxFaults = 1
INVARIANTS OneOutcome IntakeTrue ServedNotInflated ScheduleFollowed DayTotalRight
