SPECIFICATION Spec
CONSTANTS
    daily = daily
    once = once
    meal = meal
    medication = medication
    offline = offline
    battery = battery
    comfort = comfort
    baseline = baseline
    None = None
    Care = {daily, once}
    Feeding = {meal}
    Config = {medication}
    Plan <- MCPlan
    Checks <- MCChecks
    Offline = offline
    Silent = {baseline}
    Enabled <- MCEnabled
    Grace = 1
    Retention = 3
    Day = 3
    MaxClock = 5
    MaxRuns = 3
INVARIANTS NoticeOnce RemindedOnItsDay
PROPERTY RunTells
CHECK_DEADLOCK FALSE
