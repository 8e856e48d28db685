SPECIFICATION Spec
CONSTANTS
    daily = daily
    once = once
    meal = meal
    medication = medication
    offline = offline
    battery = battery
    comfort = comfort
    baseline = baseline
    None = None
    Care = {daily, once}
    Feeding = {meal}
    Config = {medication}
    Plan <- MCPlan
    Checks <- MCChecks
    Offline = offline
    Silent = {baseline}
    Enabled <- MCEnabled
    Grace = 1
    Retention = 3
    Day = 3
    MaxClock = 4
    MaxRuns = 2
INVARIANT OverdueAfterGrace
CHECK_DEADLOCK FALSE
