----------------------------- MODULE MCJobAlerts -----------------------------
(* A day of three minutes: a task of every day at minute 1, one without a time *)
(* that is due on the first day only, a feeding, a reminder at midnight.       *)
EXTENDS JobAlerts

CONSTANTS daily, once, meal, medication, offline, battery, comfort, baseline

At_(time, days, deadline) == [time |-> time, days |-> days, deadline |-> deadline]
MCPlan == [s \in {daily, once, meal, medication} |->
    CASE s = daily -> At_(1, {0, 1}, None)
      [] s = once -> At_(None, {0}, 0)
      [] s = meal -> At_(1, {0, 1}, None)
      [] s = medication -> At_(0, {0}, None)]
MCChecks == [j \in {"device", "health", "baselines"} |->
    CASE j = "device" -> <<offline, battery>>
      [] j = "health" -> <<comfort>>
      [] j = "baselines" -> <<baseline>>]
MCEnabled == {{"dispatch"}, {"overdue"}, {"device"}, {"health", "baselines"}}
=============================================================================
