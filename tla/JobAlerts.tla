------------------------------ MODULE JobAlerts ------------------------------
(***************************************************************************)
(* The care, device and health jobs of scheduled_task_manager: reminders   *)
(* of due tasks, notices of overdue ones, alerts about the device and the  *)
(* dog.  Each is a process that lives for one run; JobLocks gives a job    *)
(* one process at a time.  "INSERT ... WHERE NOT EXISTS (same key)" looks  *)
(* and then writes: no unique index stands behind it.                      *)
(*                                                                         *)
(* A tick is a minute.  A run starts in the first seconds of its minute    *)
(* (cron), schedules are set to whole minutes: a schedule of this minute   *)
(* is in the past minute, one of the minute before is not.                 *)
(***************************************************************************)
EXTENDS Integers, FiniteSets, Sequences

CONSTANTS
    Care, Feeding, Config,  (* schedules: of the two tables, and of the     *)
                            (* configuration file (by care_type)            *)
    Plan,           (* schedule -> time, days it recurs on, due_date        *)
    Checks,         (* what device and health jobs look at, in their order: *)
                    (* alert job -> sequence of conditions                  *)
    Offline,        (* the condition that compares with a stored threshold  *)
    Silent,         (* conditions that only write a row: the baselines      *)
    Enabled,        (* sets of jobs that cron may start in a behaviour      *)
    Grace,          (* 15 minutes                                           *)
    Retention,      (* of notifications, in ticks                           *)
    Day,            (* ticks of a day                                       *)
    None,
    MaxClock, MaxRuns

AlertJobs == DOMAIN Checks
Jobs == {"dispatch", "overdue"} \cup AlertJobs
Conditions == UNION {{Checks[j][i] : i \in DOMAIN Checks[j]} : j \in AlertJobs}
Schedules == Care \cup Feeding \cup Config

\* The key a notice is recognised by; the process of a job: its place, when it
\* began, what it has left to do and the keys it has looked for and not found.
KeyType == [kind : {"config", "remind", "feed", "overdue", "alert"},
            id : Schedules \cup Conditions, date : Nat \cup {None}]
Process ==
    [at : {"config", "config row", "fetch", "rows", "row", "feed", "feed rows", "feed event",
           "care", "care rows", "care event", "end", "read", "event", "notify", "alert row", "next"},
     since : Nat, todo : SUBSET Schedules, check : Nat, keys : SUBSET KeyType,
     logged : SUBSET (Conditions \cup {"feed", "care"}), owed : SUBSET KeyType]

ASSUME AlertAssumption ==
    /\ {"dispatch", "overdue"} \cap AlertJobs = {}
    /\ \A j \in AlertJobs : Checks[j] \in Seq(Conditions)
    /\ \A s \in Schedules :
        /\ Plan[s].time \in (0 .. Day - 1) \cup {None} /\ Plan[s].days \subseteq Nat
        /\ Plan[s].deadline \in Nat \cup {None}
    /\ \A s \in Feeding \cup Config : Plan[s].time # None /\ Plan[s].deadline = None
    /\ Silent \subseteq Conditions /\ Enabled \subseteq SUBSET Jobs
    /\ Day \in Nat \ {0} /\ Grace \in 0 .. Day - 1 /\ Retention \in Nat
    /\ MaxClock \in Nat /\ MaxRuns \in Nat
    /\ None \notin Process

VARIABLES
    clock,
    jobs,       (* the jobs enabled in the configuration                    *)
    user,       (* the device has an account                                *)
    done,       (* last_completed_at of a care schedule, and the day the    *)
                (* last meal of a feeding was recorded: a day, or -1        *)
    bad,        (* the conditions that hold now                             *)
    notices,    (* oro_base_notifications                                   *)
    due,        (* the jobs cron starts in this minute                      *)
    proc,       (* the process of each job                                  *)
    runs,       (* bound                                                    *)
    ever        (* history: all notices ever inserted                       *)

vars == <<clock, jobs, user, done, bad, notices, due, proc, runs, ever>>
world == <<clock, jobs, user, done, bad, due, runs>>

DateOf(t) == t \div Day
Today == DateOf(clock)
Minute == clock % Day
Key(kind, id, date) == [kind |-> kind, id |-> id, date |-> date]
Known(k) == \E n \in notices : n.key = k

-----------------------------------------------------------------------------
(* What the statements select.                                              *)

Pending(s) == done[s] < Today

\* scheduled_time BETWEEN CURRENT_TIME - 1 minute AND CURRENT_TIME, which is
\* empty in the first minute of a day: a time of day wraps.
JustDue_Ahead(s) == Plan[s].time = Minute + 1        \* mutant: BETWEEN now AND now + 1 minute
JustDue(s) == Plan[s].time = Minute /\ Minute # 0

\* scheduled_time < CURRENT_TIME - 15 minutes, which wraps as well.
LongDue(s) == Plan[s].time # None /\ Plan[s].time <= (Minute - Grace) % Day

DueConfig_AnyDay == {s \in Config : Plan[s].time = Minute}          \* mutant: the time only
DueConfig == {s \in Config : Plan[s].time = Minute /\ Today \in Plan[s].days}
DueCare ==
    {c \in Care : /\ Plan[c].time = None \/ JustDue(c)
                  /\ Today \in Plan[c].days /\ Pending(c)
                  /\ ~Known(Key("remind", c, Today))}
OverdueFeeding == {f \in Feeding : LongDue(f)}
OverdueCare ==
    {c \in Care : /\ LongDue(c) \/ (Plan[c].deadline # None /\ Plan[c].deadline < Today)
                  /\ Pending(c)}

\* What has to be notified now, whatever the statements select: the schedules of
\* this minute (of the table, not in the first of a day), and what is 15 minutes
\* old and not done, a feeding of which no meal was recorded included.
Ought(kind, ids) == {Key(kind, s, Today) : s \in ids}
OughtConfig == Ought("config",
    {s \in Config : Plan[s].time = Minute /\ Today \in Plan[s].days})
OughtRemind == Ought("remind",
    {c \in Care : /\ Plan[c].time \in {None, Minute} /\ (Plan[c].time = None \/ Minute # 0)
                  /\ Today \in Plan[c].days /\ Pending(c)})
Late(s) == Plan[s].time # None /\ Plan[s].time + Grace <= Minute
OughtFeed == Ought("feed", {f \in Feeding : Late(f) /\ Pending(f)})
OughtOverdue == Ought("overdue",
    {c \in Care : /\ Late(c) \/ (Plan[c].deadline # None /\ Plan[c].deadline < Today)
                  /\ Pending(c)})
AlertKey(k) == Key("alert", k, None)

-----------------------------------------------------------------------------
Init ==
    /\ clock = 0 /\ jobs \in Enabled
    /\ user \in BOOLEAN
    /\ done = [s \in Care \cup Feeding |-> -1]
    /\ bad = {}
    /\ notices = {} /\ ever = {}
    /\ due = jobs
    /\ proc = [j \in Jobs |-> None]
    /\ runs = 0

(* The world: time and cron, the account, the owner, the device.  What no   *)
(* enabled job looks at, or no property speaks of, stays as it is.          *)

Advance ==
    /\ clock < MaxClock
    /\ clock' = clock + 1
    /\ due' = jobs
    /\ UNCHANGED <<jobs, user, done, bad, notices, proc, runs, ever>>

Provision ==
    /\ ~user /\ user' = TRUE
    /\ UNCHANGED <<clock, jobs, done, bad, notices, due, proc, runs, ever>>

Complete(s) ==
    /\ jobs \cap AlertJobs = {} /\ (s \in Feeding => "overdue" \in jobs)
    /\ Pending(s) /\ done' = [done EXCEPT ![s] = Today]
    /\ UNCHANGED <<clock, jobs, user, bad, notices, due, proc, runs, ever>>

\* A condition comes or goes; a run can rely on what holds all along.
Change(k) ==
    /\ \E j \in jobs \cap AlertJobs : \E i \in DOMAIN Checks[j] : Checks[j][i] = k
    /\ bad' = IF k \in bad THEN bad \ {k} ELSE bad \cup {k}
    /\ proc' = [j \in Jobs |-> IF proc[j] = None THEN None
                               ELSE [proc[j] EXCEPT !.owed = @ \ {AlertKey(k)}]]
    /\ UNCHANGED <<clock, jobs, user, done, notices, due, runs, ever>>

\* data_cleanup (SummaryCleanup); what it deletes under a run is not owed.
Expired(n) == n.at < clock - Retention
Cleanup ==
    /\ \E n \in notices : Expired(n)
    /\ notices' = {n \in notices : ~Expired(n)}
    /\ proc' = [j \in Jobs |-> IF proc[j] = None THEN None
                               ELSE [proc[j] EXCEPT !.owed = {}]]
    /\ UNCHANGED <<world, ever>>

-----------------------------------------------------------------------------
(* Processes.  "owed", a history: what the run has to notify by what held   *)
(* when it looked, or all along; a failed statement cancels its part.       *)

At(j, place) == proc[j] # None /\ proc[j].at = place
Set(j, p) == proc' = [proc EXCEPT ![j] = p]
Tables == <<notices, ever>>
First(j) ==
    CASE j = "dispatch" -> "config" [] j = "overdue" -> "feed" [] OTHER -> "read"

Start(j) ==
    /\ proc[j] = None /\ j \in due /\ runs < MaxRuns
    /\ Set(j, [at |-> First(j), since |-> clock, todo |-> IF j = "dispatch" THEN DueConfig ELSE {},
               check |-> 1, keys |-> {}, logged |-> {},
               owed |->
                 IF j \in AlertJobs
                 THEN {AlertKey(Checks[j][i]) : i \in {i \in DOMAIN Checks[j] : Checks[j][i] \in bad}}
                 ELSE IF j = "dispatch" THEN OughtConfig ELSE {}])
    /\ due' = due \ {j} /\ runs' = runs + 1
    /\ UNCHANGED <<clock, jobs, user, done, bad, Tables>>

\* The statement looks for the keys it is to insert ...
Missing_Any(ks) == ks                               \* mutant: no NOT EXISTS
Missing(ks) == {k \in ks : ~Known(k)}

\* ... and inserts them.  Without an account user_id is null, which the table
\* refuses, or there is no row to select.
Ids(j) == {k.id : k \in proc[j].keys}
Times(k) == Cardinality({n \in ever : n.key = k})
Write(j, place, next, failed) ==
    /\ At(j, place)
    /\ \E ok \in BOOLEAN :
        LET new == IF ok /\ user
                   THEN {[key |-> k, at |-> clock, since |-> proc[j].since, nth |-> Times(k)] : k \in proc[j].keys}
                   ELSE {}
        IN /\ notices' = notices \cup new /\ ever' = ever \cup new
           /\ Set(j, [proc[j] EXCEPT !.at = IF new = {} THEN failed ELSE next, !.keys = {},
                                     !.owed = IF ok /\ user THEN @ ELSE {k \in @ : k.id \notin Ids(j)}])
    /\ UNCHANGED world

End(j) == Set(j, None) /\ UNCHANGED <<world, Tables>>

\* An event or baseline row; no job reads them.
Log(j, place, kind, next) ==
    /\ At(j, place)
    /\ \E ok \in BOOLEAN :
        Set(j, [proc[j] EXCEPT !.at = next,
                               !.logged = IF ok THEN @ \cup {kind} ELSE @,
                               !.owed = IF ok THEN @ ELSE @ \ {AlertKey(kind)}])
    /\ UNCHANGED <<world, Tables>>

-----------------------------------------------------------------------------
(* care_reminder_dispatch: the configured schedules, then the table's.      *)

Remind(s, kind, date, place) ==
    LET p == proc["dispatch"] IN
    Set("dispatch", [p EXCEPT !.at = place, !.todo = @ \ {s},
                              !.keys = Missing({Key(kind, s, date)})])
DispatchConfig ==
    /\ At("dispatch", "config")
    /\ \/ \E s \in proc["dispatch"].todo :
            Remind(s, "config", DateOf(proc["dispatch"].since), "config row")
       \/ /\ proc["dispatch"].todo = {}
          /\ Set("dispatch", [proc["dispatch"] EXCEPT !.at = "fetch"])
    /\ UNCHANGED <<world, Tables>>

\* A failed query is an empty result.
Fetch ==
    /\ At("dispatch", "fetch")
    /\ \E ok \in BOOLEAN :
        LET got == IF ok THEN DueCare ELSE {} IN
        Set("dispatch", [proc["dispatch"] EXCEPT !.at = "rows", !.todo = got,
            !.owed = IF ok THEN @ \cup OughtRemind ELSE @])
    /\ UNCHANGED <<world, Tables>>

\* The key of a row is made when its turn has come, and may be of the next day.
DispatchRow ==
    /\ At("dispatch", "rows")
    /\ \E c \in proc["dispatch"].todo : Remind(c, "remind", Today, "row")
    /\ UNCHANGED <<world, Tables>>
Dispatched == At("dispatch", "rows") /\ proc["dispatch"].todo = {} /\ End("dispatch")

Dispatch ==
    \/ DispatchConfig \/ Write("dispatch", "config row", "config", "config")
    \/ Fetch
    \/ DispatchRow \/ Write("dispatch", "row", "rows", "rows")
    \/ Dispatched

-----------------------------------------------------------------------------
(* overdue_task_checker: one statement for all feedings, one for all tasks, *)
(* each with an event if it inserted something.                             *)

Look(place, kind, found, ought, next) ==
    /\ At("overdue", place)
    /\ Set("overdue", [proc["overdue"] EXCEPT !.at = next,
            !.keys = Missing({Key(kind, s, Today) : s \in found}), !.owed = @ \cup ought])
    /\ UNCHANGED <<world, Tables>>
Overdue ==
    \/ Look("feed", "feed", OverdueFeeding, OughtFeed, "feed rows")
    \/ Write("overdue", "feed rows", "feed event", "care")
    \/ Log("overdue", "feed event", "feed", "care")
    \/ Look("care", "overdue", OverdueCare, OughtOverdue, "care rows")
    \/ Write("overdue", "care rows", "care event", "end")
    \/ Log("overdue", "care event", "care", "end")
    \/ At("overdue", "end") /\ End("overdue")
-----------------------------------------------------------------------------
(* device_health_check, sensor_data_freshness_check, health_signal_evaluator *)
(* and baseline_recalculation: one condition after the other.               *)

Condition(j) == Checks[j][proc[j].check]

\* A query that fails returns 0: no value is over a limit or a sensor stale, but
\* the heartbeat may be older than a threshold of 0.
Raised(k, ok) == IF ok THEN {k \in bad} ELSE IF k = Offline THEN BOOLEAN ELSE {FALSE}
Read(j) ==
    /\ At(j, "read") /\ proc[j].check <= Len(Checks[j])
    /\ LET k == Condition(j) IN
       \E ok \in BOOLEAN : \E raised \in Raised(k, ok) :
        Set(j, [proc[j] EXCEPT !.at = IF raised THEN "event" ELSE "next",
                               !.owed = IF ok THEN @ ELSE @ \ {AlertKey(k)}])
    /\ UNCHANGED <<world, Tables>>
Notify(j) ==
    /\ At(j, "notify")
    /\ Set(j, [proc[j] EXCEPT !.at = "alert row", !.keys = Missing({AlertKey(Condition(j))})])
    /\ UNCHANGED <<world, Tables>>
NextCheck(j) ==
    /\ At(j, "next")
    /\ Set(j, [proc[j] EXCEPT !.at = "read", !.check = @ + 1])
    /\ UNCHANGED <<world, Tables>>
Alert(j) ==
    \/ Read(j)
    \/ /\ At(j, "event")
       /\ Log(j, "event", Condition(j), IF Condition(j) \in Silent THEN "next" ELSE "notify")
    \/ Notify(j) \/ Write(j, "alert row", "next", "next")
    \/ NextCheck(j)
    \/ At(j, "read") /\ proc[j].check > Len(Checks[j]) /\ End(j)

Next ==
    \/ Advance \/ Provision \/ Cleanup
    \/ \E s \in Care \cup Feeding : Complete(s)
    \/ \E k \in Conditions : Change(k)
    \/ \E j \in Jobs : Start(j)
    \/ Dispatch \/ Overdue
    \/ \E j \in AlertJobs : Alert(j)

Spec == Init /\ [][Next]_vars

-----------------------------------------------------------------------------
TypeOK ==
    /\ clock \in Nat /\ runs \in Nat /\ user \in BOOLEAN
    /\ jobs \in Enabled /\ due \subseteq jobs
    /\ done \in [Care \cup Feeding -> Int] /\ bad \subseteq Conditions
    /\ notices \subseteq ever
    /\ \A n \in ever : n.key \in KeyType /\ n.at \in Nat /\ n.since \in Nat
    /\ DOMAIN proc = Jobs
    /\ \A j \in Jobs : proc[j] # None =>
        /\ j \in jobs /\ proc[j] \in Process
        /\ j \in AlertJobs => proc[j].check <= Len(Checks[j]) + 1

\* Whatever statements fail and runs are repeated, and although cleanup deletes
\* the keys they are recognised by, nobody is reminded twice of a task on a day,
\* nor told twice that it is overdue (a configured reminder is dated with the
\* start of its run: a run of weeks may outlive the notice of the one before); of
\* an alert there is one notice at a time.
Outlived(n) == n.key.kind = "config" /\ n.at - n.since > Retention - Day
NoticeOnce ==
    /\ \A m, n \in ever : m.key = n.key /\ m.key.date # None =>
            m = n \/ Outlived(m) \/ Outlived(n)
    /\ \A m, n \in notices : m.key = n.key => m = n

\* A reminder is dated with a day its schedule recurs on, unless its run went
\* past midnight.
RemindedOnItsDay ==
    \A n \in ever : n.key.kind \in {"remind", "config"} /\ DateOf(n.since) = DateOf(n.at) =>
        n.key.date \in Plan[n.key.id].days

\* A run that ends has notified everything it had to: the configured reminders
\* and the open tasks of its minute, what was overdue and not done, the conditions
\* that held all along; and an event or a baseline row stands beside each alert.
\* The notice has the date the run looked at, or one since: the key of a reminder
\* takes the date anew, so that a run over midnight reminds of the next day, whose
\* own run then finds that notice.
Tells(n, k) ==
    /\ n.key.kind = k.kind /\ n.key.id = k.id
    /\ k.date # None => n.key.date \in k.date .. Today
RunTells ==
    [][\A j \in Jobs : proc[j] # None /\ proc'[j] = None =>
        \A k \in proc[j].owed :
            /\ k.id \in Silent \/ \E n \in notices : Tells(n, k)
            /\ k.kind = "alert" => k.id \in proc[j].logged]_vars

\* care_jobs.cpp: overdue is "past scheduled_time + 15 min grace".
OverdueAfterGrace ==
    \A n \in ever :
        n.key.kind \in {"feed", "overdue"} /\ Plan[n.key.id].deadline = None =>
            Plan[n.key.id].time + Grace <= n.at % Day
=============================================================================
