---------------------------- MODULE HealthMonitor ----------------------------
(***************************************************************************)
(* The health_monitoring_node: a tick thread that watches ages and a       *)
(* subscriber thread that records what the MCU publishes, on the same      *)
(* fields and with no mutex.  An INSERT takes time, so that a thread may   *)
(* be overtaken between a test, the row it writes and the flag it sets.    *)
(*                                                                         *)
(* Times are in ticks; 0 is "never", and Boot is later than every          *)
(* interval.  Elapsed times are uint64: they wrap at Wrap.                 *)
(***************************************************************************)
EXTENDS Integers

CONSTANTS
    HbTimeout,         (* 3 s without a beat, or without a new number       *)
    PumpTimeout,       (* WATER_PUMP_HEALTH_TIMEOUT_MS                      *)
    BatteryInterval,   (* BATTERY_SNAPSHOT_INTERVAL_MS                      *)
    ConnInterval,      (* 5 s                                               *)
    LowLevel,          (* BATTERY_LOW_THRESHOLD                             *)
    ChangeThreshold,   (* BATTERY_CHANGE_THRESHOLD                          *)
    Seqs,              (* heartbeat numbers                                 *)
    Levels,            (* battery levels                                    *)
    Statuses,          (* connectivity                                      *)
    Unset,             (* an empty connectivity                             *)
    Publishing,        (* sets of topics that the input layer may publish   *)
    Wrap,              (* 2^64                                              *)
    Boot, MaxClock     (* the clock's first value and its bound             *)

Topics == {"heartbeat", "battery", "connectivity", "pump", "bowl"}
Full == 1
PumpStates == {"running", "idle"}

ASSUME HealthAssumption ==
    /\ {HbTimeout, PumpTimeout, BatteryInterval, ConnInterval} \subseteq Nat \ {0}
    /\ LowLevel \in Nat /\ ChangeThreshold \in Nat \ {0}
    /\ Seqs \subseteq Nat /\ Levels \subseteq Nat
    /\ Unset \notin Statuses
    /\ Publishing \subseteq SUBSET Topics
    /\ Boot \in Nat /\ MaxClock \in Nat /\ Boot <= MaxClock
    /\ \A i \in {HbTimeout, PumpTimeout, BatteryInterval, ConnInterval} : i <= Boot
    /\ Wrap \in Nat /\ Wrap > 2 * MaxClock

Messages(ts) ==
    [topic : {"heartbeat"} \cap ts, value : Seqs]
    \cup [topic : {"battery"} \cap ts, value : Levels]
    \cup [topic : {"connectivity"} \cap ts, value : Statuses]
    \cup [topic : {"pump"} \cap ts, value : PumpStates]
    \cup [topic : {"bowl"} \cap ts, value : {0, Full}]

\* The fields of the two threads and of HealthMonitor.
TickThread ==
    [at : {"sleep", "heartbeat", "alarm", "alarmed", "battery", "low", "lowered", "snapshot",
           "connectivity", "status", "stated", "pump", "fail", "failed"},
     now : Nat, row : Statuses \cup {Unset}]
Heartbeat == [arrival : Nat, change : Nat, seq : Nat, stale : BOOLEAN]
Battery == [level : Int, emit : Nat, low : BOOLEAN]
Connectivity == [status : Statuses \cup {Unset}, emit : Nat]
Pump ==
    [state : PumpStates \cup {"unknown"}, running : BOOLEAN, start : Nat, damage : BOOLEAN,
     bowl : {0, Full}]

\* The rows about one episode, an outage or a run: how many, whether one was
\* written before the flag of the last episode was cleared, whether one was
\* written since, of this episode, and whether the flag is set, or about to be,
\* by an alarm that was not about this episode.
Reports == [n : Nat, early : BOOLEAN, told : BOOLEAN, stray : BOOLEAN]
Rows ==
    [outage : Reports, run : Reports, lows : Nat, status : Statuses \cup {Unset}]

VARIABLES
    clock,
    topics,    (* what is published, the same all along                     *)
    tick,      (* the tick thread: place, current_time, a row's status      *)
    sub,       (* the subscriber thread: place, now, the last message       *)
    hb,        (* last_hb_arrival_time, _change_time, _seq, hb_stale        *)
    battery,   (* last_battery_level, _emit, battery_low_event_logged       *)
    conn,      (* last_connectivity_status, _emit                           *)
    pump,      (* last_pump_state, is_pump_running, .., last_bowl_level     *)
    rows       (* the signals table: the alarms since the heartbeat last    *)
               (* had a new number, the failures since the pump was last    *)
               (* set running, the low events since the level last became   *)
               (* low, and the last connectivity status                     *)

vars == <<clock, topics, tick, sub, hb, battery, conn, pump, rows>>
data == <<hb, battery, conn, pump, rows>>

Init ==
    /\ clock = Boot
    /\ topics \in Publishing
    /\ tick = [at |-> "sleep", now |-> Boot, row |-> Unset]
    /\ sub = [at |-> "poll", now |-> Boot, msg |-> [topic |-> "none", value |-> 0]]
    /\ hb = [arrival |-> 0, change |-> 0, seq |-> 0, stale |-> FALSE]
    /\ battery = [level |-> -1, emit |-> 0, low |-> FALSE]
    /\ conn = [status |-> Unset, emit |-> 0]
    /\ pump = [state |-> "unknown", running |-> FALSE, start |-> 0, damage |-> FALSE, bowl |-> 0]
    /\ LET none == [n |-> 0, early |-> FALSE, told |-> FALSE, stray |-> FALSE]
       IN rows = [outage |-> none, run |-> none, lows |-> 0, status |-> Unset]

Advance == clock < MaxClock /\ clock' = clock + 1 /\ UNCHANGED <<topics, tick, sub, data>>

\* current_time_ms - since, in uint64: what was written after current_time was
\* read is an age ago.
Elapsed(now, since) == (now - since) % Wrap

\* The reports of an episode that begins, whose flag is cleared while the tick
\* thread's alarm is or is not on its way, whose test has come out, and that has
\* a row more.
Begun(r) == [r EXCEPT !.n = 0, !.early = FALSE]
Cleared(r, onItsWay) == [n |-> r.n, early |-> r.n > 0, told |-> FALSE, stray |-> onItsWay]
Tested(r, real) == [r EXCEPT !.stray = ~real]
Written(r) == [n |-> r.n + 1, early |-> r.early, told |-> ~r.stray, stray |-> r.stray]

-----------------------------------------------------------------------------
(* The tick thread. *)

GoTick(from, to) == tick.at = from /\ tick' = [tick EXCEPT !.at = to]
TickFrame == UNCHANGED <<clock, topics, sub>>

Wake ==
    /\ tick.at = "sleep"
    /\ tick' = [tick EXCEPT !.at = "heartbeat", !.now = clock]
    /\ TickFrame /\ UNCHANGED data

Silent == Elapsed(tick.now, hb.arrival) >= HbTimeout
Stagnant == Elapsed(tick.now, hb.change) >= HbTimeout


HbMissed == hb.arrival > 0 /\ (Silent \/ Stagnant) /\ ~hb.stale

\* The beats stopped, or their number did.
Quiet ==
    /\ hb.arrival > 0
    /\ clock - hb.arrival >= HbTimeout \/ clock - hb.change >= HbTimeout

HbCheck ==
    /\ GoTick("heartbeat", IF HbMissed THEN "alarm" ELSE "battery")
    /\ rows' = IF HbMissed THEN [rows EXCEPT !.outage = Tested(@, Quiet)] ELSE rows
    /\ TickFrame /\ UNCHANGED <<hb, battery, conn, pump>>

\* The device_heartbeat_missed_event row, then hb_stale.
HbAlarm ==
    /\ GoTick("alarm", "alarmed")
    /\ rows' = [rows EXCEPT !.outage = Written(@)]
    /\ TickFrame /\ UNCHANGED <<hb, battery, conn, pump>>

\* Mutant: the alarm is raised on every tick.
HbMark_Forget ==
    /\ GoTick("alarmed", "battery")
    /\ TickFrame /\ UNCHANGED data

HbMark ==
    /\ GoTick("alarmed", "battery")
    /\ hb' = [hb EXCEPT !.stale = TRUE]
    /\ TickFrame /\ UNCHANGED <<battery, conn, pump, rows>>

\* A low level is reported once; a good one ends the episode and is repeated
\* every BatteryInterval.
IsLow == battery.level >= 0 /\ battery.level < LowLevel
IsWell == battery.level >= LowLevel

BatteryCheck ==
    /\ GoTick("battery",
              IF IsLow /\ ~battery.low THEN "low"
              ELSE IF IsWell /\ Elapsed(tick.now, battery.emit) >= BatteryInterval
              THEN "snapshot" ELSE "connectivity")
    /\ battery' = IF IsWell THEN [battery EXCEPT !.low = FALSE] ELSE battery
    /\ TickFrame /\ UNCHANGED <<hb, conn, pump, rows>>

BatteryLow ==
    /\ GoTick("low", "lowered")
    /\ rows' = [rows EXCEPT !.lows = @ + 1]
    /\ TickFrame /\ UNCHANGED <<hb, battery, conn, pump>>

BatteryMark ==
    /\ GoTick("lowered", "connectivity")
    /\ battery' = [battery EXCEPT !.emit = tick.now, !.low = TRUE]
    /\ TickFrame /\ UNCHANGED <<hb, conn, pump, rows>>

BatterySnapshot ==
    /\ GoTick("snapshot", "connectivity")
    /\ battery' = [battery EXCEPT !.emit = tick.now]
    /\ TickFrame /\ UNCHANGED <<hb, conn, pump, rows>>

\* update_device_connectivity_status writes a new status, or an old row again.
ConnDue(status, now) == status # conn.status \/ now >= conn.emit + ConnInterval

\* tick calls it with the cached status itself.
ConnCheck ==
    /\ tick.at = "connectivity"
    /\ LET due == /\ conn.status # Unset
                  /\ Elapsed(tick.now, conn.emit) >= ConnInterval
                  /\ ConnDue(conn.status, tick.now)
       IN tick' = [tick EXCEPT !.at = IF due THEN "status" ELSE "pump",
                               !.row = IF due THEN conn.status ELSE @]
    /\ TickFrame /\ UNCHANGED data

ConnRow ==
    /\ GoTick("status", "stated")
    /\ rows' = [rows EXCEPT !.status = tick.row]
    /\ TickFrame /\ UNCHANGED <<hb, battery, conn, pump>>

\* Mutant: the status is passed by value, and cached again.
ConnMark_ByValue ==
    /\ GoTick("stated", "pump")
    /\ conn' = [status |-> tick.row, emit |-> tick.now]
    /\ TickFrame /\ UNCHANGED <<hb, battery, pump, rows>>

\* The status is the cached one, by reference: assigning it changes nothing.
ConnMark ==
    /\ GoTick("stated", "pump")
    /\ conn' = [conn EXCEPT !.emit = tick.now]
    /\ TickFrame /\ UNCHANGED <<hb, battery, pump, rows>>

RanDry ==
    /\ pump.running /\ ~pump.damage
    /\ Elapsed(tick.now, pump.start) >= PumpTimeout
    /\ pump.bowl # Full

RunsDry ==
    pump.running /\ pump.bowl # Full /\ clock - pump.start >= PumpTimeout

PumpCheck ==
    /\ GoTick("pump", IF RanDry THEN "fail" ELSE "sleep")
    /\ rows' = IF RanDry THEN [rows EXCEPT !.run = Tested(@, RunsDry)] ELSE rows
    /\ TickFrame /\ UNCHANGED <<hb, battery, conn, pump>>

\* The "failed" row, then pump_damage_reported.
PumpFail ==
    /\ GoTick("fail", "failed")
    /\ rows' = [rows EXCEPT !.run = Written(@)]
    /\ TickFrame /\ UNCHANGED <<hb, battery, conn, pump>>

PumpMark ==
    /\ GoTick("failed", "sleep")
    /\ pump' = [pump EXCEPT !.damage = TRUE]
    /\ TickFrame /\ UNCHANGED <<hb, battery, conn, rows>>

TickStep ==
    \/ Wake \/ HbCheck \/ HbAlarm \/ HbMark
    \/ BatteryCheck \/ BatteryLow \/ BatteryMark \/ BatterySnapshot
    \/ ConnCheck \/ ConnRow \/ ConnMark
    \/ PumpCheck \/ PumpFail \/ PumpMark

-----------------------------------------------------------------------------
(* The subscriber thread. *)

GoSub(from, to) == sub.at = from /\ sub' = [sub EXCEPT !.at = to]
SubFrame == UNCHANGED <<clock, topics, tick>>
Value == sub.msg.value

\* dispatch_topic reads the clock before the message is looked at.
Receive ==
    /\ sub.at = "poll"
    /\ \E m \in Messages(topics) : sub' = [at |-> m.topic, now |-> clock, msg |-> m]
    /\ SubFrame /\ UNCHANGED data

\* update_device_heartbeat: the arrival; a new number and its time; the end of
\* an outage.
BeatArrive ==
    /\ GoSub("heartbeat", IF Value # hb.seq THEN "new" ELSE "poll")
    /\ hb' = [hb EXCEPT !.arrival = sub.now]
    /\ SubFrame /\ UNCHANGED <<battery, conn, pump, rows>>

BeatChange ==
    /\ GoSub("new", "recover")
    /\ hb' = [hb EXCEPT !.seq = Value, !.change = sub.now]
    /\ rows' = [rows EXCEPT !.outage = Begun(@)]
    /\ SubFrame /\ UNCHANGED <<battery, conn, pump>>

BeatRecover ==
    /\ GoSub("recover", "poll")
    /\ hb' = [hb EXCEPT !.stale = FALSE]
    /\ rows' = [rows EXCEPT !.outage = Cleared(@, tick.at \in {"alarm", "alarmed"})]
    /\ SubFrame /\ UNCHANGED <<battery, conn, pump>>

\* update_battery_level: a level is cached only when its row is due.
Distance(a, b) == IF a >= b THEN a - b ELSE b - a

\* Mutant: the first level is taken for a small change.
LevelDue_NoFirst ==
    \/ Elapsed(sub.now, battery.emit) >= BatteryInterval /\ battery.emit > 0
    \/ battery.level >= 0 /\ Distance(Value, battery.level) >= ChangeThreshold

LevelDue ==
    \/ Elapsed(sub.now, battery.emit) >= BatteryInterval
    \/ battery.level < 0
    \/ Distance(Value, battery.level) >= ChangeThreshold

LevelCheck ==
    /\ GoSub("battery", IF LevelDue THEN "level" ELSE "poll")
    /\ SubFrame /\ UNCHANGED data

LevelCache ==
    /\ GoSub("level", "poll")
    /\ battery' = [battery EXCEPT !.level = Value, !.emit = sub.now]
    /\ rows' = IF ~IsLow /\ Value < LowLevel THEN [rows EXCEPT !.lows = 0] ELSE rows
    /\ SubFrame /\ UNCHANGED <<hb, conn, pump>>

\* update_device_connectivity_status for a message.
StatusCheck ==
    /\ GoSub("connectivity", IF ConnDue(Value, sub.now) THEN "status" ELSE "poll")
    /\ SubFrame /\ UNCHANGED data

StatusRow ==
    /\ GoSub("status", "stated")
    /\ rows' = [rows EXCEPT !.status = Value]
    /\ SubFrame /\ UNCHANGED <<hb, battery, conn, pump>>

StatusCache ==
    /\ GoSub("stated", "poll")
    /\ conn' = [status |-> Value, emit |-> sub.now]
    /\ SubFrame /\ UNCHANGED <<hb, battery, pump, rows>>

\* update_water_pump_state: the water_fountain_status row of a change, then a
\* start or a stop.
PumpChange ==
    /\ GoSub("pump", IF Value = pump.state THEN "poll"
                     ELSE IF Value = "running" THEN "start" ELSE "stop")
    /\ SubFrame /\ UNCHANGED data

PumpOn ==
    /\ GoSub("start", "started")
    /\ pump' = [pump EXCEPT !.running = TRUE]
    /\ rows' = [rows EXCEPT !.run = Begun(@)]
    /\ SubFrame /\ UNCHANGED <<hb, battery, conn>>

PumpStart ==
    /\ GoSub("started", "poll")
    /\ pump' = [pump EXCEPT !.start = sub.now, !.damage = FALSE, !.state = "running"]
    /\ rows' = [rows EXCEPT !.run = Cleared(@, tick.at \in {"fail", "failed"})]
    /\ SubFrame /\ UNCHANGED <<hb, battery, conn>>

\* A stop may write a "healthy" row, which is not modelled, and takes its time.
PumpOff ==
    /\ GoSub("stop", "stopped")
    /\ pump' = [pump EXCEPT !.running = FALSE]
    /\ SubFrame /\ UNCHANGED <<hb, battery, conn, rows>>

PumpStop ==
    /\ GoSub("stopped", "poll")
    /\ pump' = [pump EXCEPT !.state = "idle"]
    /\ SubFrame /\ UNCHANGED <<hb, battery, conn, rows>>

BowlLevel ==
    /\ GoSub("bowl", "poll")
    /\ pump' = [pump EXCEPT !.bowl = Value]
    /\ SubFrame /\ UNCHANGED <<hb, battery, conn, rows>>

SubStep ==
    \/ BeatArrive \/ BeatChange \/ BeatRecover
    \/ LevelCheck \/ LevelCache
    \/ StatusCheck \/ StatusRow \/ StatusCache
    \/ PumpChange \/ PumpOn \/ PumpStart \/ PumpOff \/ PumpStop
    \/ BowlLevel

-----------------------------------------------------------------------------
Next == Advance \/ TickStep \/ Receive \/ SubStep

Spec == Init /\ [][Next]_vars

\* Both threads keep running; nothing is assumed of the MCU or of the clock.
FairSpec == Spec /\ WF_vars(TickStep) /\ WF_vars(SubStep)

-----------------------------------------------------------------------------
(* Properties. *)

\* No kept time is later than the clock.
NothingAhead ==
    /\ tick.now <= clock /\ sub.now <= clock
    /\ hb.arrival <= clock /\ hb.change <= clock
    /\ battery.emit <= clock /\ conn.emit <= clock /\ pump.start <= clock

TypeOK ==
    /\ clock \in Boot .. MaxClock
    /\ topics \in Publishing
    /\ tick \in TickThread
    /\ sub.at \in {"poll", "new", "recover", "level", "status", "stated", "start", "started",
                   "stop", "stopped"} \cup Topics
    /\ hb \in Heartbeat /\ battery \in Battery /\ conn \in Connectivity /\ pump \in Pump
    /\ rows \in Rows
    /\ sub.now \in Nat
    /\ NothingAhead

\* However the threads overtake each other between a test, a row and a flag, a
\* low battery is reported at most once, and an outage of the heartbeat or a run
\* of the pump at most once too, unless its first row was written between the two
\* stores of the subscriber that begin it: the new number or the running flag,
\* and, after it, the flag cleared. Then a second row, but no third, may follow.
ReportedOnce ==
    /\ rows.lows <= 1
    /\ \A r \in {rows.outage, rows.run} : r.n <= (IF r.early THEN 2 ELSE 1)

\* A quiet MCU gets a row of its own, unless it is heard again first or the flag
\* is a stray one: set, too late, by an alarm about the outage before or by one
\* raised because the beat was recorded later than the tick's clock was read.
SilenceReported == Quiet ~> (rows.outage.told \/ rows.outage.stray \/ ~Quiet)

\* So does a pump that runs longer than PumpTimeout into a bowl that is not full.
DryRunReported == RunsDry ~> (rows.run.told \/ rows.run.stray \/ ~RunsDry)


\* A battery reported ChangeThreshold below LowLevel or less is reported low,
\* although a level is cached only with its row and the tick thread keeps
\* resetting the timer that would make one due.
LowNoticed ==
    \A l \in Levels :
        LET Reported == sub.msg = [topic |-> "battery", value |-> l]
        IN (l <= LowLevel - ChangeThreshold /\ Reported) ~> (battery.low \/ ~Reported)

\* The tick thread repeats the connectivity row while the subscriber replaces
\* the status: the repeated row may be the old one, but the status kept for the
\* next is the one last reported.
StatusKept ==
    sub.at = "poll" /\ sub.msg.topic = "connectivity" => conn.status = sub.msg.value
=============================================================================
