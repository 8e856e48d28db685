------------------------ MODULE HealthMonitorProofs ------------------------
(* The health monitor's invariants, for all timeouts, levels and messages. *)
EXTENDS HealthMonitor, TLAPS

\* What the subscriber holds while it works on a message.
SubTyped ==
    /\ sub.at \in {"heartbeat", "new", "recover"} => Value \in Seqs
    /\ sub.at \in {"battery", "level"} => Value \in Levels
    /\ sub.at \in {"connectivity", "status", "stated"} => Value \in Statuses
    /\ sub.at \in {"bowl"} => Value \in {0, Full}

\* ReportedOnce, in the form the proof uses.
Counted(r) == r.n <= (IF r.early THEN 2 ELSE 1)
Counting == rows.lows <= 1 /\ Counted(rows.outage) /\ Counted(rows.run)

\* No row since the flag was cleared: none at all, or one of before.
Unreported(r) == r.n = 0 \/ (r.n = 1 /\ r.early)

\* A row has set its flag, or is about to, until the flag is cleared; none has
\* been written since then while one is about to be; and no row counts as early
\* before the flag is cleared.
OutageFlagged ==
    /\ hb.stale \/ tick.at = "alarmed" \/ Unreported(rows.outage)
    /\ tick.at = "alarm" => Unreported(rows.outage)
    /\ sub.at = "recover" => ~rows.outage.early
RunFlagged ==
    /\ pump.damage \/ tick.at = "failed" \/ Unreported(rows.run)
    /\ tick.at = "fail" => Unreported(rows.run)
    /\ sub.at = "started" => ~rows.run.early
LowFlagged ==
    /\ rows.lows = 1 /\ IsLow => battery.low \/ tick.at = "lowered"
    /\ tick.at = "low" => rows.lows = 0

RowsFlagged == OutageFlagged /\ RunFlagged /\ LowFlagged

SubHolds ==
    /\ sub = [at |-> sub.at, now |-> sub.now, msg |-> sub.msg]
    /\ SubTyped

Inv == TypeOK /\ SubHolds /\ Counting /\ RowsFlagged

-----------------------------------------------------------------------------
\* What a received message holds.
LEMMA MessageTyped ==
    ASSUME NEW m \in Messages(topics)
    PROVE  /\ m.topic \in Topics
           /\ m.topic = "heartbeat" => m.value \in Seqs
           /\ m.topic = "battery" => m.value \in Levels
           /\ m.topic = "connectivity" => m.value \in Statuses
           /\ m.topic = "bowl" => m.value \in {0, Full}
BY DEF Messages, Topics

\* What the ghosts of an episode's rows become.
LEMMA ReportSteps ==
    ASSUME NEW r \in Reports, NEW b \in BOOLEAN
    PROVE  /\ r.n \in Nat /\ r.early \in BOOLEAN
           /\ Begun(r) \in Reports /\ Begun(r).n = 0 /\ ~Begun(r).early
           /\ Cleared(r, b) \in Reports /\ Cleared(r, b).n = r.n
           /\ Cleared(r, b).early = (r.n > 0)
           /\ Tested(r, b) \in Reports /\ Tested(r, b).n = r.n
           /\ Tested(r, b).early = r.early
           /\ Written(r) \in Reports /\ Written(r).n = r.n + 1
           /\ Written(r).early = r.early
<1>2. r.n \in Nat /\ r.early \in BOOLEAN /\ r.told \in BOOLEAN /\ r.stray \in BOOLEAN
  BY DEF Reports
<1>3. Begun(r) \in Reports /\ Begun(r).n = 0 /\ ~Begun(r).early
  BY <1>2 DEF Reports, Begun
<1>4. /\ Cleared(r, b) \in Reports /\ Cleared(r, b).n = r.n
      /\ Cleared(r, b).early = (r.n > 0)
  BY <1>2 DEF Reports, Cleared
<1>5. /\ Tested(r, b) \in Reports /\ Tested(r, b).n = r.n
      /\ Tested(r, b).early = r.early
  BY <1>2 DEF Reports, Tested
<1>6. /\ Written(r) \in Reports /\ Written(r).n = r.n + 1
      /\ Written(r).early = r.early
  BY <1>2 DEF Reports, Written
<1>7. QED
  BY <1>2, <1>3, <1>4, <1>5, <1>6

\* The initial state satisfies the invariant.
LEMMA InitInv == Init => Inv
<1> SUFFICES ASSUME Init PROVE Inv
  OBVIOUS
<1>1. /\ rows \in Rows /\ rows.lows = 0
      /\ rows.outage.n = 0 /\ rows.run.n = 0
  BY DEF Init, Rows, Reports
<1>2. TypeOK /\ SubHolds
  BY <1>1, HealthAssumption
     DEF Init, TypeOK, NothingAhead, SubHolds, SubTyped, Topics, PumpStates, Full, TickThread,
         Heartbeat, Battery, Connectivity, Pump
<1>3. rows.outage.early \in BOOLEAN /\ rows.run.early \in BOOLEAN
  BY <1>1 DEF Rows, Reports
<1>4. Counting
  BY <1>1, <1>3 DEF Counting, Counted
<1>5. RowsFlagged
  BY <1>1 DEF Init, RowsFlagged, OutageFlagged, RunFlagged, LowFlagged, Unreported
<1>6. QED
  BY <1>2, <1>4, <1>5 DEF Inv

\* A step of the tick thread keeps the types.
LEMMA TickTypes == Inv /\ TickStep => TypeOK'
<1> SUFFICES ASSUME Inv, TickStep PROVE TypeOK'
  OBVIOUS
<1> USE HealthAssumption
    DEF Inv, TypeOK, NothingAhead, TickFrame, GoTick, data, TickThread, Heartbeat, Battery, Connectivity, Pump, Rows
<1>1. CASE Wake
  <2>1. clock \in Nat
    OBVIOUS
  <2>2. tick' \in TickThread /\ tick'.now = clock
    BY <1>1, <2>1 DEF Wake
  <2> QED
    BY <1>1, <2>2 DEF Wake
<1>2. CASE HbCheck
  <2>1. tick' \in TickThread /\ tick'.now = tick.now
    BY <1>2 DEF HbCheck
  <2>2. rows.outage \in Reports /\ Quiet \in BOOLEAN
    BY DEF Quiet
  <2>3. Tested(rows.outage, Quiet) \in Reports
    BY <2>2, ReportSteps
  <2>4. rows' \in Rows
    BY <1>2, <2>3 DEF HbCheck
  <2> QED
    BY <1>2, <2>1, <2>4 DEF HbCheck
<1>3. CASE HbAlarm
  <2>1. tick' \in TickThread /\ tick'.now = tick.now
    BY <1>3 DEF HbAlarm
  <2>2. Written(rows.outage) \in Reports
    BY ReportSteps
  <2>3. rows' \in Rows
    BY <1>3, <2>2 DEF HbAlarm
  <2> QED
    BY <1>3, <2>1, <2>3 DEF HbAlarm
<1>4. CASE HbMark
  <2>1. tick' \in TickThread /\ tick'.now = tick.now
    BY <1>4 DEF HbMark
  <2>2. hb' \in Heartbeat /\ hb'.arrival = hb.arrival /\ hb'.change = hb.change
    BY <1>4 DEF HbMark
  <2> QED
    BY <1>4, <2>1, <2>2 DEF HbMark
<1>5. CASE BatteryCheck
  <2>1. tick' \in TickThread /\ tick'.now = tick.now
    BY <1>5 DEF BatteryCheck
  <2>2. battery' \in Battery /\ battery'.emit = battery.emit
    BY <1>5 DEF BatteryCheck
  <2> QED
    BY <1>5, <2>1, <2>2 DEF BatteryCheck
<1>6. CASE BatteryLow
  <2>1. tick' \in TickThread /\ tick'.now = tick.now
    BY <1>6 DEF BatteryLow
  <2>2. rows' \in Rows
    BY <1>6 DEF BatteryLow
  <2> QED
    BY <1>6, <2>1, <2>2 DEF BatteryLow
<1>7. CASE BatteryMark
  <2>1. tick' \in TickThread /\ tick'.now = tick.now
    BY <1>7 DEF BatteryMark
  <2>2. battery' \in Battery /\ battery'.emit = tick.now
    BY <1>7 DEF BatteryMark
  <2> QED
    BY <1>7, <2>1, <2>2 DEF BatteryMark
<1>8. CASE BatterySnapshot
  <2>1. tick' \in TickThread /\ tick'.now = tick.now
    BY <1>8 DEF BatterySnapshot
  <2>2. battery' \in Battery /\ battery'.emit = tick.now
    BY <1>8 DEF BatterySnapshot
  <2> QED
    BY <1>8, <2>1, <2>2 DEF BatterySnapshot
<1>9. CASE ConnCheck
  <2>1. tick' \in TickThread /\ tick'.now = tick.now
    BY <1>9 DEF ConnCheck
  <2> QED
    BY <1>9, <2>1 DEF ConnCheck
<1>10. CASE ConnRow
  <2>1. tick' \in TickThread /\ tick'.now = tick.now
    BY <1>10 DEF ConnRow
  <2>2. rows' \in Rows
    BY <1>10 DEF ConnRow
  <2> QED
    BY <1>10, <2>1, <2>2 DEF ConnRow
<1>11. CASE ConnMark
  <2>1. tick' \in TickThread /\ tick'.now = tick.now
    BY <1>11 DEF ConnMark
  <2>2. conn' \in Connectivity /\ conn'.emit = tick.now
    BY <1>11 DEF ConnMark
  <2> QED
    BY <1>11, <2>1, <2>2 DEF ConnMark
<1>12. CASE PumpCheck
  <2>1. tick' \in TickThread /\ tick'.now = tick.now
    BY <1>12 DEF PumpCheck
  <2>2. rows.run \in Reports /\ RunsDry \in BOOLEAN
    BY DEF RunsDry
  <2>3. Tested(rows.run, RunsDry) \in Reports
    BY <2>2, ReportSteps
  <2>4. rows' \in Rows
    BY <1>12, <2>3 DEF PumpCheck
  <2> QED
    BY <1>12, <2>1, <2>4 DEF PumpCheck
<1>13. CASE PumpFail
  <2>1. tick' \in TickThread /\ tick'.now = tick.now
    BY <1>13 DEF PumpFail
  <2>2. Written(rows.run) \in Reports
    BY ReportSteps
  <2>3. rows' \in Rows
    BY <1>13, <2>2 DEF PumpFail
  <2> QED
    BY <1>13, <2>1, <2>3 DEF PumpFail
<1>14. CASE PumpMark
  <2>1. tick' \in TickThread /\ tick'.now = tick.now
    BY <1>14 DEF PumpMark
  <2>2. pump' \in Pump /\ pump'.start = pump.start
    BY <1>14 DEF PumpMark
  <2> QED
    BY <1>14, <2>1, <2>2 DEF PumpMark
<1>15. QED
  BY <1>1, <1>2, <1>3, <1>4, <1>5, <1>6, <1>7, <1>8, <1>9, <1>10, <1>11, <1>12, <1>13, <1>14
     DEF TickStep

\* A step of the tick thread writes a row of an episode that has none since its
\* flag was cleared, and sets the flag next.
LEMMA TickRows == Inv /\ TickStep => SubHolds' /\ Counting' /\ RowsFlagged'
<1> SUFFICES ASSUME Inv, TickStep PROVE SubHolds' /\ Counting' /\ RowsFlagged'
  OBVIOUS
<1>a. SubHolds'
  BY DEF Inv, SubHolds, SubTyped, Value, TickStep, TickFrame, Wake, HbCheck, HbAlarm, HbMark,
     BatteryCheck, BatteryLow, BatteryMark, BatterySnapshot, ConnCheck, ConnRow, ConnMark,
     PumpCheck, PumpFail, PumpMark
<1>b. rows.outage \in Reports /\ rows.run \in Reports
  BY DEF Inv, TypeOK, Rows
<1>c. /\ rows.outage.n \in Nat /\ rows.outage.early \in BOOLEAN
      /\ rows.run.n \in Nat /\ rows.run.early \in BOOLEAN
  BY <1>b, ReportSteps
<1> USE <1>c DEF Inv, TypeOK, Counting, Counted, RowsFlagged, OutageFlagged, RunFlagged, LowFlagged,
        Unreported, IsLow, TickFrame, GoTick, data, TickThread, Heartbeat, Battery,
        Connectivity, Pump, Rows
<1>1. CASE Wake BY <1>a, <1>1 DEF Wake
<1>2. CASE HbCheck
  <2>1. Quiet \in BOOLEAN
    BY DEF Quiet
  <2>2. /\ rows'.outage.n = rows.outage.n /\ rows'.outage.early = rows.outage.early
        /\ rows'.run = rows.run /\ rows'.lows = rows.lows
    BY <1>b, <1>2, <2>1, ReportSteps DEF HbCheck
  <2>3. QED
    BY <1>a, <1>2, <2>2 DEF HbCheck, HbMissed
<1>3. CASE HbAlarm
  <2>1. /\ rows'.outage.n = rows.outage.n + 1 /\ rows'.outage.early = rows.outage.early
        /\ rows'.run = rows.run /\ rows'.lows = rows.lows
    BY <1>b, <1>3, ReportSteps DEF HbAlarm
  <2>2. QED
    BY <1>a, <1>3, <2>1 DEF HbAlarm
<1>4. CASE HbMark BY <1>a, <1>4 DEF HbMark
<1>5. CASE BatteryCheck
  <2>1. battery'.level = battery.level /\ rows' = rows
    BY <1>5 DEF BatteryCheck
  <2>2. CASE IsWell
    <3>1. battery.level \in Int /\ LowLevel \in Int
      BY HealthAssumption
    <3>2. ~(battery'.level >= 0 /\ battery'.level < LowLevel)
      BY <2>1, <2>2, <3>1 DEF IsWell
    <3>3. tick.at = "battery" /\ tick'.at \in {"snapshot", "connectivity"}
      BY <1>5, <2>2, <3>1 DEF BatteryCheck, IsWell
    <3>4. hb' = hb /\ pump' = pump /\ sub' = sub
      BY <1>5 DEF BatteryCheck
    <3>5. QED
      BY <1>a, <2>1, <3>2, <3>3, <3>4
  <2>3. CASE ~IsWell
    BY <1>a, <1>5, <2>1, <2>3 DEF BatteryCheck
  <2>4. QED
    BY <2>2, <2>3
<1>6. CASE BatteryLow BY <1>a, <1>6 DEF BatteryLow
<1>7. CASE BatteryMark BY <1>a, <1>7 DEF BatteryMark
<1>8. CASE BatterySnapshot BY <1>a, <1>8 DEF BatterySnapshot
<1>9. CASE ConnCheck BY <1>a, <1>9 DEF ConnCheck
<1>10. CASE ConnRow BY <1>a, <1>10 DEF ConnRow
<1>11. CASE ConnMark BY <1>a, <1>11 DEF ConnMark
<1>12. CASE PumpCheck
  <2>1. RunsDry \in BOOLEAN
    BY DEF RunsDry
  <2>2. /\ rows'.run.n = rows.run.n /\ rows'.run.early = rows.run.early
        /\ rows'.outage = rows.outage /\ rows'.lows = rows.lows
    BY <1>b, <1>12, <2>1, ReportSteps DEF PumpCheck
  <2>3. QED
    BY <1>a, <1>12, <2>2 DEF PumpCheck, RanDry
<1>13. CASE PumpFail
  <2>1. /\ rows'.run.n = rows.run.n + 1 /\ rows'.run.early = rows.run.early
        /\ rows'.outage = rows.outage /\ rows'.lows = rows.lows
    BY <1>b, <1>13, ReportSteps DEF PumpFail
  <2>2. QED
    BY <1>a, <1>13, <2>1 DEF PumpFail
<1>14. CASE PumpMark BY <1>a, <1>14 DEF PumpMark
<1>15. QED
  BY <1>1, <1>2, <1>3, <1>4, <1>5, <1>6, <1>7, <1>8, <1>9, <1>10, <1>11, <1>12, <1>13, <1>14
     DEF TickStep

\* The subscriber takes a message.
LEMMA ReceiveInv == Inv /\ Receive => Inv'
<1> SUFFICES ASSUME Inv, Receive PROVE Inv'
  OBVIOUS
<1>1. PICK m \in Messages(topics) : sub' = [at |-> m.topic, now |-> clock, msg |-> m]
  BY DEF Receive
<1>2. TypeOK' /\ SubHolds'
  BY <1>1, MessageTyped, HealthAssumption
     DEF Inv, TypeOK, NothingAhead, Receive, SubFrame, data, SubHolds, SubTyped, Value, Topics
<1>3. Counting' /\ RowsFlagged'
  BY <1>1, MessageTyped
     DEF Inv, Receive, SubFrame, data, Counting, Counted, RowsFlagged, OutageFlagged, RunFlagged,
         LowFlagged, Unreported, IsLow, Topics
<1>4. QED
  BY <1>2, <1>3 DEF Inv

\* The subscriber's place changes within the handling of one message.
LEMMA SubPlaces == Inv /\ SubStep => SubHolds'
<1> SUFFICES ASSUME Inv, SubStep PROVE SubHolds'
  OBVIOUS
<1> USE DEF Inv, SubHolds, SubTyped, Value, GoSub
<1>1. CASE BeatArrive \/ BeatChange \/ BeatRecover BY <1>1 DEF BeatArrive, BeatChange, BeatRecover
<1>2. CASE LevelCheck \/ LevelCache BY <1>2 DEF LevelCheck, LevelCache
<1>3. CASE StatusCheck \/ StatusRow \/ StatusCache BY <1>3 DEF StatusCheck, StatusRow, StatusCache
<1>4. CASE PumpChange \/ PumpOn \/ PumpStart BY <1>4 DEF PumpChange, PumpOn, PumpStart
<1>5. CASE PumpOff \/ PumpStop \/ BowlLevel BY <1>5 DEF PumpOff, PumpStop, BowlLevel
<1>6. QED
  BY <1>1, <1>2, <1>3, <1>4, <1>5 DEF SubStep

\* What the subscriber records is typed, and ends episodes with their rows.
LEMMA SubRecords == Inv /\ SubStep => TypeOK' /\ Counting' /\ RowsFlagged'
<1> SUFFICES ASSUME Inv, SubStep PROVE TypeOK' /\ Counting' /\ RowsFlagged'
  OBVIOUS
<1>a. rows.outage \in Reports /\ rows.run \in Reports
  BY DEF Inv, TypeOK, Rows
<1>b. /\ rows.outage.n \in Nat /\ rows.outage.early \in BOOLEAN
      /\ rows.run.n \in Nat /\ rows.run.early \in BOOLEAN
  BY <1>a, ReportSteps
<1> USE <1>b, HealthAssumption
    DEF Inv, TypeOK, NothingAhead, SubHolds, SubTyped, Value, Counting, Counted, RowsFlagged,
        OutageFlagged, RunFlagged, LowFlagged, Unreported, IsLow, SubFrame, GoSub, data,
        Topics, TickThread, Heartbeat, Battery, Connectivity, Pump, Rows
<1>1. CASE BeatArrive BY <1>1 DEF BeatArrive
<1>2. CASE BeatChange
  <2>1. Value \in Nat
    BY <1>2 DEF BeatChange
  <2>2. /\ hb' \in Heartbeat /\ hb'.change = sub.now
        /\ hb'.arrival = hb.arrival /\ hb'.stale = hb.stale
    BY <1>2, <2>1 DEF BeatChange
  <2>3. sub'.now = sub.now /\ sub'.at = "recover"
    BY <1>2 DEF BeatChange
  <2>4. Begun(rows.outage) \in Reports
    BY <1>a, ReportSteps
  <2>5. /\ rows' \in Rows /\ rows'.outage.n = 0 /\ ~rows'.outage.early
        /\ rows'.run = rows.run /\ rows'.lows = rows.lows
    BY <1>a, <1>2, <2>4, ReportSteps DEF BeatChange
  <2> QED
    BY <1>2, <2>2, <2>3, <2>5 DEF BeatChange
<1>3. CASE BeatRecover
  <2>1. /\ hb' \in Heartbeat /\ ~hb'.stale
        /\ hb'.arrival = hb.arrival /\ hb'.change = hb.change
    BY <1>3 DEF BeatRecover
  <2> DEFINE onItsWay == tick.at \in {"alarm", "alarmed"}
  <2>2. onItsWay \in BOOLEAN
    OBVIOUS
  <2>3. rows' = [rows EXCEPT !.outage = Cleared(rows.outage, onItsWay)]
    BY <1>3 DEF BeatRecover
  <2> HIDE DEF onItsWay
  <2>4. /\ Cleared(rows.outage, onItsWay) \in Reports
        /\ Cleared(rows.outage, onItsWay).n = rows.outage.n
        /\ Cleared(rows.outage, onItsWay).early = (rows.outage.n > 0)
    BY <1>a, <2>2, ReportSteps
  <2>5. /\ rows' \in Rows /\ rows'.outage.n = rows.outage.n
        /\ rows'.outage.early = (rows.outage.n > 0)
        /\ rows'.run = rows.run /\ rows'.lows = rows.lows
    BY <2>3, <2>4
  <2>6. sub'.now = sub.now /\ sub'.at = "poll"
    BY <1>3 DEF BeatRecover
  <2> QED
    BY <1>3, <2>1, <2>5, <2>6 DEF BeatRecover
<1>4. CASE LevelCheck BY <1>4 DEF LevelCheck
<1>5. CASE LevelCache
  <2>1. Value \in Int
    BY <1>5 DEF LevelCache
  <2>2. battery' \in Battery /\ battery'.emit = sub.now /\ battery'.low = battery.low
    BY <1>5, <2>1 DEF LevelCache
  <2>3. sub'.now = sub.now /\ sub'.at = "poll"
    BY <1>5 DEF LevelCache
  <2>4. battery'.level = Value /\ Value >= 0
    BY <1>5 DEF LevelCache
  <2>5. CASE ~IsLow /\ Value < LowLevel
    BY <1>5, <2>2, <2>3, <2>5 DEF LevelCache
  <2>6. CASE ~(~IsLow /\ Value < LowLevel)
    <3>1. rows' = rows
      BY <1>5, <2>6 DEF LevelCache
    <3>2. battery'.level < LowLevel => IsLow
      BY <2>4, <2>6
    <3> QED
      BY <1>5, <2>2, <2>3, <3>1, <3>2 DEF LevelCache
  <2> QED
    BY <2>5, <2>6
<1>6. CASE StatusCheck BY <1>6 DEF StatusCheck
<1>7. CASE StatusRow BY <1>7 DEF StatusRow
<1>8. CASE StatusCache BY <1>8 DEF StatusCache
<1>9. CASE PumpChange BY <1>9 DEF PumpChange
<1>10. CASE PumpOn
  <2>1. pump' \in Pump /\ pump'.damage = pump.damage
    BY <1>10 DEF PumpOn
  <2>2. pump'.start = pump.start
    BY <1>10 DEF PumpOn
  <2>3. sub'.now = sub.now /\ sub'.at # "poll"
    BY <1>10 DEF PumpOn
  <2>4. Begun(rows.run) \in Reports
    BY <1>a, ReportSteps
  <2>5. /\ rows' \in Rows /\ rows'.run.n = 0 /\ ~rows'.run.early
        /\ rows'.outage = rows.outage /\ rows'.lows = rows.lows
    BY <1>a, <1>10, <2>4, ReportSteps DEF PumpOn
  <2> QED
    BY <1>10, <2>1, <2>2, <2>3, <2>5 DEF PumpOn
<1>11. CASE PumpStart
  <2>1. pump' \in Pump /\ pump'.start = sub.now
    BY <1>11 DEF PumpStart, PumpStates
  <2> DEFINE onItsWay == tick.at \in {"fail", "failed"}
  <2>2. onItsWay \in BOOLEAN
    OBVIOUS
  <2>3. rows' = [rows EXCEPT !.run = Cleared(rows.run, onItsWay)]
    BY <1>11 DEF PumpStart
  <2> HIDE DEF onItsWay
  <2>4. /\ Cleared(rows.run, onItsWay) \in Reports
        /\ Cleared(rows.run, onItsWay).n = rows.run.n
        /\ Cleared(rows.run, onItsWay).early = (rows.run.n > 0)
    BY <1>a, <2>2, ReportSteps
  <2>5. /\ rows' \in Rows /\ rows'.run.n = rows.run.n
        /\ rows'.run.early = (rows.run.n > 0)
        /\ rows'.outage = rows.outage /\ rows'.lows = rows.lows
    BY <2>3, <2>4
  <2>6. sub'.now = sub.now /\ sub'.at = "poll"
    BY <1>11 DEF PumpStart
  <2> QED
    BY <1>11, <2>1, <2>5, <2>6 DEF PumpStart
<1>12. CASE PumpOff
  <2>1. pump' \in Pump /\ pump'.start = pump.start /\ pump'.damage = pump.damage
    BY <1>12 DEF PumpOff
  <2>2. sub'.now = sub.now /\ sub'.at = "stopped"
    BY <1>12 DEF PumpOff
  <2> QED
    BY <1>12, <2>1, <2>2 DEF PumpOff
<1>13. CASE PumpStop BY <1>13 DEF PumpStop, PumpStates
<1>14. CASE BowlLevel BY <1>14 DEF BowlLevel
<1>15. QED
  BY <1>1, <1>2, <1>3, <1>4, <1>5, <1>6, <1>7, <1>8, <1>9, <1>10, <1>11, <1>12, <1>13, <1>14
     DEF SubStep

\* The invariant holds in every reachable state.
THEOREM Invariance == Spec => []Inv
<1>1. Inv /\ [Next]_vars => Inv'
  <2> SUFFICES ASSUME Inv, [Next]_vars PROVE Inv'
    OBVIOUS
  <2>1. CASE Advance
    <3>1. TypeOK'
      BY <2>1, HealthAssumption
         DEF Inv, Advance, TypeOK, NothingAhead, data, TickThread, Heartbeat, Battery,
             Connectivity, Pump
    <3>2. SubHolds' /\ Counting' /\ RowsFlagged'
      BY <2>1
         DEF Inv, Advance, SubHolds, SubTyped, Value, Counting, Counted, RowsFlagged,
             OutageFlagged, RunFlagged, LowFlagged, Unreported, IsLow, data
    <3> QED
      BY <3>1, <3>2 DEF Inv
  <2>2. CASE TickStep
    BY <2>2, TickTypes, TickRows DEF Inv
  <2>3. CASE Receive
    BY <2>3, ReceiveInv
  <2>4. CASE SubStep
    BY <2>4, SubPlaces, SubRecords DEF Inv
  <2>5. CASE UNCHANGED vars
    BY <2>5
       DEF Inv, TypeOK, NothingAhead, SubHolds, SubTyped, Value, Counting, Counted, RowsFlagged,
           OutageFlagged, RunFlagged, LowFlagged, Unreported, IsLow, vars
  <2>6. QED
    BY <2>1, <2>2, <2>3, <2>4, <2>5 DEF Next
<1>2. QED
  BY InitInv, <1>1, PTL DEF Spec

\* Every reachable state is well typed.
THEOREM TypeCorrect == Spec => []TypeOK
<1>1. Inv => TypeOK
  BY DEF Inv
<1>2. QED
  BY Invariance, <1>1, PTL

\* Whatever the order of the two threads' steps, a low battery is reported at
\* most once; an outage and a dry run at most twice, and twice only if the first
\* row was written between the two stores that begin the outage or the run.
THEOREM RowsOnce == Spec => []ReportedOnce
<1>1. Inv => ReportedOnce
  BY DEF Inv, Counting, Counted, ReportedOnce
<1>2. QED
  BY Invariance, <1>1, PTL

-----------------------------------------------------------------------------
\* A place within the handling of another topic's message means that the last
\* message was not about the connectivity.
Elsewhere ==
    sub.at \notin {"poll", "connectivity", "status", "stated"} => sub.msg.topic # "connectivity"

\* The tick thread renews only the time of the connectivity row.
LEMMA TickKeeps ==
    ASSUME TypeOK, TickStep
    PROVE  conn'.status = conn.status /\ sub' = sub
<1> USE DEF TypeOK, Connectivity, TickFrame, data
<1>1. CASE Wake \/ HbCheck \/ HbAlarm \/ HbMark
  BY <1>1 DEF Wake, HbCheck, HbAlarm, HbMark
<1>2. CASE BatteryCheck \/ BatteryLow \/ BatteryMark \/ BatterySnapshot
  BY <1>2 DEF BatteryCheck, BatteryLow, BatteryMark, BatterySnapshot
<1>3. CASE ConnCheck \/ ConnRow \/ ConnMark
  BY <1>3 DEF ConnCheck, ConnRow, ConnMark
<1>4. CASE PumpCheck \/ PumpFail \/ PumpMark
  BY <1>4 DEF PumpCheck, PumpFail, PumpMark
<1>5. QED
  BY <1>1, <1>2, <1>3, <1>4 DEF TickStep

\* The subscriber returns to its poll from a connectivity message with that
\* message's status in the cache, and from no other with the cache changed.
LEMMA SubKeeps ==
    ASSUME Inv, StatusKept, Elsewhere, SubStep
    PROVE  StatusKept' /\ Elsewhere'
<1> USE DEF Inv, SubHolds, StatusKept, Elsewhere, Value, GoSub, SubFrame
<1>1. CASE BeatArrive \/ BeatChange \/ BeatRecover
  BY <1>1 DEF BeatArrive, BeatChange, BeatRecover
<1>2. CASE LevelCheck \/ LevelCache
  BY <1>2 DEF LevelCheck, LevelCache, data
<1>3. CASE StatusCheck
  BY <1>3 DEF StatusCheck, ConnDue, data
<1>4. CASE StatusRow
  BY <1>4 DEF StatusRow
<1>5. CASE StatusCache
  BY <1>5 DEF StatusCache
<1>6. CASE PumpChange \/ PumpOn \/ PumpStart
  BY <1>6 DEF PumpChange, PumpOn, PumpStart, data
<1>7. CASE PumpOff \/ PumpStop \/ BowlLevel
  BY <1>7 DEF PumpOff, PumpStop, BowlLevel
<1>8. QED
  BY <1>1, <1>2, <1>3, <1>4, <1>5, <1>6, <1>7 DEF SubStep

\* However often the tick thread repeats the connectivity row while a new
\* status arrives, the cache holds the status last reported: update, called
\* with the cached status itself, never brings an older one back.
THEOREM CachedStatusIsLast == Spec => []StatusKept
<1>1. Init => StatusKept /\ Elsewhere
  BY DEF Init, StatusKept, Elsewhere
<1>2. Inv /\ (StatusKept /\ Elsewhere) /\ [Next]_vars => (StatusKept /\ Elsewhere)'
  <2> SUFFICES ASSUME Inv, StatusKept, Elsewhere, [Next]_vars
               PROVE  StatusKept' /\ Elsewhere'
    OBVIOUS
  <2>1. CASE Advance \/ UNCHANGED vars
    BY <2>1 DEF Advance, vars, data, StatusKept, Elsewhere
  <2>2. CASE TickStep
    BY <2>2, TickKeeps DEF Inv, StatusKept, Elsewhere
  <2>3. CASE Receive
    <3>1. PICK m \in Messages(topics) : sub' = [at |-> m.topic, now |-> clock, msg |-> m]
      BY <2>3 DEF Receive
    <3>2. m.topic \in Topics
      BY MessageTyped
    <3>3. sub'.at = m.topic /\ sub'.msg = m
      BY <3>1
    <3>4. QED
      BY <3>2, <3>3 DEF StatusKept, Elsewhere, Topics
  <2>4. CASE SubStep
    BY <2>4, SubKeeps
  <2>5. QED
    BY <2>1, <2>2, <2>3, <2>4 DEF Next
<1>3. QED
  BY <1>1, <1>2, Invariance, PTL DEF Spec
=============================================================================
