---------------------------- MODULE MealTracker ----------------------------
(***************************************************************************)
(* dog_wellbeing_node's DogWellbeingMonitor: what a scheduled meal's bowl   *)
(* weighs when the meal starts and ends, what the dog ate, and what was     *)
(* served.  The main loop calls tick; the subscriber thread stores the      *)
(* weights; nothing locks what they share, and a crash forgets all of it.   *)
(*                                                                         *)
(* Weights are whole numbers.  A reading carries, beside the weight, how    *)
(* much had been served and eaten in that bowl when the scale took it.      *)
(***************************************************************************)
EXTENDS Integers, Sequences, FiniteSetsExt

CONSTANTS
    Meals,        (* meal_schedules_, and the two bowls' names               *)
    Bowls,
    Schedules,    (* configurations: start, end and bowl of every meal       *)
    NoBowl,
    Day,          (* time from midnight to midnight                          *)
    MinIntake,    (* 5 g: less is a skipped meal                             *)
    ServedStep,   (* 10 g: more is food added                                *)
    Portion,      (* what is added at a time                                 *)
    MaxServed,    (* bound: food served in all                              *)
    MaxClock,     (* bound: time                                             *)
    MaxCrashes,   (* bound: crashes                                          *)
    MaxFaults     (* bound: failed database calls                            *)

ASSUME MealTrackerAssumption ==
    /\ Meals # {} /\ NoBowl \notin Bowls
    /\ Day \in Nat \ {0} /\ MaxClock \in Nat \ {0}
    /\ MinIntake \in Nat /\ ServedStep \in Nat /\ Portion \in Nat
    /\ MaxServed \in Nat /\ MaxCrashes \in Nat /\ MaxFaults \in Nat
    /\ Schedules \subseteq
         [Meals -> [start : 0 .. Day - 1, end : 0 .. Day - 1, bowl : Bowls]]

VARIABLES
    schedule,     (* meal_schedules_: read once                              *)
    clock,        (* system_clock                                            *)
    up,           (* is the process running                                  *)
    state,        (* monitor_state_                                          *)
    active,       (* active_sched_ and its times; start 0: none yet          *)
    initial,      (* initial_weight_at_start_, a reading                     *)
    called,       (* the time tick was called with; 0 when it is not running *)
    reading,      (* bowl_trackers_: the reading behind current_weight       *)
    sub,          (* the reading update_bowl_weight is about to store        *)
    poured,       (* food ever served in a bowl                              *)
    eaten,        (* food ever eaten from a bowl                             *)
    rows,         (* history: food_intake_per_meal and meal_skipped          *)
    totals,       (* history: food_intake_per_day                            *)
    logged,       (* history: sum of a bowl's served_food_quantity           *)
    crashes, faults,
    since,        (* history: when the process started                       *)
    late          (* history: time passed while tick had work to do          *)

worldVars == <<schedule, poured, eaten>>
subVars   == <<reading, sub, logged>>
tickVars  == <<state, active, initial, called, rows, totals, faults>>
lifeVars  == <<up, crashes, since>>
vars == <<clock, late, worldVars, subVars, tickVars, lifeVars>>

Readings  == [weight : Nat, poured : Nat, eaten : Nat]
NoReading == [weight |-> 0, poured |-> 0, eaten |-> 0]
Idle      == [bowl |-> NoBowl, reading |-> NoReading]
NoMeal    == [meal |-> CHOOSE m \in Meals : TRUE, start |-> 0, end |-> 0]

Content(b) == poured[b] - eaten[b]
\* What the scale under bowl b says now.
Weighed(b) == [weight |-> Content(b), poured |-> poured[b], eaten |-> eaten[b]]

ActiveBowl == schedule[active.meal].bowl

Init ==
    /\ schedule \in Schedules
    /\ clock = 1 /\ up = TRUE /\ since = 1 /\ late = FALSE
    /\ state = "WAITING" /\ active = NoMeal /\ initial = NoReading /\ called = 0
    /\ reading = [b \in Bowls |-> NoReading] /\ sub = Idle
    /\ poured = [b \in Bowls |-> 0] /\ eaten = [b \in Bowls |-> 0]
    /\ logged = [b \in Bowls |-> 0]
    /\ rows = <<>> /\ totals = <<>>
    /\ crashes = 0 /\ faults = 0

-----------------------------------------------------------------------------
(* The world: time, the dog and whoever fills the bowls.                    *)

\* The main loop, which looks every 100 ms, would do something now.
TickDue ==
    /\ up
    /\ \/ active.start = 0 \/ called # 0
       \/ state = "WAITING" /\ clock >= active.start
       \/ state = "RECORDING" /\ clock >= active.end

Advance ==
    /\ clock < MaxClock
    /\ clock' = clock + 1
    /\ late' = (late \/ TickDue)
    /\ UNCHANGED <<worldVars, subVars, tickVars, lifeVars>>

Eat(b) ==
    /\ Content(b) > 0
    /\ eaten' = [eaten EXCEPT ![b] = @ + 1]
    /\ UNCHANGED <<clock, late, schedule, poured, subVars, tickVars, lifeVars>>

AllServed == MapThenSumSet(LAMBDA b : poured[b], Bowls)

Serve(b) ==
    /\ AllServed + Portion <= MaxServed
    /\ poured' = [poured EXCEPT ![b] = @ + Portion]
    /\ UNCHANGED <<clock, late, schedule, eaten, subVars, tickVars, lifeVars>>

-----------------------------------------------------------------------------
(* The subscriber thread: update_bowl_weight.                               *)

\* tracker.current_weight = weight_grams.
Stored(old, new) == new

\* Without the 0.0 that stands for "nothing known yet".
FoodAdded_NoFirst(old, new) == new.weight > old.weight + ServedStep
FoodAdded(old, new) == old.weight # 0 /\ new.weight > old.weight + ServedStep

Weigh(b) ==
    /\ up /\ sub = Idle
    /\ ~FoodAdded(reading[b], Weighed(b))
    /\ reading' = [reading EXCEPT ![b] = Stored(@, Weighed(b))]
    /\ UNCHANGED <<sub, logged, clock, late, worldVars, tickVars, lifeVars>>

\* served_food_quantity and food_served_confirmation: two inserts, during
\* which tick may run, before the weight is stored.
LogServed(b) ==
    /\ up /\ sub = Idle
    /\ FoodAdded(reading[b], Weighed(b))
    /\ logged' = [logged EXCEPT ![b] = @ + (Content(b) - reading[b].weight)]
    /\ sub' = [bowl |-> b, reading |-> Weighed(b)]
    /\ UNCHANGED <<reading, clock, late, worldVars, tickVars, lifeVars>>

StoreServed ==
    /\ sub # Idle
    /\ reading' = [reading EXCEPT ![sub.bowl] = Stored(@, sub.reading)]
    /\ sub' = Idle
    /\ UNCHANGED <<logged, clock, late, worldVars, tickVars, lifeVars>>

-----------------------------------------------------------------------------
(* The main loop: tick.                                                     *)

Midnight(t) == t - (t % Day)

\* get_occurrence_ms of every meal, on now's day or the next.
Today(now)    == {[meal |-> m, start |-> Midnight(now) + schedule[m].start] : m \in Meals}
Tomorrow(now) == {[meal |-> m, start |-> Midnight(now) + Day + schedule[m].start] : m \in Meals}

\* A meal that ends before it starts ends the next day.
EndOf(m, start) ==
    Midnight(start) + schedule[m].end
        + (IF schedule[m].end < schedule[m].start THEN Day ELSE 0)

\* find_next_meal: among those of today that start after now, or else those
\* of tomorrow, whatever is going on now.
Upcoming_Running(now) ==
    LET open == {o \in Today(now) : EndOf(o.meal, o.start) >= now}
    IN  IF open # {} THEN open ELSE Tomorrow(now)
Upcoming_Tomorrow(now) == Tomorrow(now)
Upcoming(now) ==
    LET future == {o \in Today(now) : o.start > now}
    IN  IF future # {} THEN future ELSE Tomorrow(now)

InitializeMeal(now) ==
    \E o \in Upcoming(now) :
        /\ \A p \in Upcoming(now) : o.start <= p.start
        /\ active' = [meal |-> o.meal, start |-> o.start, end |-> EndOf(o.meal, o.start)]
        /\ state' = "WAITING"

TickFrame == UNCHANGED <<clock, late, worldVars, subVars, lifeVars>>

FirstMeal ==
    /\ up /\ called = 0 /\ active.start = 0
    /\ InitializeMeal(clock)
    /\ UNCHANGED <<initial, called, rows, totals, faults>> /\ TickFrame

StartMeal ==
    /\ up /\ called = 0 /\ active.start # 0 /\ state = "WAITING"
    /\ clock >= active.start
    /\ state' = "RECORDING"
    /\ initial' = reading[ActiveBowl]
    /\ UNCHANGED <<active, called, rows, totals, faults>> /\ TickFrame

\* A database call may fail: emit_signal does not look, query_double says 0.
Fault(failed) == faults' = faults + (IF failed THEN 1 ELSE 0) /\ faults' <= MaxFaults

Intake_Distance(final) ==
    IF initial.weight > final.weight THEN initial.weight - final.weight
    ELSE final.weight - initial.weight
Intake(final) == initial.weight - final.weight

\* food_intake_per_meal if the amount is over 5 g, else meal_skipped.
EndMeal ==
    /\ up /\ called = 0 /\ active.start # 0 /\ state = "RECORDING"
    /\ clock >= active.end
    /\ called' = clock
    /\ LET final == reading[ActiveBowl] IN
       \E failed \in BOOLEAN :
         /\ Fault(failed)
         /\ rows' = Append(rows,
              [meal |-> active.meal, start |-> active.start, amount |-> Intake(final),
               eaten |-> final.eaten - initial.eaten, stored |-> ~failed])
    /\ UNCHANGED <<state, active, initial, totals>> /\ TickFrame

IsMeal(r) == r.amount > MinIntake
SumOf(I)  == MapThenSumSet(LAMBDA i : rows[i].amount, I)

\* get_daily_food_intake: the stored intakes of meals that began on the day
\* tick was called, other than this one.
Earlier_LastDay ==
    {i \in DOMAIN rows :
        /\ rows[i].stored /\ IsMeal(rows[i])
        /\ rows[i].start > called - Day
        /\ <<rows[i].meal, rows[i].start>> # <<active.meal, active.start>>}
Earlier ==
    {i \in DOMAIN rows :
        /\ rows[i].stored /\ IsMeal(rows[i])
        /\ rows[i].start >= Midnight(called)
        /\ <<rows[i].meal, rows[i].start>> # <<active.meal, active.start>>}

\* food_intake_per_day.
DayTotal ==
    \E failed \in BOOLEAN :
      /\ Fault(failed)
      /\ totals' = Append(totals,
           [date  |-> called \div Day, last |-> Len(rows), summed |-> ~failed,
            total |-> rows[Len(rows)].amount + (IF failed THEN 0 ELSE SumOf(Earlier))])

\* The rest of the tick, with the time it was called with.
FinishMeal ==
    /\ up /\ called # 0
    /\ IF IsMeal(rows[Len(rows)]) THEN DayTotal ELSE UNCHANGED <<totals, faults>>
    /\ InitializeMeal(called)
    /\ called' = 0
    /\ UNCHANGED <<initial, rows>> /\ TickFrame

-----------------------------------------------------------------------------
Crash ==
    /\ up /\ crashes < MaxCrashes
    /\ up' = FALSE /\ crashes' = crashes + 1
    /\ state' = "WAITING" /\ active' = NoMeal /\ initial' = NoReading /\ called' = 0
    /\ reading' = [b \in Bowls |-> NoReading] /\ sub' = Idle
    /\ UNCHANGED <<clock, late, since, worldVars, logged, rows, totals, faults>>

Restart ==
    /\ ~up
    /\ up' = TRUE /\ since' = clock /\ late' = FALSE
    /\ UNCHANGED <<clock, crashes, worldVars, subVars, tickVars>>

Next ==
    \/ Advance \/ Crash \/ Restart
    \/ \E b \in Bowls : Eat(b) \/ Serve(b) \/ Weigh(b) \/ LogServed(b)
    \/ StoreServed
    \/ FirstMeal \/ StartMeal \/ EndMeal \/ FinishMeal

Spec == Init /\ [][Next]_vars

-----------------------------------------------------------------------------
Occurrences == [meal : Meals, start : Nat, end : Nat]
Rows == [meal : Meals, start : Nat, amount : Int, eaten : Int, stored : BOOLEAN]

\* Every variable has its type, and no bowl's stored weight is more than all
\* the food served in it.  (The totals are DayTotalRight's.)
TypeOK ==
    /\ schedule \in Schedules
    /\ clock \in Nat /\ since \in Nat /\ up \in BOOLEAN /\ late \in BOOLEAN
    /\ state \in {"WAITING", "RECORDING"} /\ active \in Occurrences
    /\ initial \in Readings /\ called \in Nat
    /\ reading \in [Bowls -> Readings]
    /\ \A b \in Bowls : reading[b].weight <= poured[b]
    /\ sub = Idle \/ sub \in [bowl : Bowls, reading : Readings]
    /\ poured \in [Bowls -> Nat] /\ eaten \in [Bowls -> Nat] /\ logged \in [Bowls -> Nat]
    /\ rows \in Seq(Rows)
    /\ crashes \in 0 .. MaxCrashes /\ faults \in 0 .. MaxFaults

\* A meal's occurrence gets at most one verdict, eaten or skipped, however
\* late the ticks, however slow the database and whatever crashes: the next
\* meal is looked for after the time at which this one was judged.
OneOutcome ==
    \A i, j \in DOMAIN rows :
        i # j => <<rows[i].meal, rows[i].start>> # <<rows[j].meal, rows[j].start>>

\* The intake of a meal is never more than the dog ate from its bowl between
\* the two readings, whenever the bowl was refilled and whichever reading
\* tick found while the subscriber was inserting its rows.
IntakeTrue == \A i \in DOMAIN rows : rows[i].amount <= rows[i].eaten

\* served_food_quantity rows never add up to more than was served, though a
\* restarted node has forgotten what the bowl already held.
ServedNotInflated == \A b \in Bowls : logged[b] <= poured[b]

\* Between two meals, around midnight included, there is time for a tick.
Gapped ==
    \A m, n \in Meals, d \in {0, Day} :
        LET s == schedule[m].start
            t == schedule[n].start + d
        IN  /\ s < t => EndOf(m, s) < t
            /\ s = t => m = n

\* When ticks keep up with the clock, every meal that began after the node
\* started and is over has its verdict.
ScheduleFollowed ==
    (up /\ ~late /\ Gapped) =>
        \A m \in Meals, d \in 0 .. clock \div Day :
            LET s == d * Day + schedule[m].start IN
            since < s /\ EndOf(m, s) < clock =>
                \E i \in DOMAIN rows : rows[i].meal = m /\ rows[i].start = s

\* The meals, stored or not, that began on a day and were judged before row n.
EatenBefore(date, n) == {i \in 1 .. n - 1 : IsMeal(rows[i]) /\ rows[i].start \div Day = date}

\* A day's total is the meal just over and the meals before it that began that
\* day. It is never more, and it is less only if the sum failed or the row of one
\* of these meals was refused: a call that failed on one day spoils no other's
\* total.
DayTotalRight ==
    \A k \in DOMAIN totals :
        LET t      == totals[k]
            before == EatenBefore(t.date, t.last)
            truth  == rows[t.last].amount + SumOf(before)
        IN  /\ t.total <= truth
            /\ t.summed /\ (\A i \in before : rows[i].stored) => t.total = truth
=============================================================================
