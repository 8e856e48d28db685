------------------------- MODULE MealTrackerProofs -------------------------
(* What the meal rows, the served quantities and the totals of days say is   *)
(* true, for every schedule, threshold, amount and number of crashes.        *)
EXTENDS MealTracker, FiniteSetTheorems, WellFoundedInduction, TLAPS

\* The weight of a reading is what had been served less what had been eaten;
\* that of an unknown bowl, 0, too.
Consistent(r) == r.weight = r.poured - r.eaten

\* Readings grow old in the order in which they were taken: the one a meal
\* started with, the stored one, the one about to be stored, the bowl itself.
ReadingsInOrder ==
    /\ Consistent(initial)
    /\ state = "RECORDING" => initial.poured <= reading[ActiveBowl].poured
    /\ \A b \in Bowls :
        /\ Consistent(reading[b])
        /\ reading[b].poured <= poured[b] /\ reading[b].eaten <= eaten[b]
        /\ eaten[b] <= poured[b]
    /\ sub # Idle =>
        /\ Consistent(sub.reading)
        /\ reading[sub.bowl].poured <= sub.reading.poured
        /\ sub.reading.poured <= poured[sub.bowl] /\ sub.reading.eaten <= eaten[sub.bowl]

\* What was logged had been served when the last reading was taken, or the
\* process has no reading of the bowl.
LoggedRead ==
    \A b \in Bowls :
        /\ logged[b] <= poured[b]
        /\ sub.bowl = b => logged[b] <= sub.reading.poured
        /\ sub.bowl # b /\ reading[b].weight # 0 => logged[b] <= reading[b].poured

\* The meal looked for next starts after all that have a verdict.
RowsBefore ==
    /\ clock >= 1 /\ called <= clock
    /\ state = "RECORDING" => active.start <= clock
    /\ \A i \in DOMAIN rows :
        /\ rows[i].start <= clock
        /\ called # 0 => rows[i].start <= called
        /\ called = 0 /\ active.start # 0 => rows[i].start < active.start

BowlInv == TypeOK /\ ReadingsInOrder
Inv == BowlInv /\ LoggedRead /\ IntakeTrue /\ RowsBefore /\ OneOutcome

-----------------------------------------------------------------------------
\* Midnight is at most a day ago.
LEMMA MidnightBounds ==
    ASSUME NEW t \in Nat
    PROVE  Midnight(t) \in Nat /\ Midnight(t) <= t /\ t < Midnight(t) + Day
<1>1. \A n \in Nat, d \in Nat \ {0} : n % d \in 0 .. d - 1 /\ n % d <= n
  OBVIOUS
<1>2. Day \in Nat \ {0}
  BY MealTrackerAssumption
<1> QED
  BY <1>1, <1>2 DEF Midnight

\* find_next_meal finds a meal, and it has not started yet.
LEMMA UpcomingLater ==
    ASSUME TypeOK, NEW now \in Nat, NEW o \in Upcoming(now)
    PROVE  o.meal \in Meals /\ o.start \in Nat /\ o.start > now
<1>1. \A m \in Meals : schedule[m].start \in 0 .. Day - 1
  BY MealTrackerAssumption DEF TypeOK
<1>2. CASE o \in Today(now) /\ o.start > now
  <2>1. PICK m \in Meals : o = [meal |-> m, start |-> Midnight(now) + schedule[m].start]
    BY <1>2 DEF Today
  <2> QED
    BY <1>1, <1>2, <2>1, MidnightBounds
<1>3. CASE o \in Tomorrow(now)
  <2>1. PICK m \in Meals : o = [meal |-> m, start |-> Midnight(now) + Day + schedule[m].start]
    BY <1>3 DEF Tomorrow
  <2> QED
    BY <1>1, <2>1, MidnightBounds, MealTrackerAssumption
<1> QED
  BY <1>2, <1>3 DEF Upcoming

LEMMA NextMeal ==
    ASSUME TypeOK, NEW now \in Nat, InitializeMeal(now)
    PROVE  active' \in Occurrences /\ active'.start > now /\ state' = "WAITING"
<1>1. PICK o \in Upcoming(now) :
        /\ active' = [meal |-> o.meal, start |-> o.start, end |-> EndOf(o.meal, o.start)]
        /\ state' = "WAITING"
  BY DEF InitializeMeal
<1>2. o.meal \in Meals /\ o.start \in Nat /\ o.start > now
  BY <1>1, UpcomingLater
<1>3. /\ schedule[o.meal].end \in 0 .. Day - 1
      /\ Day \in Nat
  BY <1>2, MealTrackerAssumption DEF TypeOK
<1>4. EndOf(o.meal, o.start) \in Nat
  BY <1>2, <1>3, MidnightBounds DEF EndOf
<1> QED
  BY <1>1, <1>2, <1>4 DEF Occurrences

\* The scale's reading.
LEMMA WeighedTyped ==
    ASSUME BowlInv, NEW b \in Bowls
    PROVE  /\ Content(b) \in Nat
           /\ Weighed(b) \in Readings /\ Consistent(Weighed(b))
           /\ Weighed(b).weight = Content(b)
           /\ Weighed(b).poured = poured[b] /\ Weighed(b).eaten = eaten[b]
  BY DEF BowlInv, TypeOK, ReadingsInOrder, Content, Weighed, Readings, Consistent

\* The bowl of the active meal.
LEMMA ActiveBowlTyped == ASSUME TypeOK PROVE ActiveBowl \in Bowls
  BY MealTrackerAssumption DEF TypeOK, ActiveBowl, Occurrences

\* A subscriber that is not idle is busy with a bowl.
LEMMA SubTyped ==
    ASSUME TypeOK
    PROVE  /\ sub = Idle => sub.bowl = NoBowl
           /\ sub # Idle => sub.bowl \in Bowls /\ sub.reading \in Readings
  BY DEF TypeOK, Idle

-----------------------------------------------------------------------------
\* What a process knows when it starts.
LEMMA NothingKnown ==
    /\ NoMeal \in Occurrences /\ NoMeal.start = 0
    /\ NoReading \in Readings /\ Consistent(NoReading)
    /\ NoReading.weight = 0 /\ NoReading.poured = 0 /\ NoReading.eaten = 0
    /\ Idle.bowl \notin Bowls
  BY MealTrackerAssumption DEF NoMeal, NoReading, Idle, Occurrences, Readings, Consistent

\* The initial state satisfies the invariant.
LEMMA InitInv == Init => Inv
<1> SUFFICES ASSUME Init PROVE Inv
  OBVIOUS
<1>1. /\ 0 \in Nat /\ 1 \in Nat /\ 0 \in 0 .. MaxCrashes /\ 0 \in 0 .. MaxFaults
      /\ <<>> \in Seq(Rows)
  BY MealTrackerAssumption
<1>2. \A b \in Bowls : reading[b] = NoReading /\ poured[b] = 0 /\ eaten[b] = 0 /\ logged[b] = 0
  BY DEF Init
<1>3. \A b \in Bowls : reading[b].weight <= poured[b]
  BY <1>2, NothingKnown
<1>4. /\ reading \in [Bowls -> Readings]
      /\ poured \in [Bowls -> Nat] /\ eaten \in [Bowls -> Nat] /\ logged \in [Bowls -> Nat]
  BY NothingKnown DEF Init
<1>5. TypeOK
  BY <1>1, <1>3, <1>4, NothingKnown DEF Init, TypeOK
<1>6. ReadingsInOrder
  BY <1>2, NothingKnown DEF Init, ReadingsInOrder
<1>7. LoggedRead
  BY <1>2, NothingKnown DEF Init, LoggedRead
<1>8. IntakeTrue /\ RowsBefore /\ OneOutcome
  BY DEF Init, IntakeTrue, RowsBefore, OneOutcome
<1> QED
  BY <1>5, <1>6, <1>7, <1>8 DEF Inv, BowlInv

-----------------------------------------------------------------------------
\* Food is only ever added to what was served, and a bowl holds what is left.
LEMMA WorldStep ==
    ASSUME BowlInv, [Next]_vars
    PROVE  /\ schedule' = schedule
           /\ poured' \in [Bowls -> Nat] /\ eaten' \in [Bowls -> Nat]
           /\ \A b \in Bowls :
                poured[b] <= poured'[b] /\ eaten[b] <= eaten'[b] /\ eaten'[b] <= poured'[b]
<1>0. /\ poured \in [Bowls -> Nat] /\ eaten \in [Bowls -> Nat] /\ Portion \in Nat
      /\ \A b \in Bowls : eaten[b] <= poured[b]
  BY MealTrackerAssumption DEF BowlInv, TypeOK, ReadingsInOrder
<1>1. CASE UNCHANGED <<schedule, poured, eaten>>
  BY <1>0, <1>1
<1>2. ASSUME NEW b \in Bowls, Eat(b)
      PROVE  /\ UNCHANGED <<schedule, poured>> /\ eaten' \in [Bowls -> Nat]
             /\ \A c \in Bowls : eaten[c] <= eaten'[c] /\ eaten'[c] <= poured[c]
  <2>1. eaten' = [eaten EXCEPT ![b] = eaten[b] + 1] /\ UNCHANGED <<schedule, poured>>
    BY <1>2 DEF Eat
  <2>2. eaten[b] + 1 <= poured[b] /\ eaten[b] + 1 \in Nat
    BY <1>0, <1>2 DEF Eat, Content
  <2> QED
    BY <1>0, <2>1, <2>2
<1>3. ASSUME NEW b \in Bowls, Serve(b)
      PROVE  /\ UNCHANGED <<schedule, eaten>> /\ poured' \in [Bowls -> Nat]
             /\ \A c \in Bowls : poured[c] <= poured'[c] /\ eaten[c] <= poured'[c]
  <2>1. poured' = [poured EXCEPT ![b] = poured[b] + Portion] /\ UNCHANGED <<schedule, eaten>>
    BY <1>3 DEF Serve
  <2>2. poured[b] + Portion >= poured[b] /\ poured[b] + Portion \in Nat
    BY <1>0
  <2>3. \A c \in Bowls : poured'[c] \in Nat /\ poured[c] <= poured'[c]
    BY <1>0, <2>1, <2>2
  <2> QED
    BY <1>0, <2>1, <2>3
<1>4. ASSUME ~(\E b \in Bowls : Eat(b) \/ Serve(b)) PROVE UNCHANGED <<schedule, poured, eaten>>
  BY <1>4 DEF Next, vars, worldVars, Advance, Crash, Restart, Weigh, LogServed, StoreServed,
              FirstMeal, StartMeal, EndMeal, FinishMeal, TickFrame
<1> QED
  BY <1>0, <1>1, <1>2, <1>3, <1>4

\* A process stores only readings it took, each newer than the one before it,
\* or dies and forgets them all.
ReadingsNewer ==
    /\ reading' \in [Bowls -> Readings]
    /\ sub' = Idle \/ sub' \in [bowl : Bowls, reading : Readings]
    /\ \A b \in Bowls :
        /\ Consistent(reading'[b])
        /\ reading'[b].poured <= poured'[b] /\ reading'[b].eaten <= eaten'[b]
    /\ state' = "RECORDING" => \A b \in Bowls : reading[b].poured <= reading'[b].poured
    /\ sub' # Idle =>
         /\ Consistent(sub'.reading)
         /\ reading'[sub'.bowl].poured <= sub'.reading.poured
         /\ sub'.reading.poured <= poured'[sub'.bowl] /\ sub'.reading.eaten <= eaten'[sub'.bowl]

LEMMA SubStep == ASSUME BowlInv, [Next]_vars PROVE ReadingsNewer
<1>0. /\ reading \in [Bowls -> Readings]
      /\ sub = Idle \/ sub \in [bowl : Bowls, reading : Readings]
      /\ \A b \in Bowls : /\ Consistent(reading[b])
                         /\ reading[b].poured <= poured[b] /\ reading[b].eaten <= eaten[b]
      /\ sub # Idle =>
           /\ Consistent(sub.reading)
           /\ reading[sub.bowl].poured <= sub.reading.poured
           /\ sub.reading.poured <= poured[sub.bowl] /\ sub.reading.eaten <= eaten[sub.bowl]
  BY DEF BowlInv, TypeOK, ReadingsInOrder
<1>1. /\ poured \in [Bowls -> Nat] /\ poured' \in [Bowls -> Nat]
      /\ eaten \in [Bowls -> Nat] /\ eaten' \in [Bowls -> Nat]
      /\ \A b \in Bowls : poured[b] <= poured'[b] /\ eaten[b] <= eaten'[b]
  BY WorldStep DEF BowlInv, TypeOK
<1>2. \A b \in Bowls : reading[b].poured \in Nat /\ reading[b].eaten \in Nat
  BY <1>0 DEF Readings
<1>3. CASE UNCHANGED subVars
  <2>1. UNCHANGED <<reading, sub, logged>>
    BY <1>3 DEF subVars
  <2>2. sub # Idle => sub.bowl \in Bowls /\ sub.reading \in Readings
    BY SubTyped DEF BowlInv
  <2>3. sub # Idle => sub.reading.poured <= poured'[sub.bowl] /\ sub.reading.eaten <= eaten'[sub.bowl]
    BY <1>0, <1>1, <2>2 DEF Readings
  <2>4. \A b \in Bowls : reading[b].poured <= poured'[b] /\ reading[b].eaten <= eaten'[b]
    BY <1>0, <1>1, <1>2
  <2> QED
    BY <1>0, <1>2, <2>1, <2>3, <2>4 DEF ReadingsNewer
<1>4. ASSUME NEW b \in Bowls, Weigh(b) PROVE ReadingsNewer
  <2>1. reading' = [reading EXCEPT ![b] = Weighed(b)] /\ sub' = Idle /\ UNCHANGED <<poured, eaten>>
    BY <1>4 DEF Weigh, Stored, worldVars
  <2>2. /\ Weighed(b) \in Readings /\ Consistent(Weighed(b))
        /\ Weighed(b).poured = poured[b] /\ Weighed(b).eaten = eaten[b]
    BY WeighedTyped
  <2> QED
    BY <1>0, <1>1, <1>2, <2>1, <2>2 DEF ReadingsNewer
<1>5. ASSUME NEW b \in Bowls, LogServed(b) PROVE ReadingsNewer
  <2>1. reading' = reading /\ sub' = [bowl |-> b, reading |-> Weighed(b)]
        /\ UNCHANGED <<poured, eaten>>
    BY <1>5 DEF LogServed, worldVars
  <2>2. /\ Weighed(b) \in Readings /\ Consistent(Weighed(b))
        /\ Weighed(b).poured = poured[b] /\ Weighed(b).eaten = eaten[b]
    BY WeighedTyped
  <2>3. sub' \in [bowl : Bowls, reading : Readings] /\ sub'.bowl = b /\ sub'.reading = Weighed(b)
    BY <2>1, <2>2
  <2> QED
    BY <1>0, <1>1, <1>2, <2>1, <2>2, <2>3 DEF ReadingsNewer
<1>6. CASE StoreServed
  <2>1. reading' = [reading EXCEPT ![sub.bowl] = sub.reading] /\ sub' = Idle /\ UNCHANGED <<poured, eaten>>
    BY <1>6 DEF StoreServed, Stored, worldVars
  <2>2. sub # Idle /\ sub.bowl \in Bowls /\ sub.reading \in Readings
    BY <1>6, SubTyped DEF StoreServed, BowlInv
  <2> QED
    BY <1>0, <1>1, <1>2, <2>1, <2>2 DEF ReadingsNewer
<1>7. CASE Crash
  <2>1. state' = "WAITING" /\ reading' = [b \in Bowls |-> NoReading] /\ sub' = Idle
    BY <1>7 DEF Crash
  <2> QED
    BY <1>1, <2>1, NothingKnown DEF ReadingsNewer
<1>8. ASSUME ~(\E b \in Bowls : Weigh(b) \/ LogServed(b)), ~StoreServed, ~Crash
      PROVE  UNCHANGED subVars
  BY <1>8 DEF Next, vars, subVars, Advance, Eat, Serve, Restart,
              FirstMeal, StartMeal, EndMeal, FinishMeal, TickFrame
<1> QED
  BY <1>3, <1>4, <1>5, <1>6, <1>7, <1>8

\* What tick keeps is typed, and the meal being recorded started with a reading
\* no newer than the stored one.
MealKept ==
    /\ state' \in {"WAITING", "RECORDING"} /\ active' \in Occurrences
    /\ initial' \in Readings /\ called' \in Nat
    /\ rows' \in Seq(Rows) /\ faults' \in 0 .. MaxFaults
    /\ Consistent(initial')
    /\ state' = "RECORDING" => initial'.poured <= reading'[schedule'[active'.meal].bowl].poured

\* The row that EndMeal writes.
LEMMA RowTyped ==
    ASSUME TypeOK, EndMeal
    PROVE  \E r \in Rows :
             /\ rows' = Append(rows, r)
             /\ r.meal = active.meal /\ r.start = active.start
             /\ r.amount = initial.weight - reading[ActiveBowl].weight
             /\ r.eaten = reading[ActiveBowl].eaten - initial.eaten
<1>1. PICK failed \in BOOLEAN :
        rows' = Append(rows,
          [meal |-> active.meal, start |-> active.start, amount |-> Intake(reading[ActiveBowl]),
           eaten |-> reading[ActiveBowl].eaten - initial.eaten, stored |-> ~failed])
  BY DEF EndMeal
<1>2. reading[ActiveBowl] \in Readings /\ initial \in Readings /\ active \in Occurrences
  BY ActiveBowlTyped DEF TypeOK
<1>3. /\ Intake(reading[ActiveBowl]) \in Int
      /\ reading[ActiveBowl].eaten - initial.eaten \in Int
      /\ active.meal \in Meals /\ active.start \in Nat
  BY <1>2 DEF Intake, Readings, Occurrences
<1>4. DEFINE r == [meal |-> active.meal, start |-> active.start, amount |-> Intake(reading[ActiveBowl]),
                   eaten |-> reading[ActiveBowl].eaten - initial.eaten, stored |-> ~failed]
<1>5. r \in Rows
  BY <1>3 DEF Rows
<1> QED
  BY <1>1, <1>5 DEF Intake

LEMMA MealStep == ASSUME BowlInv, [Next]_vars PROVE MealKept
<1>0. /\ state \in {"WAITING", "RECORDING"} /\ active \in Occurrences
      /\ initial \in Readings /\ called \in Nat /\ clock \in Nat
      /\ rows \in Seq(Rows) /\ faults \in 0 .. MaxFaults
      /\ Consistent(initial) /\ ActiveBowl \in Bowls
      /\ state = "RECORDING" => initial.poured <= reading[ActiveBowl].poured
  BY ActiveBowlTyped DEF BowlInv, TypeOK, ReadingsInOrder
<1>1. schedule' = schedule /\ ReadingsNewer
  BY WorldStep, SubStep
<1>2. /\ \A b \in Bowls : reading[b].poured \in Nat /\ reading'[b].poured \in Nat
      /\ initial.poured \in Nat
  BY <1>0, <1>1 DEF BowlInv, TypeOK, ReadingsNewer, Readings
<1>3. CASE UNCHANGED tickVars
  <2>1. UNCHANGED <<state, active, initial, called, rows, faults>>
    BY <1>3 DEF tickVars
  <2>2. state = "RECORDING" => initial.poured <= reading'[ActiveBowl].poured
    BY <1>0, <1>1, <1>2, <2>1 DEF ReadingsNewer
  <2> QED
    BY <1>0, <1>1, <2>1, <2>2 DEF MealKept, ActiveBowl
<1>4. CASE FirstMeal
  BY <1>0, <1>4, NextMeal DEF FirstMeal, MealKept, BowlInv
<1>5. CASE StartMeal
  <2>1. /\ state' = "RECORDING" /\ initial' = reading[ActiveBowl]
        /\ UNCHANGED <<active, called, rows, faults, reading>>
    BY <1>5 DEF StartMeal, TickFrame, subVars
  <2>2. reading[ActiveBowl] \in Readings /\ Consistent(reading[ActiveBowl])
    BY <1>0 DEF BowlInv, TypeOK, ReadingsInOrder
  <2>3. initial'.poured <= reading'[ActiveBowl].poured
    BY <1>0, <1>2, <2>1
  <2> QED
    BY <1>0, <1>1, <2>1, <2>2, <2>3 DEF MealKept, ActiveBowl
<1>6. CASE EndMeal
  <2>1. UNCHANGED <<state, active, initial, reading>> /\ called' = clock /\ faults' \in 0 .. MaxFaults
    <3>1. faults \in Nat /\ MaxFaults \in Nat
      BY <1>0, MealTrackerAssumption
    <3> QED
      BY <1>6, <3>1 DEF EndMeal, Fault, TickFrame, subVars
  <2>2. rows' \in Seq(Rows)
    BY <1>0, <1>6, RowTyped DEF BowlInv
  <2> QED
    BY <1>0, <1>1, <2>1, <2>2 DEF MealKept, ActiveBowl
<1>7. CASE FinishMeal
  <2>1. faults' \in 0 .. MaxFaults
    <3>1. faults \in Nat /\ MaxFaults \in Nat
      BY <1>0, MealTrackerAssumption
    <3>2. CASE UNCHANGED faults
      BY <1>0, <3>2
    <3>3. CASE DayTotal
      <4>1. PICK failed \in BOOLEAN : Fault(failed)
        BY <3>3 DEF DayTotal
      <4> QED
        BY <3>1, <4>1 DEF Fault
    <3> QED
      BY <1>7, <3>2, <3>3 DEF FinishMeal
  <2> QED
    BY <1>0, <1>7, <2>1, NextMeal DEF FinishMeal, MealKept, BowlInv
<1>8. CASE Crash
  BY <1>0, <1>8, NothingKnown DEF Crash, MealKept
<1>9. ASSUME ~FirstMeal, ~StartMeal, ~EndMeal, ~FinishMeal, ~Crash PROVE UNCHANGED tickVars
  BY <1>9 DEF Next, vars, Advance, Eat, Serve, Weigh, LogServed, StoreServed, Restart
<1> QED
  BY <1>3, <1>4, <1>5, <1>6, <1>7, <1>8, <1>9

\* Served quantities are numbers, and each covers food served since the reading
\* before it.
LEMMA LogStep ==
    ASSUME BowlInv, LoggedRead, [Next]_vars
    PROVE  logged' \in [Bowls -> Nat] /\ LoggedRead'
<1>0. /\ logged \in [Bowls -> Nat] /\ poured \in [Bowls -> Nat]
      /\ \A b \in Bowls : reading[b] \in Readings /\ Consistent(reading[b])
  BY DEF BowlInv, TypeOK, ReadingsInOrder
<1>1. /\ poured' \in [Bowls -> Nat]
      /\ \A b \in Bowls : poured[b] <= poured'[b]
  BY WorldStep
<1>2. CASE UNCHANGED subVars
  <2>1. UNCHANGED <<reading, sub, logged>>
    BY <1>2 DEF subVars
  <2>2. \A b \in Bowls : logged[b] <= poured'[b]
    BY <1>0, <1>1 DEF LoggedRead
  <2> QED
    BY <1>0, <2>1, <2>2 DEF LoggedRead
<1>3. ASSUME NEW b \in Bowls, Weigh(b) PROVE logged' = logged /\ LoggedRead'
  <2>1. /\ reading' = [reading EXCEPT ![b] = Weighed(b)] /\ UNCHANGED <<sub, logged, poured>>
        /\ sub.bowl \notin Bowls
    BY <1>3, NothingKnown DEF Weigh, Stored, worldVars
  <2>2. Weighed(b).poured = poured[b]
    BY WeighedTyped
  <2>3. reading'[b] = Weighed(b) /\ \A c \in Bowls : c # b => reading'[c] = reading[c]
    BY <2>1 DEF BowlInv, TypeOK
  <2> QED
    BY <1>0, <2>1, <2>2, <2>3 DEF LoggedRead
<1>4. ASSUME NEW b \in Bowls, LogServed(b) PROVE logged' \in [Bowls -> Nat] /\ LoggedRead'
  <2>1. /\ logged' = [logged EXCEPT ![b] = logged[b] + (Content(b) - reading[b].weight)]
        /\ UNCHANGED <<reading, poured>> /\ sub.bowl # b
        /\ sub' = [bowl |-> b, reading |-> Weighed(b)]
    BY <1>4, NothingKnown DEF LogServed, worldVars
  <2>2. /\ Content(b) = poured[b] - eaten[b] /\ eaten[b] \in Nat
        /\ Weighed(b).poured = poured[b] /\ Weighed(b).weight = Content(b) /\ Content(b) \in Nat
    BY WeighedTyped DEF Content, BowlInv, TypeOK
  <2>3. /\ reading[b].weight = reading[b].poured - reading[b].eaten
        /\ reading[b].weight \in Nat /\ reading[b].poured \in Nat /\ reading[b].eaten \in Nat
    BY <1>0 DEF Readings, Consistent
  <2>4. /\ reading[b].weight # 0 /\ Content(b) > reading[b].weight
    BY <1>4, <2>2, <2>3, MealTrackerAssumption DEF LogServed, FoodAdded
  <2>5. logged[b] <= reading[b].poured
    BY <2>1, <2>4 DEF LoggedRead
  <2>6. reading[b].eaten <= eaten[b]
    BY DEF BowlInv, ReadingsInOrder
  <2>7. /\ logged[b] + (Content(b) - reading[b].weight) \in Nat
        /\ logged[b] + (Content(b) - reading[b].weight) <= poured[b]
    BY <1>0, <2>2, <2>3, <2>4, <2>5, <2>6
  <2>8. /\ logged' \in [Bowls -> Nat] /\ logged'[b] <= poured[b]
        /\ \A c \in Bowls : c # b => logged'[c] = logged[c]
    BY <1>0, <2>1, <2>7
  <2>9. \A c \in Bowls : c # b => sub.bowl # c
    BY <1>4, NothingKnown DEF LogServed
  <2> QED
    BY <1>0, <2>1, <2>2, <2>8, <2>9 DEF LoggedRead
<1>5. CASE StoreServed
  <2>1. /\ reading' = [reading EXCEPT ![sub.bowl] = sub.reading] /\ sub' = Idle
        /\ UNCHANGED <<logged, poured>> /\ sub.bowl \in Bowls
    BY <1>5, SubTyped DEF StoreServed, Stored, worldVars, BowlInv
  <2>2. reading'[sub.bowl] = sub.reading /\ \A c \in Bowls : c # sub.bowl => reading'[c] = reading[c]
    BY <2>1 DEF BowlInv, TypeOK
  <2> QED
    BY <1>0, <2>1, <2>2, NothingKnown DEF LoggedRead
<1>6. CASE Crash
  <2>1. reading' = [b \in Bowls |-> NoReading] /\ sub' = Idle /\ UNCHANGED <<logged, poured>>
    BY <1>6 DEF Crash, worldVars
  <2> QED
    BY <1>0, <2>1, NothingKnown DEF LoggedRead
<1>7. ASSUME ~(\E b \in Bowls : Weigh(b) \/ LogServed(b)), ~StoreServed, ~Crash
      PROVE  UNCHANGED subVars
  BY <1>7 DEF Next, vars, subVars, Advance, Eat, Serve, Restart,
              FirstMeal, StartMeal, EndMeal, FinishMeal, TickFrame
<1> QED
  BY <1>0, <1>2, <1>3, <1>4, <1>5, <1>6, <1>7

\* The types and the order of the readings are kept by every step.
LEMMA BowlStep == BowlInv /\ LoggedRead /\ [Next]_vars => BowlInv' /\ LoggedRead'
<1> SUFFICES ASSUME BowlInv, LoggedRead, [Next]_vars PROVE BowlInv' /\ LoggedRead'
  OBVIOUS
<1>1. /\ schedule' \in Schedules
      /\ poured' \in [Bowls -> Nat] /\ eaten' \in [Bowls -> Nat]
      /\ \A b \in Bowls : eaten'[b] <= poured'[b]
  BY WorldStep DEF BowlInv, TypeOK
<1>2. ReadingsNewer /\ MealKept /\ logged' \in [Bowls -> Nat] /\ LoggedRead'
  BY SubStep, MealStep, LogStep
<1>3. \A b \in Bowls : reading'[b].weight <= poured'[b]
  <2> SUFFICES ASSUME NEW b \in Bowls PROVE reading'[b].weight <= poured'[b]
    OBVIOUS
  <2>1. /\ reading'[b].poured \in Nat /\ reading'[b].eaten \in Nat /\ poured'[b] \in Nat
        /\ reading'[b].weight = reading'[b].poured - reading'[b].eaten
        /\ reading'[b].poured <= poured'[b]
    BY <1>1, <1>2 DEF ReadingsNewer, Readings, Consistent
  <2> QED
    BY <2>1
<1>4. /\ clock' \in Nat /\ since' \in Nat /\ up' \in BOOLEAN /\ late' \in BOOLEAN
      /\ crashes' \in 0 .. MaxCrashes
  <2>1. /\ clock \in Nat /\ since \in Nat /\ up \in BOOLEAN /\ late \in BOOLEAN
        /\ crashes \in 0 .. MaxCrashes /\ MaxCrashes \in Nat
    BY MealTrackerAssumption DEF BowlInv, TypeOK
  <2>2. CASE Advance
    BY <2>1, <2>2 DEF Advance, lifeVars, TickDue
  <2>3. CASE Crash
    <3>1. crashes < MaxCrashes /\ crashes' = crashes + 1
      BY <2>3 DEF Crash
    <3>2. crashes' \in 0 .. MaxCrashes
      BY <2>1, <3>1
    <3> QED
      BY <2>1, <2>3, <3>2 DEF Crash
  <2>4. CASE Restart
    BY <2>1, <2>4 DEF Restart
  <2>5. ASSUME ~Advance, ~Crash, ~Restart PROVE UNCHANGED <<clock, late, lifeVars>>
    BY <2>5 DEF Next, vars, Eat, Serve, Weigh, LogServed, StoreServed,
                FirstMeal, StartMeal, EndMeal, FinishMeal, TickFrame
  <2> QED
    BY <2>1, <2>2, <2>3, <2>4, <2>5 DEF lifeVars
<1>5. TypeOK'
  BY <1>1, <1>2, <1>3, <1>4 DEF TypeOK, ReadingsNewer, MealKept
<1>6. ReadingsInOrder'
  BY <1>1, <1>2 DEF ReadingsInOrder, ReadingsNewer, MealKept, ActiveBowl
<1> QED
  BY <1>2, <1>5, <1>6 DEF BowlInv

-----------------------------------------------------------------------------
\* A step that adds no row keeps what the rows say.
LEMMA RowsKept ==
    ASSUME IntakeTrue, OneOutcome, rows' = rows
    PROVE  IntakeTrue' /\ OneOutcome'
  BY DEF IntakeTrue, OneOutcome

\* Initially or after a verdict, tick looks for a meal after all that have one.
LEMMA RowStep == Inv /\ [Next]_vars => IntakeTrue' /\ OneOutcome' /\ RowsBefore'
<1> SUFFICES ASSUME Inv, [Next]_vars PROVE IntakeTrue' /\ OneOutcome' /\ RowsBefore'
  OBVIOUS
<1>0. /\ clock \in Nat /\ called \in Nat /\ active \in Occurrences /\ active.start \in Nat
      /\ rows \in Seq(Rows) /\ \A i \in DOMAIN rows : rows[i].start \in Nat
      /\ state \in {"WAITING", "RECORDING"}
  <2>1. /\ clock \in Nat /\ called \in Nat /\ active \in Occurrences
        /\ rows \in Seq(Rows) /\ state \in {"WAITING", "RECORDING"}
    BY DEF Inv, BowlInv, TypeOK
  <2>2. \A i \in DOMAIN rows : rows[i] \in Rows
    BY <2>1
  <2> QED
    BY <2>1, <2>2 DEF Occurrences, Rows
<1>1. IntakeTrue /\ OneOutcome /\ RowsBefore /\ TypeOK
  BY DEF Inv, BowlInv
<1>2. CASE Advance
  <2>1. clock' = clock + 1 /\ UNCHANGED <<state, active, called, rows>>
    BY <1>2 DEF Advance, tickVars
  <2> QED
    BY <1>0, <1>1, <2>1, RowsKept DEF RowsBefore
<1>3. CASE FirstMeal
  <2>1. /\ UNCHANGED <<clock, called, rows>> /\ called = 0
        /\ active' \in Occurrences /\ active'.start > clock /\ state' = "WAITING"
    BY <1>0, <1>1, <1>3, NextMeal DEF FirstMeal, TickFrame
  <2>2. active'.start \in Nat
    BY <2>1 DEF Occurrences
  <2> QED
    BY <1>0, <1>1, <2>1, <2>2, RowsKept DEF RowsBefore
<1>4. CASE StartMeal
  BY <1>0, <1>1, <1>4, RowsKept DEF StartMeal, TickFrame, RowsBefore
<1>5. CASE EndMeal
  <2>1. PICK r \in Rows :
          /\ rows' = Append(rows, r)
          /\ r.meal = active.meal /\ r.start = active.start
          /\ r.amount = initial.weight - reading[ActiveBowl].weight
          /\ r.eaten = reading[ActiveBowl].eaten - initial.eaten
    BY <1>1, <1>5, RowTyped
  <2>2. /\ called = 0 /\ active.start # 0 /\ state = "RECORDING" /\ called' = clock
        /\ UNCHANGED <<state, active, clock>>
    BY <1>5 DEF EndMeal, TickFrame
  <2>3. r.amount <= r.eaten
    <3>1. /\ reading[ActiveBowl] \in Readings /\ initial \in Readings
          /\ Consistent(reading[ActiveBowl]) /\ Consistent(initial)
          /\ initial.poured <= reading[ActiveBowl].poured
      BY <2>2, ActiveBowlTyped DEF Inv, BowlInv, TypeOK, ReadingsInOrder
    <3> QED
      BY <2>1, <3>1 DEF Readings, Consistent
  <2>4. /\ DOMAIN rows' = DOMAIN rows \cup {Len(rows) + 1}
        /\ rows'[Len(rows) + 1] = r /\ Len(rows) + 1 \notin DOMAIN rows
        /\ \A i \in DOMAIN rows : rows'[i] = rows[i]
    BY <1>0, <2>1
  <2>5. \A i \in DOMAIN rows : rows[i].start < r.start
    BY <1>1, <2>1, <2>2 DEF RowsBefore
  <2>6. IntakeTrue'
    BY <1>1, <2>3, <2>4 DEF IntakeTrue
  <2>7. \A i \in DOMAIN rows : rows[i].start # r.start
    BY <1>0, <2>1, <2>5 DEF Rows
  <2>8. OneOutcome'
    BY <1>1, <2>4, <2>7 DEF OneOutcome
  <2>9. RowsBefore'
    BY <1>0, <1>1, <2>1, <2>2, <2>4 DEF RowsBefore
  <2> QED
    BY <2>6, <2>8, <2>9
<1>6. CASE FinishMeal
  <2>1. /\ UNCHANGED <<clock, rows>> /\ called # 0 /\ called' = 0
        /\ active' \in Occurrences /\ active'.start > called /\ state' = "WAITING"
    BY <1>0, <1>1, <1>6, NextMeal DEF FinishMeal, TickFrame
  <2>2. active'.start \in Nat
    BY <2>1 DEF Occurrences
  <2> QED
    BY <1>0, <1>1, <2>1, <2>2, RowsKept DEF RowsBefore
<1>7. CASE Crash
  BY <1>0, <1>1, <1>7, NothingKnown, RowsKept DEF Crash, RowsBefore
<1>8. ASSUME ~Advance, ~FirstMeal, ~StartMeal, ~EndMeal, ~FinishMeal, ~Crash
      PROVE  UNCHANGED <<clock, state, active, called, rows>>
  BY <1>8 DEF Next, vars, tickVars, Eat, Serve, Weigh, LogServed, StoreServed, Restart
<1> QED
  BY <1>1, <1>2, <1>3, <1>4, <1>5, <1>6, <1>7, <1>8, RowsKept DEF RowsBefore

\* The invariant holds in every reachable state.
THEOREM Invariance == Spec => []Inv
<1>1. Inv /\ [Next]_vars => Inv'
  BY BowlStep, RowStep DEF Inv
<1> QED
  BY InitInv, <1>1, PTL DEF Spec

\* Every reachable state is well typed.
THEOREM TypeCorrect == Spec => []TypeOK
<1>1. Inv => TypeOK
  BY DEF Inv, BowlInv
<1> QED
  BY <1>1, Invariance, PTL

\* Each occurrence of a meal gets at most one verdict (find_next_meal, tick).
THEOREM OneVerdict == Spec => []OneOutcome
<1>1. Inv => OneOutcome
  BY DEF Inv
<1> QED
  BY <1>1, Invariance, PTL

\* No intake is more than what was eaten between its two readings.
THEOREM IntakeNotInflated == Spec => []IntakeTrue
<1>1. Inv => IntakeTrue
  BY DEF Inv
<1> QED
  BY <1>1, Invariance, PTL

\* No bowl's served quantities add up to more than was served in it, across
\* crashes (update_bowl_weight).
THEOREM ServedTrue == Spec => []ServedNotInflated
<1>1. Inv => ServedNotInflated
  BY DEF Inv, LoggedRead, ServedNotInflated
<1> QED
  BY <1>1, Invariance, PTL
-----------------------------------------------------------------------------
(* Days, and when meals start and end.                                        *)

\* The occurrence of a meal that starts on day d; whether one has its verdict.
StartOn(m, d) == d * Day + schedule[m].start
Judged(m, s)  == \E i \in DOMAIN rows : rows[i].meal = m /\ rows[i].start = s

LEMMA Division ==
    \A a \in Nat, b \in Nat \ {0} :
        /\ a \div b \in Nat /\ a % b \in 0 .. b - 1
        /\ a = b * (a \div b) + (a % b)
  OBVIOUS

LEMMA DaysGrow ==
    ASSUME NEW d \in Nat, NEW e \in Nat
    PROVE  /\ d * Day \in Nat /\ e * Day \in Nat
           /\ d < e => d * Day + Day <= e * Day
           /\ d + 1 < e => d * Day + Day + Day <= e * Day
<1>1. Day \in Nat
  BY MealTrackerAssumption
<1>2. d * Day \in Nat /\ e * Day \in Nat
  BY <1>1
<1>3. \A a, b, c \in Nat : (a + 1 + c) * b = a * b + b + c * b /\ c * b \in Nat
  OBVIOUS
<1>4. \A a, b, c \in Nat : (a + 2 + c) * b = a * b + b + b + c * b
  OBVIOUS
<1>5. ASSUME d < e PROVE d * Day + Day <= e * Day
  <2>1. PICK c \in Nat : e = d + 1 + c
    <3>1. e - (d + 1) \in Nat /\ e = d + 1 + (e - (d + 1))
      BY <1>5
    <3> QED
      BY <3>1
  <2>2. e * Day = d * Day + Day + c * Day /\ c * Day \in Nat
    BY <1>1, <1>3, <2>1
  <2> QED
    BY <1>1, <1>2, <2>2
<1>6. ASSUME d + 1 < e PROVE d * Day + Day + Day <= e * Day
  <2>1. PICK c \in Nat : e = d + 2 + c
    <3>1. e - (d + 2) \in Nat /\ e = d + 2 + (e - (d + 2))
      BY <1>6
    <3> QED
      BY <3>1
  <2>2. e * Day = d * Day + Day + Day + c * Day /\ c * Day \in Nat
    BY <1>1, <1>3, <1>4, <2>1
  <2> QED
    BY <1>1, <1>2, <2>2
<1> QED
  BY <1>2, <1>5, <1>6

\* The midnight before a time is that of its day.
LEMMA MidnightOf ==
    ASSUME NEW t \in Nat
    PROVE  t \div Day \in Nat /\ Midnight(t) = (t \div Day) * Day
<1>1. Day \in Nat \ {0}
  BY MealTrackerAssumption
<1>2. /\ t \div Day \in Nat /\ t % Day \in 0 .. Day - 1
      /\ t = Day * (t \div Day) + (t % Day)
  BY <1>1, Division
<1>3. \A a, b, c, r \in Nat : a = b * c + r => a - r = c * b
  OBVIOUS
<1> QED
  BY <1>1, <1>2, <1>3 DEF Midnight

LEMMA MidnightUnique ==
    ASSUME NEW d \in Nat, NEW x \in 0 .. Day - 1
    PROVE  d * Day + x \in Nat /\ Midnight(d * Day + x) = d * Day
<1>1. Day \in Nat /\ Day > 0 /\ x \in Nat /\ x < Day /\ d * Day \in Nat
  BY DaysGrow, MealTrackerAssumption
<1> DEFINE t == d * Day + x
           e == t \div Day
<1>2. t \in Nat /\ d * Day <= t /\ t < d * Day + Day
  BY <1>1
<1>3. e \in Nat /\ Midnight(t) = e * Day
  BY <1>2, MidnightOf
<1>4. Midnight(t) \in Nat /\ Midnight(t) <= t /\ t < Midnight(t) + Day
  BY <1>2, MidnightBounds
<1> HIDE DEF t, e
<1>5. /\ d < e => d * Day + Day <= e * Day
      /\ e < d => e * Day + Day <= d * Day
  BY <1>3, DaysGrow
<1>6. d = e
  BY <1>1, <1>2, <1>3, <1>4, <1>5
<1> QED
  BY <1>2, <1>3, <1>6 DEF t

\* How long after the midnight before its start a meal ends.
Span(m) == schedule[m].end + (IF schedule[m].end < schedule[m].start THEN Day ELSE 0)

LEMMA ScheduleTyped ==
    ASSUME TypeOK, NEW m \in Meals
    PROVE  /\ Day \in Nat /\ Day > 0
           /\ schedule[m].start \in 0 .. Day - 1 /\ schedule[m].end \in 0 .. Day - 1
           /\ schedule[m].start \in Nat /\ schedule[m].start < Day
           /\ Span(m) \in Nat /\ schedule[m].start <= Span(m)
           /\ Span(m) < schedule[m].start + Day
<1>1. /\ Day \in Nat /\ Day > 0
      /\ schedule[m].start \in 0 .. Day - 1 /\ schedule[m].end \in 0 .. Day - 1
  BY MealTrackerAssumption DEF TypeOK
<1> QED
  BY <1>1 DEF Span

\* An occurrence starts and ends within its day and the next.
LEMMA OccurrenceTimes ==
    ASSUME TypeOK, NEW m \in Meals, NEW d \in Nat
    PROVE  /\ d * Day \in Nat
           /\ StartOn(m, d) \in Nat /\ EndOf(m, StartOn(m, d)) \in Nat
           /\ StartOn(m, d) = d * Day + schedule[m].start
           /\ EndOf(m, StartOn(m, d)) = d * Day + Span(m)
           /\ StartOn(m, d) <= EndOf(m, StartOn(m, d))
<1>1. /\ schedule[m].start \in 0 .. Day - 1 /\ schedule[m].end \in 0 .. Day - 1
      /\ schedule[m].start \in Nat /\ Span(m) \in Nat /\ schedule[m].start <= Span(m)
      /\ Day \in Nat
  BY ScheduleTyped
<1>2. d * Day \in Nat /\ Midnight(d * Day + schedule[m].start) = d * Day
  BY <1>1, DaysGrow, MidnightUnique
<1>3. EndOf(m, StartOn(m, d)) = d * Day + Span(m)
  BY <1>1, <1>2 DEF EndOf, StartOn, Span
<1> QED
  BY <1>1, <1>2, <1>3 DEF StartOn

\* On a schedule with gaps a meal is over before another one starts, and no
\* two start together: days that are not neighbours included.
LEMMA MealsApart ==
    ASSUME TypeOK, Gapped, NEW m \in Meals, NEW n \in Meals, NEW d \in Nat, NEW e \in Nat
    PROVE  /\ StartOn(m, d) < StartOn(n, e) => EndOf(m, StartOn(m, d)) < StartOn(n, e)
           /\ StartOn(m, d) = StartOn(n, e) => m = n
<1> DEFINE s == schedule[m].start
           t == schedule[n].start
           D == d * Day
           E == e * Day
<1>1. /\ Day \in Nat /\ Day > 0 /\ D \in Nat /\ E \in Nat
      /\ s \in Nat /\ s < Day /\ t \in Nat /\ t < Day
      /\ Span(m) \in Nat /\ s <= Span(m) /\ Span(m) < s + Day
      /\ StartOn(m, d) = D + s /\ StartOn(n, e) = E + t
      /\ EndOf(m, StartOn(m, d)) = D + Span(m)
  BY ScheduleTyped, OccurrenceTimes
<1>2. EndOf(m, s) = Span(m)
  <2>1. 0 * Day = 0 /\ s = 0 * Day + s
    BY <1>1
  <2>2. EndOf(m, StartOn(m, 0)) = 0 * Day + Span(m) /\ StartOn(m, 0) = 0 * Day + s
    BY OccurrenceTimes
  <2> QED
    BY <1>1, <2>1, <2>2
<1>3. /\ s < t => Span(m) < t
      /\ s < t + Day => Span(m) < t + Day
      /\ s = t => m = n
  <2>1. \A x \in {0, Day} :
          /\ s < t + x => EndOf(m, s) < t + x
          /\ s = t + x => m = n
    BY DEF Gapped
  <2> QED
    BY <1>1, <1>2, <2>1
<1>4. /\ d < e => D + Day <= E /\ (d + 1 < e => D + Day + Day <= E)
      /\ e < d => E + Day <= D
  BY DaysGrow
<1>5. e = d + 1 => E = D + Day
  <2>1. (d + 1) * Day = d * Day + Day
    BY <1>1
  <2> QED
    BY <2>1
<1>6. d = e => D = E
  OBVIOUS
<1> HIDE DEF s, t, D, E
<1>7. d = e \/ e < d \/ e = d + 1 \/ d + 1 < e
  OBVIOUS
<1>8. CASE d = e
  BY <1>1, <1>3, <1>6, <1>8
<1>9. CASE e < d
  BY <1>1, <1>4, <1>9
<1>10. CASE e = d + 1
  BY <1>1, <1>3, <1>5, <1>10
<1>11. CASE d + 1 < e
  BY <1>1, <1>4, <1>11
<1> QED
  BY <1>7, <1>8, <1>9, <1>10, <1>11

\* find_next_meal finds the occurrence that starts first after now, on
\* whatever day.
LEMMA NextMealIsNext ==
    ASSUME TypeOK, NEW now \in Nat, InitializeMeal(now)
    PROVE  /\ \E d \in Nat : active'.start = StartOn(active'.meal, d)
           /\ active'.meal \in Meals /\ active'.end = EndOf(active'.meal, active'.start)
           /\ active'.start > now /\ state' = "WAITING"
           /\ \A m \in Meals, d \in Nat : StartOn(m, d) > now => active'.start <= StartOn(m, d)
<1> DEFINE n == now \div Day
<1>1. n \in Nat /\ n + 1 \in Nat /\ Midnight(now) = n * Day /\ n * Day \in Nat /\ Day \in Nat
  BY MidnightOf, DaysGrow, MealTrackerAssumption
<1>2. Midnight(now) <= now /\ now < Midnight(now) + Day
  BY MidnightBounds
<1>3. (n + 1) * Day = n * Day + Day
  BY <1>1
<1> HIDE DEF n
<1>4. PICK o \in Upcoming(now) :
        /\ \A p \in Upcoming(now) : o.start <= p.start
        /\ active' = [meal |-> o.meal, start |-> o.start, end |-> EndOf(o.meal, o.start)]
        /\ state' = "WAITING"
  BY DEF InitializeMeal
<1>5. o.meal \in Meals /\ o.start \in Nat /\ o.start > now
  BY <1>4, UpcomingLater
<1> DEFINE first(m)  == [meal |-> m, start |-> StartOn(m, n)]
           second(m) == [meal |-> m, start |-> StartOn(m, n + 1)]
           future    == {p \in Today(now) : p.start > now}
<1>6. Today(now) = {first(m) : m \in Meals} /\ Tomorrow(now) = {second(m) : m \in Meals}
  BY <1>1, <1>3 DEF Today, Tomorrow, StartOn
<1>7. Upcoming(now) = IF future # {} THEN future ELSE Tomorrow(now)
  BY DEF Upcoming
<1>8. \/ future # {} /\ o.start = StartOn(o.meal, n)
      \/ future = {} /\ o.start = StartOn(o.meal, n + 1)
  BY <1>4, <1>6, <1>7
<1>9. ASSUME NEW m \in Meals, NEW d \in Nat, StartOn(m, d) > now
      PROVE  o.start <= StartOn(m, d)
  <2>1. /\ StartOn(m, d) = d * Day + schedule[m].start /\ d * Day \in Nat
        /\ schedule[m].start \in Nat /\ schedule[m].start < Day
    BY OccurrenceTimes, ScheduleTyped
  <2>2. /\ d < n => d * Day + Day <= n * Day
        /\ n < d => n * Day + Day <= d * Day
    BY <1>1, DaysGrow
  <2>3. ~(d < n)
    BY <1>1, <1>2, <1>9, <2>1, <2>2
  <2>4. CASE d = n
    <3>1. first(m) \in future
      BY <1>6, <1>9, <2>4
    <3>2. first(m) \in Upcoming(now)
      BY <1>7, <3>1
    <3> QED
      BY <1>4, <2>4, <3>2
  <2>5. CASE n < d /\ future # {}
    <3>1. o.start = n * Day + schedule[o.meal].start
      BY <1>5, <1>8, <2>5 DEF StartOn
    <3>2. schedule[o.meal].start \in Nat /\ schedule[o.meal].start < Day
      BY <1>5, ScheduleTyped
    <3> QED
      BY <1>1, <2>1, <2>2, <2>5, <3>1, <3>2
  <2>6. CASE n < d /\ future = {}
    <3>1. second(m) \in Upcoming(now)
      BY <1>6, <1>7, <2>6
    <3>2. o.start <= StartOn(m, n + 1)
      BY <1>4, <3>1
    <3>3. StartOn(m, n + 1) = n * Day + Day + schedule[m].start
      BY <1>1, <1>3 DEF StartOn
    <3> QED
      BY <1>1, <1>5, <2>1, <2>2, <2>6, <3>2, <3>3
  <2> QED
    BY <1>1, <2>3, <2>4, <2>5, <2>6
<1>10. \E d \in Nat : o.start = StartOn(o.meal, d)
  BY <1>1, <1>8
<1>11. active'.meal = o.meal /\ active'.start = o.start /\ active'.end = EndOf(o.meal, o.start)
  BY <1>4
<1> QED
  BY <1>4, <1>5, <1>9, <1>10, <1>11

-----------------------------------------------------------------------------
(* Every meal is judged when ticks keep up.                                  *)

\* The meals judged are those up to the active one, which is the next of the
\* schedule; the clock has not passed what tick waits for.
OnTime ==
    /\ since <= clock
    /\ active.start = 0 => clock = since /\ called = 0
    /\ active.start # 0 =>
         /\ \E d \in Nat : active.start = StartOn(active.meal, d)
         /\ active.end = EndOf(active.meal, active.start)
         /\ called = 0 /\ state = "WAITING" => clock <= active.start
         /\ called = 0 /\ state = "RECORDING" => clock <= active.end
         /\ called # 0 => clock = called /\ clock = active.end /\ state = "RECORDING"
                          /\ Judged(active.meal, active.start)
         /\ \A m \in Meals, d \in Nat :
              since < StartOn(m, d) /\ StartOn(m, d) < active.start => Judged(m, StartOn(m, d))

InStep == up /\ ~late /\ Gapped

Followed ==
    /\ ~up => active.start = 0 /\ called = 0
    /\ InStep => OnTime

\* What a step that is not tick's leaves alone.
LEMMA FollowedFrame ==
    ASSUME Followed, UNCHANGED <<schedule, up, late, since, clock, state, active, called, rows>>
    PROVE  Followed'
  BY DEF Followed, InStep, OnTime, Gapped, EndOf, Midnight, StartOn, Judged

\* The clock was in step before, the schedule is what it was.
LEMMA StillInStep ==
    ASSUME Followed, InStep', schedule' = schedule, up' = up, late' = FALSE => late = FALSE,
           late \in BOOLEAN
    PROVE  InStep /\ OnTime
<1>1. Gapped
  BY DEF InStep, Gapped, EndOf, Midnight
<1> QED
  BY <1>1 DEF Followed, InStep

LEMMA InitFollowed == Init => Followed
<1> SUFFICES ASSUME Init PROVE Followed
  OBVIOUS
<1>1. active.start = 0 /\ called = 0 /\ up = TRUE /\ clock = 1 /\ since = 1
  BY NothingKnown DEF Init
<1> QED
  BY <1>1 DEF Followed, OnTime

LEMMA FollowedStep == Inv /\ Followed /\ [Next]_vars => Followed'
<1> SUFFICES ASSUME Inv, Followed, [Next]_vars PROVE Followed'
  OBVIOUS
<1>0. /\ TypeOK /\ clock \in Nat /\ since \in Nat /\ called \in Nat /\ rows \in Seq(Rows)
      /\ active \in Occurrences /\ active.start \in Nat /\ active.end \in Nat
      /\ active.meal \in Meals /\ clock >= 1 /\ up \in BOOLEAN /\ late \in BOOLEAN
      /\ state \in {"WAITING", "RECORDING"}
  BY DEF Inv, BowlInv, TypeOK, Occurrences, RowsBefore
<1>1. schedule' = schedule
  BY WorldStep DEF Inv
<1>2. \A m, d : StartOn(m, d)' = StartOn(m, d)
  BY <1>1 DEF StartOn
<1>3. \A m, s : EndOf(m, s)' = EndOf(m, s)
  BY <1>1 DEF EndOf, Midnight
<1>4. CASE Advance
  <2>1. /\ clock' = clock + 1 /\ late' = (late \/ TickDue)
        /\ UNCHANGED <<schedule, state, active, called, rows, up, since>>
    BY <1>4 DEF Advance, tickVars, lifeVars, worldVars
  <2>2. ASSUME InStep' PROVE OnTime'
    <3>1. InStep /\ OnTime /\ ~TickDue /\ up
      <4>1. ~late' /\ up'
        BY <2>2 DEF InStep
      <4>2. ~late /\ ~TickDue /\ up
        BY <2>1, <4>1
      <4> QED
        BY <1>0, <2>1, <2>2, <4>2, StillInStep
    <3>2. /\ active.start # 0 /\ called = 0
          /\ state = "WAITING" => clock + 1 <= active.start
          /\ state = "RECORDING" => clock + 1 <= active.end
      BY <1>0, <3>1 DEF TickDue
    <3> QED
      BY <1>0, <1>3, <2>1, <3>1, <3>2 DEF OnTime, StartOn, Judged
  <2> QED
    BY <2>1, <2>2 DEF Followed
<1>5. CASE FirstMeal
  <2>1. /\ UNCHANGED <<schedule, clock, called, rows, up, since, late>> /\ called = 0
        /\ active.start = 0 /\ up
        /\ active'.start > clock /\ state' = "WAITING"
        /\ \E d \in Nat : active'.start = StartOn(active'.meal, d)
        /\ active'.end = EndOf(active'.meal, active'.start)
        /\ active'.meal \in Meals
        /\ \A m \in Meals, d \in Nat : StartOn(m, d) > clock => active'.start <= StartOn(m, d)
    BY <1>0, <1>5, NextMealIsNext DEF FirstMeal, TickFrame, lifeVars, worldVars
  <2>2. ASSUME InStep' PROVE OnTime'
    <3>1. OnTime
      BY <1>0, <2>1, <2>2, StillInStep
    <3>2. clock = since
      BY <2>1, <3>1 DEF OnTime
    <3>3. active'.start \in Nat /\ active'.start # 0
      BY <1>0, <2>1, OccurrenceTimes
    <3>4. ASSUME NEW m \in Meals, NEW d \in Nat
          PROVE  ~(since < StartOn(m, d) /\ StartOn(m, d) < active'.start)
      <4>1. StartOn(m, d) \in Nat
        BY <1>0, OccurrenceTimes
      <4> QED
        BY <1>0, <2>1, <3>2, <3>3, <4>1
    <3> QED
      BY <1>0, <1>2, <1>3, <2>1, <3>2, <3>3, <3>4 DEF OnTime
  <2> QED
    BY <2>1, <2>2 DEF Followed
<1>6. CASE StartMeal
  <2>1. /\ UNCHANGED <<schedule, clock, called, active, rows, up, since, late>> /\ called = 0
        /\ active.start # 0 /\ state = "WAITING" /\ state' = "RECORDING"
        /\ clock >= active.start /\ up
    BY <1>6 DEF StartMeal, TickFrame, lifeVars, worldVars
  <2>2. ASSUME InStep' PROVE OnTime'
    <3>1. OnTime
      BY <1>0, <2>1, <2>2, StillInStep
    <3>2. PICK d \in Nat : active.start = StartOn(active.meal, d)
      BY <2>1, <3>1 DEF OnTime
    <3>3. active.start <= active.end /\ clock <= active.start
      BY <1>0, <2>1, <3>1, <3>2, OccurrenceTimes DEF OnTime
    <3> QED
      BY <1>0, <1>3, <2>1, <3>1, <3>3 DEF OnTime, StartOn, Judged
  <2> QED
    BY <2>1, <2>2 DEF Followed
<1>7. CASE EndMeal
  <2>1. /\ UNCHANGED <<schedule, clock, active, state, up, since, late>> /\ called' = clock
        /\ active.start # 0 /\ state = "RECORDING" /\ called = 0
        /\ clock >= active.end /\ up
    BY <1>7 DEF EndMeal, TickFrame, lifeVars, worldVars
  <2>2. PICK r \in Rows : rows' = Append(rows, r) /\ r.meal = active.meal /\ r.start = active.start
    BY <1>0, <1>7, RowTyped
  <2>3. /\ DOMAIN rows' = DOMAIN rows \cup {Len(rows) + 1}
        /\ rows'[Len(rows) + 1] = r
        /\ \A i \in DOMAIN rows : rows'[i] = rows[i]
    BY <1>0, <2>2
  <2>4. Judged(active.meal, active.start)'
    BY <2>1, <2>2, <2>3 DEF Judged
  <2>5. ASSUME NEW m, NEW s, Judged(m, s)
        PROVE  \E i \in DOMAIN rows' : rows'[i].meal = m /\ rows'[i].start = s
    BY <2>3, <2>5 DEF Judged
  <2>6. ASSUME InStep' PROVE OnTime'
    <3>1. OnTime
      BY <1>0, <2>1, <2>6, StillInStep
    <3>2. clock = active.end
      BY <1>0, <2>1, <3>1 DEF OnTime
    <3>3. \A m \in Meals, d \in Nat :
            since < StartOn(m, d) /\ StartOn(m, d) < active.start =>
              \E i \in DOMAIN rows' : rows'[i].meal = m /\ rows'[i].start = StartOn(m, d)
      BY <2>1, <2>5, <3>1 DEF OnTime
    <3>4. \A m \in Meals, d \in Nat :
            since' < StartOn(m, d)' /\ StartOn(m, d)' < active'.start =>
              Judged(m, StartOn(m, d))'
      BY <1>1, <2>1, <3>3 DEF Judged, StartOn
    <3>5. /\ \E d \in Nat : active.start = StartOn(active.meal, d)
          /\ active.end = EndOf(active.meal, active.start) /\ since <= clock
      BY <2>1, <3>1 DEF OnTime
    <3>6. /\ \E d \in Nat : active'.start = StartOn(active.meal, d)'
          /\ active'.end = EndOf(active.meal, active.start)' /\ since' <= clock'
      BY <1>1, <2>1, <3>5 DEF StartOn, EndOf, Midnight
    <3>7. /\ active'.start # 0 /\ state' = "RECORDING" /\ called' # 0
          /\ clock' = called' /\ clock' = active'.end
      BY <1>0, <2>1, <3>2
    <3> QED
      BY <2>4, <3>4, <3>6, <3>7 DEF OnTime
  <2> QED
    BY <2>1, <2>6 DEF Followed
<1>8. CASE FinishMeal
  <2>1. /\ UNCHANGED <<schedule, clock, rows, up, since, late>> /\ called # 0 /\ called' = 0
        /\ active'.start > called /\ state' = "WAITING" /\ up
        /\ \E d \in Nat : active'.start = StartOn(active'.meal, d)
        /\ active'.end = EndOf(active'.meal, active'.start)
        /\ active'.meal \in Meals
        /\ \A m \in Meals, d \in Nat : StartOn(m, d) > called => active'.start <= StartOn(m, d)
    BY <1>0, <1>8, NextMealIsNext DEF FinishMeal, TickFrame, lifeVars, worldVars
  <2>2. ASSUME InStep' PROVE OnTime'
    <3>1. InStep /\ OnTime
      BY <1>0, <2>1, <2>2, StillInStep
    <3>2. /\ active.start # 0 /\ clock = called /\ clock = active.end /\ since <= clock
          /\ active.end = EndOf(active.meal, active.start)
          /\ Judged(active.meal, active.start)
      BY <2>1, <3>1 DEF OnTime
    <3>3. PICK e \in Nat : active.start = StartOn(active.meal, e)
      BY <3>1, <3>2 DEF OnTime
    <3>4. active'.start \in Nat /\ active'.start # 0
      BY <1>0, <2>1, OccurrenceTimes
    <3>5. ASSUME NEW m \in Meals, NEW d \in Nat,
                 since < StartOn(m, d), StartOn(m, d) < active'.start
          PROVE  Judged(m, StartOn(m, d))
      <4>1. StartOn(m, d) \in Nat /\ StartOn(m, d) <= called
        <5>1. StartOn(m, d) \in Nat
          BY <1>0, OccurrenceTimes
        <5> QED
          BY <1>0, <2>1, <3>4, <3>5, <5>1
      <4>2. /\ active.start < StartOn(m, d) => active.end < StartOn(m, d)
            /\ active.start = StartOn(m, d) => m = active.meal
        BY <1>0, <3>1, <3>2, <3>3, MealsApart DEF InStep
      <4>3. StartOn(m, d) <= active.start
        BY <1>0, <3>2, <4>1, <4>2
      <4>4. CASE StartOn(m, d) = active.start
        BY <3>2, <4>2, <4>4
      <4>5. CASE StartOn(m, d) < active.start
        BY <3>1, <3>2, <3>5, <4>5 DEF OnTime
      <4> QED
        BY <1>0, <4>1, <4>3, <4>4, <4>5
    <3>6. \A m \in Meals, d \in Nat :
            since' < StartOn(m, d)' /\ StartOn(m, d)' < active'.start =>
              Judged(m, StartOn(m, d))'
      BY <1>1, <2>1, <3>5 DEF Judged, StartOn
    <3>7. /\ \E d \in Nat : active'.start = StartOn(active.meal, d)'
          /\ active'.end = EndOf(active.meal, active.start)' /\ since' <= clock'
      BY <1>1, <2>1, <3>2 DEF StartOn, EndOf, Midnight
    <3>8. clock' <= active'.start
      BY <1>0, <2>1, <3>2, <3>4
    <3> QED
      BY <2>1, <3>4, <3>6, <3>7, <3>8 DEF OnTime
  <2> QED
    BY <2>1, <2>2 DEF Followed
<1>9. CASE Crash
  BY <1>9, NothingKnown DEF Crash, Followed, InStep
<1>10. CASE Restart
  <2>1. /\ UNCHANGED <<clock, active, called>> /\ since' = clock /\ ~up /\ up'
    BY <1>10 DEF Restart, tickVars
  <2>2. active.start = 0 /\ called = 0
    BY <2>1 DEF Followed
  <2> QED
    BY <1>0, <2>1, <2>2 DEF Followed, OnTime
<1>11. ASSUME ~Advance, ~FirstMeal, ~StartMeal, ~EndMeal, ~FinishMeal, ~Crash, ~Restart
       PROVE  UNCHANGED <<up, late, since, clock, state, active, called, rows>>
  BY <1>11 DEF Next, vars, tickVars, lifeVars, Eat, Serve, Weigh, LogServed, StoreServed
<1> QED
  BY <1>1, <1>4, <1>5, <1>6, <1>7, <1>8, <1>9, <1>10, <1>11, FollowedFrame

\* The node judges what its schedule says, and in its order: a meal that is
\* over is not the active one nor after it.
LEMMA FollowedSchedule == Inv /\ Followed => ScheduleFollowed
<1> SUFFICES ASSUME Inv, Followed, InStep, NEW m \in Meals, NEW d \in 0 .. clock \div Day,
                    since < StartOn(m, d), EndOf(m, StartOn(m, d)) < clock
             PROVE  Judged(m, StartOn(m, d))
  BY DEF ScheduleFollowed, InStep, StartOn, Judged
<1>0. /\ TypeOK /\ clock \in Nat /\ since \in Nat /\ called \in Nat
      /\ active.start \in Nat /\ active.end \in Nat /\ active.meal \in Meals
      /\ state \in {"WAITING", "RECORDING"}
  BY DEF Inv, BowlInv, TypeOK, Occurrences
<1>1. d \in Nat
  BY <1>0, MidnightOf
<1>2. /\ StartOn(m, d) \in Nat /\ EndOf(m, StartOn(m, d)) \in Nat
      /\ StartOn(m, d) <= EndOf(m, StartOn(m, d))
  BY <1>0, <1>1, OccurrenceTimes
<1>3. OnTime
  BY DEF Followed
<1>4. active.start # 0
  BY <1>0, <1>2, <1>3 DEF OnTime
<1>5. PICK e \in Nat : active.start = StartOn(active.meal, e)
  BY <1>3, <1>4 DEF OnTime
<1>6. active.end = EndOf(active.meal, active.start) /\ active.start <= active.end
  BY <1>0, <1>3, <1>4, <1>5, OccurrenceTimes DEF OnTime
<1>7. clock <= active.end
  BY <1>0, <1>3, <1>4, <1>6 DEF OnTime
<1>8. /\ active.start < StartOn(m, d) => active.end < StartOn(m, d)
      /\ active.start = StartOn(m, d) => m = active.meal
  BY <1>0, <1>1, <1>5, <1>6, MealsApart DEF InStep
<1>9. StartOn(m, d) < active.start
  <2>1. ~(active.start < StartOn(m, d))
    BY <1>0, <1>2, <1>7, <1>8
  <2>2. active.start # StartOn(m, d)
    BY <1>0, <1>2, <1>6, <1>7, <1>8
  <2> QED
    BY <1>0, <1>2, <2>1, <2>2
<1> QED
  BY <1>1, <1>3, <1>4, <1>9 DEF OnTime

\* When ticks keep up and the schedule leaves room between meals, every meal
\* that began after the node started and is over has its verdict (tick,
\* find_next_meal, initialize_for_next_meal).
THEOREM EveryMealJudged == Spec => []ScheduleFollowed
<1>1. Inv /\ Followed /\ Inv' /\ [Next]_vars => Followed'
  BY FollowedStep
<1>2. Spec => []Followed
  BY InitFollowed, <1>1, Invariance, PTL DEF Spec
<1> QED
  BY <1>2, Invariance, FollowedSchedule, PTL
-----------------------------------------------------------------------------
(* A sum over a finite set.  The sums of its subsets are the one function in  *)
(* which a set's sum is that of the set without one member, plus the member's. *)

Pick(s) == CHOOSE x \in s : TRUE
Sums(a, S, g) ==
    g = [s \in SUBSET S |-> IF s = {} THEN 0 ELSE a[Pick(s)] + g[s \ {Pick(s)}]]

LEMMA PickIn == ASSUME NEW s, s # {} PROVE Pick(s) \in s
  BY DEF Pick

\* What induction over a finite set comes from: among subsets there is one that
\* has no other of them as a subset.
LEMMA Smallest ==
    ASSUME NEW S, IsFiniteSet(S), NEW T, T \subseteq SUBSET S, T # {}
    PROVE  \E s \in T : \A t \in T : t \subseteq s => t = s
<1> DEFINE R == StrictSubsetOrdering(S)
<1>1. IsWellFoundedOn(R, SUBSET S)
  BY FS_StrictSubsetOrderingWellFounded, FS_FiniteSubsetsOfFinite
<1>2. PICK s \in T : \A t \in T : ~ (<<t, s>> \in R)
  <2> HIDE DEF R
  <2> QED
    BY <1>1, WFMin
<1>3. ASSUME NEW t \in T, t \subseteq s, t # s PROVE FALSE
  <2>1. <<t, s>> \in R
    BY <1>3 DEF StrictSubsetOrdering
  <2> QED
    BY <1>2, <2>1
<1> QED
  BY <1>2, <1>3

\* Sums of the same numbers are the same, however large the sets they are part of.
LEMMA SumsAgree ==
    ASSUME NEW a, NEW b, NEW S, NEW U, NEW g, NEW h, Sums(a, S, g), Sums(b, U, h),
           NEW s, s \subseteq S \cap U, IsFiniteSet(s), \A x \in s : a[x] = b[x]
    PROVE  g[s] = h[s]
<1> DEFINE T == {t \in SUBSET s : g[t] # h[t]}
<1>1. SUFFICES ASSUME T # {} PROVE FALSE
  OBVIOUS
<1>2. PICK t \in T : \A u \in T : u \subseteq t => u = t
  <2>1. T \subseteq SUBSET s
    OBVIOUS
  <2> HIDE DEF T
  <2> QED
    BY <1>1, <2>1, Smallest
<1>3. t \in SUBSET S /\ t \in SUBSET U /\ t \subseteq s
  OBVIOUS
<1>4. CASE t = {}
  BY <1>3, <1>4 DEF Sums
<1>5. CASE t # {}
  <2> DEFINE p == Pick(t)
             u == t \ {p}
  <2>1. p \in t
    BY <1>5, PickIn
  <2>2. g[t] = a[p] + g[u] /\ h[t] = b[p] + h[u]
    BY <1>3, <1>5 DEF Sums
  <2>3. u \notin T
    BY <1>2, <2>1
  <2>4. g[u] = h[u]
    BY <1>3, <2>3
  <2>5. a[p] = b[p]
    BY <1>3, <2>1
  <2> QED
    BY <2>2, <2>4, <2>5
<1> QED
  BY <1>4, <1>5

LEMMA SumsExist ==
    ASSUME NEW a, NEW S, IsFiniteSet(S)
    PROVE  \E g : Sums(a, S, g)
<1> DEFINE T == {s \in SUBSET S : ~ \E g : Sums(a, s, g)}
<1>1. SUFFICES ASSUME T # {} PROVE FALSE
  OBVIOUS
<1>2. PICK s \in T : \A t \in T : t \subseteq s => t = s
  <2>1. T \subseteq SUBSET S
    OBVIOUS
  <2> HIDE DEF T
  <2> QED
    BY <1>1, <2>1, Smallest
<1> DEFINE G(t) == CHOOSE g : Sums(a, t, g)
           g == [t \in SUBSET s |->
                    IF t = {} THEN 0 ELSE a[Pick(t)] + G(t \ {Pick(t)})[t \ {Pick(t)}]]
<1>3. ASSUME NEW t, t \subseteq s, t # s PROVE Sums(a, t, G(t)) /\ IsFiniteSet(t)
  <2>1. t \notin T /\ t \in SUBSET S
    BY <1>2, <1>3
  <2>2. \E f : Sums(a, t, f)
    BY <2>1
  <2> QED
    BY <2>1, <2>2, FS_Subset
\* The sums of the smaller sets fit together.
<1>4. ASSUME NEW t, t \subseteq s, t # s PROVE g[t] = G(t)[t]
  <2>1. Sums(a, t, G(t))
    BY <1>3, <1>4
  <2>2. G(t)[t] = IF t = {} THEN 0 ELSE a[Pick(t)] + G(t)[t \ {Pick(t)}]
    <3> DEFINE f == G(t)
    <3>1. Sums(a, t, f)
      BY <2>1
    <3> HIDE DEF f
    <3>2. f[t] = IF t = {} THEN 0 ELSE a[Pick(t)] + f[t \ {Pick(t)}]
      BY <3>1 DEF Sums
    <3> QED
      BY <3>2 DEF f
  <2>3. CASE t = {}
    BY <1>4, <2>2, <2>3
  <2>4. CASE t # {}
    <3> DEFINE u == t \ {Pick(t)}
    <3>1. u \subseteq s /\ u # s /\ u \subseteq t
      BY <1>4
    <3>2. Sums(a, u, G(u)) /\ IsFiniteSet(u)
      BY <1>3, <3>1
    <3>3. G(t)[u] = G(u)[u]
      <4> HIDE DEF G, u
      <4> QED
        BY <2>1, <3>1, <3>2, SumsAgree
    <3>4. g[t] = a[Pick(t)] + G(u)[u]
      BY <1>4, <2>4
    <3> QED
      BY <2>2, <2>4, <3>3, <3>4
  <2> QED
    BY <2>3, <2>4
<1>5. ASSUME NEW t \in SUBSET s, t # {}
      PROVE  G(t \ {Pick(t)})[t \ {Pick(t)}] = g[t \ {Pick(t)}]
  <2>1. Pick(t) \in t
    BY <1>5, PickIn
  <2>2. t \ {Pick(t)} \subseteq s /\ t \ {Pick(t)} # s
    BY <2>1
  <2> HIDE DEF G, g
  <2> QED
    BY <1>4, <2>2
<1>6. g = [t \in SUBSET s |-> IF t = {} THEN 0 ELSE a[Pick(t)] + g[t \ {Pick(t)}]]
  <2> HIDE DEF G
  <2>1. \A t \in SUBSET s :
            g[t] = IF t = {} THEN 0 ELSE a[Pick(t)] + g[t \ {Pick(t)}]
    BY <1>5
  <2>2. g = [t \in SUBSET s |-> g[t]]
    OBVIOUS
  <2> HIDE DEF g
  <2> QED
    BY <2>1, <2>2
<1>7. Sums(a, s, g)
  BY <1>6 DEF Sums
<1> QED
  BY <1>2, <1>7

LEMMA SumsTyped ==
    ASSUME NEW a, NEW S, IsFiniteSet(S), NEW g, Sums(a, S, g), \A x \in S : a[x] \in Int
    PROVE  \A s \in SUBSET S : g[s] \in Int
<1> DEFINE T == {s \in SUBSET S : g[s] \notin Int}
<1>1. SUFFICES ASSUME T # {} PROVE FALSE
  OBVIOUS
<1>2. PICK s \in T : \A t \in T : t \subseteq s => t = s
  <2>1. T \subseteq SUBSET S
    OBVIOUS
  <2> HIDE DEF T
  <2> QED
    BY <1>1, <2>1, Smallest
<1>3. CASE s = {}
  BY <1>3 DEF Sums
<1>4. CASE s # {}
  <2> DEFINE p == Pick(s)
  <2>1. p \in s
    BY <1>4, PickIn
  <2>2. g[s] = a[p] + g[s \ {p}]
    BY <1>4 DEF Sums
  <2>3. s \ {p} \notin T
    BY <1>2, <2>1
  <2> QED
    BY <2>1, <2>2, <2>3
<1> QED
  BY <1>3, <1>4

\* Whichever member is taken out first.
LEMMA SumsTake ==
    ASSUME NEW a, NEW S, IsFiniteSet(S), NEW g, Sums(a, S, g), \A x \in S : a[x] \in Int,
           NEW s \in SUBSET S, NEW y \in s, NEW rest, rest = s \ {y}
    PROVE  g[s] = a[y] + g[rest]
<1> DEFINE Right(t, x) == g[t] = a[x] + g[t \ {x}]
           T == {t \in SUBSET S : \E x \in t : ~Right(t, x)}
<1>1. SUFFICES ASSUME T # {} PROVE FALSE
  OBVIOUS
<1>2. PICK t \in T : \A u \in T : u \subseteq t => u = t
  <2>1. T \subseteq SUBSET S
    OBVIOUS
  <2> HIDE DEF T
  <2> QED
    BY <1>1, <2>1, Smallest
<1>3. PICK x \in t : ~Right(t, x)
  BY <1>2
<1> DEFINE p == Pick(t)
           u == t \ {p}
           v == t \ {x}
           w == (t \ {p}) \ {x}
<1>4. p \in t /\ Right(t, p)
  BY <1>3, PickIn DEF Sums
<1>5. p # x
  BY <1>3, <1>4
<1>6. u \notin T /\ v \notin T
  BY <1>2, <1>3, <1>4
<1>7. Right(u, x) /\ Right(v, p)
  BY <1>3, <1>4, <1>5, <1>6
<1>8. v \ {p} = w /\ u \ {x} = w
  OBVIOUS
<1>9. a[p] \in Int /\ a[x] \in Int /\ g[w] \in Int
  <2>1. w \in SUBSET S
    OBVIOUS
  <2> QED
    BY <1>3, <1>4, <2>1, SumsTyped
<1>10. g[t] = a[p] + (a[x] + g[w]) /\ g[v] = a[p] + g[w]
  BY <1>4, <1>7, <1>8
<1>11. g[t] = a[x] + g[v]
  <2> HIDE DEF p, v, w
  <2> QED
    BY <1>9, <1>10
<1> QED
  BY <1>3, <1>11

\* With nothing negative in it, the larger set has the larger sum.
LEMMA SumsGrow ==
    ASSUME NEW a, NEW S, IsFiniteSet(S), NEW g, Sums(a, S, g), \A x \in S : a[x] \in Nat,
           NEW r, r \subseteq S
    PROVE  g[r] <= g[S]
<1> DEFINE T == {s \in SUBSET S : r \subseteq s /\ ~(g[r] <= g[s])}
<1>1. SUFFICES ASSUME T # {} PROVE FALSE
  <2>1. S \notin T
    BY <1>1
  <2> QED
    BY <2>1
<1>2. PICK s \in T : \A t \in T : t \subseteq s => t = s
  <2>1. T \subseteq SUBSET S
    OBVIOUS
  <2> HIDE DEF T
  <2> QED
    BY <1>1, <2>1, Smallest
<1>3. \A x \in S : a[x] \in Int
  OBVIOUS
<1>4. \A t \in SUBSET S : g[t] \in Int
  BY <1>3, SumsTyped
<1>5. PICK y \in s : y \notin r
  <2>1. s # r
    BY <1>2, <1>4
  <2> QED
    BY <1>2, <2>1
<1> DEFINE t == s \ {y}
<1>6. t \notin T
  BY <1>2, <1>5
<1>7. t \in SUBSET S /\ r \subseteq t
  BY <1>5
<1>8. g[r] <= g[t]
  BY <1>6, <1>7
<1>9. g[s] = a[y] + g[t]
  BY <1>3, <1>5, SumsTake
<1>10. a[y] \in Nat /\ g[t] \in Int /\ g[r] \in Int
  BY <1>4, <1>5, <1>7
<1>11. g[r] <= g[s]
  <2> HIDE DEF t
  <2> QED
    BY <1>8, <1>9, <1>10
<1> QED
  BY <1>11

-----------------------------------------------------------------------------
(* The totals of days.                                                        *)

\* What SumOf adds up, the rows being r.
Amounts(r) == [i \in DOMAIN r |-> r[i].amount]
Adding(r, I) ==
    CHOOSE g : g = [s \in SUBSET I |->
                        IF s = {} THEN 0 ELSE r[Pick(s)].amount + g[s \ {Pick(s)}]]
Total(r, I) == Adding(r, I)[I]

LEMMA TotalIs ==
    ASSUME NEW r, NEW I, I \subseteq DOMAIN r, IsFiniteSet(I)
    PROVE  \E g : Sums(Amounts(r), I, g) /\ Total(r, I) = g[I]
<1> DEFINE Adds(g) ==
        g = [s \in SUBSET I |-> IF s = {} THEN 0 ELSE r[Pick(s)].amount + g[s \ {Pick(s)}]]
           g == CHOOSE f : Adds(f)
<1>1. Total(r, I) = g[I]
  BY DEF Total, Adding
<1>2. ASSUME NEW f PROVE Sums(Amounts(r), I, f) <=> Adds(f)
  <2>1. \A s \in SUBSET I : s # {} => Amounts(r)[Pick(s)] = r[Pick(s)].amount
    BY PickIn DEF Amounts
  <2> QED
    BY <2>1 DEF Sums
<1>3. \E f : Adds(f)
  BY <1>2, SumsExist
<1>4. Adds(g)
  BY <1>3
<1> HIDE DEF Adds, g
<1> QED
  BY <1>1, <1>2, <1>4

\* The rows of meals count from 1; a total of some is an integer, and takes a
\* row in and out.
LEMMA TotalTakes ==
    ASSUME NEW r \in Seq(Rows), NEW I, I \subseteq DOMAIN r
    PROVE  /\ Total(r, I) \in Int
           /\ \A n \in I : Total(r, I) = r[n].amount + Total(r, I \ {n})
<1>1. \A i \in I : Amounts(r)[i] = r[i].amount /\ Amounts(r)[i] \in Int
  <2>1. \A i \in I : r[i] \in Rows
    OBVIOUS
  <2>2. \A i \in I : r[i].amount \in Int
    BY <2>1 DEF Rows
  <2> QED
    BY <2>2 DEF Amounts
<1>2. IsFiniteSet(I) /\ I \in SUBSET I
  <2>1. IsFiniteSet(1 .. Len(r)) /\ DOMAIN r = 1 .. Len(r)
    BY FS_Interval
  <2> QED
    BY <2>1, FS_Subset
<1>3. PICK g : Sums(Amounts(r), I, g) /\ Total(r, I) = g[I]
  BY <1>2, TotalIs
<1>4. \A s \in SUBSET I : g[s] \in Int
  BY <1>1, <1>2, <1>3, SumsTyped
<1>6. ASSUME NEW n \in I PROVE Total(r, I) = r[n].amount + Total(r, I \ {n})
  <2> DEFINE J == I \ {n}
  <2>1. IsFiniteSet(J) /\ J \subseteq DOMAIN r /\ J \subseteq I
    BY <1>2, FS_Subset
  <2>2. PICK h : Sums(Amounts(r), J, h) /\ Total(r, J) = h[J]
    BY <2>1, TotalIs
  <2>3. g[J] = h[J]
    BY <1>3, <2>1, <2>2, SumsAgree
  <2>4. g[I] = Amounts(r)[n] + g[J]
    BY <1>1, <1>2, <1>3, <1>6, SumsTake
  <2> QED
    BY <1>1, <1>3, <2>2, <2>3, <2>4
<1> QED
  BY <1>2, <1>3, <1>4, <1>6

\* Of meals, more rows make a larger total.
LEMMA TotalGrows ==
    ASSUME NEW r \in Seq(Rows), NEW I, I \subseteq DOMAIN r, \A i \in I : IsMeal(r[i]),
           NEW J, J \subseteq I
    PROVE  Total(r, J) <= Total(r, I) /\ 0 <= Total(r, I)
<1>1. \A i \in I : Amounts(r)[i] \in Nat
  <2>1. \A i \in I : r[i] \in Rows /\ IsMeal(r[i])
    OBVIOUS
  <2>2. \A i \in I : r[i].amount \in Nat
    BY <2>1, MealTrackerAssumption DEF Rows, IsMeal
  <2> QED
    BY <2>2 DEF Amounts
<1>2. IsFiniteSet(I)
  <2>1. IsFiniteSet(1 .. Len(r)) /\ DOMAIN r = 1 .. Len(r)
    BY FS_Interval
  <2> QED
    BY <2>1, FS_Subset
<1>3. PICK g : Sums(Amounts(r), I, g) /\ Total(r, I) = g[I]
  BY <1>2, TotalIs
<1>4. IsFiniteSet(J) /\ J \subseteq DOMAIN r
  BY <1>2, FS_Subset
<1>5. PICK h : Sums(Amounts(r), J, h) /\ Total(r, J) = h[J]
  BY <1>4, TotalIs
<1>6. g[J] = h[J]
  BY <1>3, <1>4, <1>5, SumsAgree
<1>7. g[J] <= g[I] /\ g[{}] <= g[I]
  BY <1>1, <1>2, <1>3, SumsGrow
<1>8. g[{}] = 0
  BY <1>3 DEF Sums
<1> QED
  BY <1>3, <1>5, <1>6, <1>7, <1>8

\* What is appended later leaves it alone.
LEMMA TotalStays ==
    ASSUME NEW r \in Seq(Rows), NEW q, DOMAIN r \subseteq DOMAIN q,
           \A i \in DOMAIN r : q[i] = r[i], NEW I, I \subseteq DOMAIN r
    PROVE  Total(q, I) = Total(r, I)
<1>1. IsFiniteSet(I)
  <2>1. IsFiniteSet(1 .. Len(r)) /\ DOMAIN r = 1 .. Len(r)
    BY FS_Interval
  <2> QED
    BY <2>1, FS_Subset
<1>2. PICK g : Sums(Amounts(r), I, g) /\ Total(r, I) = g[I]
  BY <1>1, TotalIs
<1>3. PICK h : Sums(Amounts(q), I, h) /\ Total(q, I) = h[I]
  BY <1>1, TotalIs
<1>4. \A i \in I : Amounts(r)[i] = Amounts(q)[i]
  BY DEF Amounts
<1>5. g[I] = h[I]
  BY <1>1, <1>2, <1>3, <1>4, SumsAgree
<1> QED
  BY <1>2, <1>3, <1>5

\* DayTotalRight of one total.
EatenIn(r, date, n) == {i \in 1 .. n - 1 : IsMeal(r[i]) /\ r[i].start \div Day = date}
TotalRight(r, t) ==
    LET before == EatenIn(r, t.date, t.last)
        truth  == r[t.last].amount + Total(r, before)
    IN  /\ t.total <= truth
        /\ t.summed /\ (\A i \in before : r[i].stored) => t.total = truth

LEMMA TotalsRight ==
    /\ DayTotalRight <=> \A k \in DOMAIN totals : TotalRight(rows, totals[k])
    /\ DayTotalRight' <=> \A k \in DOMAIN totals' : TotalRight(rows', totals'[k])
<1>1. DayTotalRight <=> \A k \in DOMAIN totals : TotalRight(rows, totals[k])
  BY DEF DayTotalRight, TotalRight, EatenBefore, EatenIn, Total, Adding, SumOf, MapThenSumSet,
         MapThenFoldSet, Pick
<1>2. DayTotalRight' <=> \A k \in DOMAIN totals' : TotalRight(rows', totals'[k])
  BY DEF DayTotalRight, TotalRight, EatenBefore, EatenIn, Total, Adding, SumOf, MapThenSumSet,
         MapThenFoldSet, Pick
<1> QED
  BY <1>1, <1>2

-----------------------------------------------------------------------------
(* The totals are right.                                                     *)

Totals == [date : Nat, last : Nat, summed : BOOLEAN, total : Int]

\* The row of the meal tick is busy with is the last; a total stays that of the
\* rows it was made from.
LastRow  == called # 0 =>
                /\ Len(rows) \in DOMAIN rows
                /\ rows[Len(rows)].meal = active.meal /\ rows[Len(rows)].start = active.start
AllRight == \A k \in DOMAIN totals :
                totals[k].last \in DOMAIN rows /\ TotalRight(rows, totals[k])

TotalsInv == totals \in Seq(Totals) /\ LastRow /\ AllRight

\* Of what began before a time, what began that day is what began since midnight.
LEMMA SameDay ==
    ASSUME NEW s \in Nat, NEW t \in Nat, s <= t
    PROVE  s >= Midnight(t) <=> s \div Day = t \div Day
<1> DEFINE d == s \div Day
           e == t \div Day
<1>1. /\ d \in Nat /\ Midnight(s) = d * Day /\ e \in Nat /\ Midnight(t) = e * Day
      /\ Midnight(s) \in Nat /\ Midnight(s) <= s /\ s < Midnight(s) + Day
      /\ Midnight(t) \in Nat /\ Midnight(t) <= t /\ t < Midnight(t) + Day
      /\ Day \in Nat
  BY MidnightOf, MidnightBounds, MealTrackerAssumption
<1>2. /\ d < e => d * Day + Day <= e * Day
      /\ e < d => e * Day + Day <= d * Day
  BY <1>1, DaysGrow
<1> SUFFICES s >= Midnight(t) <=> d = e
  OBVIOUS
<1> HIDE DEF d, e
<1> QED
  BY <1>1, <1>2

\* SumOf is the total of the rows as they are.
LEMMA SumIsTotal == ASSUME NEW I PROVE SumOf(I) = Total(rows, I)
  BY DEF SumOf, MapThenSumSet, MapThenFoldSet, Total, Adding, Pick

\* The meals that count for a total are meals of its rows.
LEMMA EatenTyped ==
    ASSUME NEW r \in Seq(Rows), NEW n \in DOMAIN r, NEW date
    PROVE  EatenIn(r, date, n) \subseteq DOMAIN r
  BY DEF EatenIn

\* A total stays right when rows are appended.
LEMMA RightStays ==
    ASSUME NEW r \in Seq(Rows), NEW q \in Seq(Rows), DOMAIN r \subseteq DOMAIN q,
           \A i \in DOMAIN r : q[i] = r[i],
           NEW t \in Totals, t.last \in DOMAIN r, TotalRight(r, t)
    PROVE  t.last \in DOMAIN q /\ TotalRight(q, t)
<1> DEFINE I == EatenIn(r, t.date, t.last)
<1>1. I \subseteq DOMAIN r
  BY EatenTyped
<1>2. EatenIn(q, t.date, t.last) = I
  <2>1. \A i \in 1 .. t.last - 1 : q[i] = r[i]
    OBVIOUS
  <2> QED
    BY <2>1 DEF EatenIn
<1>3. Total(q, I) = Total(r, I)
  BY <1>1, TotalStays
<1>4. q[t.last] = r[t.last] /\ t.last \in DOMAIN q
  OBVIOUS
<1>5. \A i \in I : q[i] = r[i]
  BY <1>1
<1> HIDE DEF I
<1> QED
  BY <1>2, <1>3, <1>4, <1>5 DEF TotalRight, I

\* What tick makes of the rows when it adds a total.
LEMMA TotalMadeRight ==
    ASSUME Inv, TotalsInv, called # 0, NEW failed \in BOOLEAN,
           NEW t, t = [date |-> called \div Day, last |-> Len(rows), summed |-> ~failed,
                       total |-> rows[Len(rows)].amount + (IF failed THEN 0 ELSE SumOf(Earlier))]
    PROVE  t \in Totals /\ t.last \in DOMAIN rows /\ TotalRight(rows, t)
<1> DEFINE n == Len(rows)
           date == called \div Day
           before == EatenIn(rows, date, n)
<1>1. /\ rows \in Seq(Rows) /\ n \in DOMAIN rows /\ n \in Nat /\ DOMAIN rows = 1 .. n
      /\ called \in Nat /\ Day \in Nat \ {0}
      /\ rows[n].meal = active.meal /\ rows[n].start = active.start
  BY MealTrackerAssumption DEF Inv, BowlInv, TypeOK, TotalsInv, LastRow
<1>2. \A i \in DOMAIN rows : rows[i].start \in Nat /\ rows[i].amount \in Int
  <2>1. \A i \in DOMAIN rows : rows[i] \in Rows
    BY <1>1
  <2> QED
    BY <2>1 DEF Rows
<1>3. date \in Nat
  BY <1>1, MidnightOf
<1>4. ASSUME NEW i \in DOMAIN rows
      PROVE  rows[i].start >= Midnight(called) <=> rows[i].start \div Day = date
  <2>1. rows[i].start <= called
    BY <1>4 DEF Inv, RowsBefore
  <2> QED
    BY <1>1, <1>2, <1>4, <2>1, SameDay
<1> HIDE DEF date
<1>5. ASSUME NEW i \in DOMAIN rows
      PROVE  <<rows[i].meal, rows[i].start>> # <<active.meal, active.start>> <=> i # n
  <2>1. i # n => <<rows[i].meal, rows[i].start>> # <<rows[n].meal, rows[n].start>>
    BY <1>1, <1>5 DEF Inv, OneOutcome
  <2> QED
    BY <1>1, <2>1
<1>6. Earlier \subseteq before
  BY <1>1, <1>4, <1>5 DEF Earlier, EatenIn
<1>7. ASSUME \A i \in before : rows[i].stored PROVE Earlier = before
  <2>1. ASSUME NEW i \in before PROVE i \in Earlier
    <3>1. i \in DOMAIN rows /\ i # n /\ IsMeal(rows[i]) /\ rows[i].start \div Day = date
      BY <1>1, <2>1 DEF EatenIn
    <3>2. rows[i].start >= Midnight(called)
      BY <1>4, <3>1
    <3>3. <<rows[i].meal, rows[i].start>> # <<active.meal, active.start>>
      BY <1>5, <3>1
    <3> QED
      BY <1>7, <2>1, <3>1, <3>2, <3>3 DEF Earlier
  <2> QED
    BY <1>6, <2>1
<1>8. before \subseteq DOMAIN rows /\ \A i \in before : IsMeal(rows[i])
  BY <1>1 DEF EatenIn
<1>9. Earlier \subseteq DOMAIN rows
  BY <1>6, <1>8
<1>10. t.date = date /\ t.last = n
  BY DEF date
<1> HIDE DEF before
<1>11. Total(rows, Earlier) <= Total(rows, before) /\ 0 <= Total(rows, before)
  BY <1>1, <1>6, <1>8, TotalGrows
<1>12. Total(rows, Earlier) \in Int /\ Total(rows, before) \in Int
  BY <1>1, <1>8, <1>9, TotalTakes
<1>13. SumOf(Earlier) = Total(rows, Earlier)
  BY SumIsTotal
<1>14. /\ t.summed = ~failed
       /\ t.total = rows[n].amount + (IF failed THEN 0 ELSE Total(rows, Earlier))
  BY <1>13
<1>15. rows[n].amount \in Int
  BY <1>1, <1>2
<1> HIDE DEF n
<1>16. t \in Totals
  <2>1. t.total \in Int
    BY <1>12, <1>14, <1>15
  <2> QED
    BY <1>1, <1>3, <1>10, <2>1 DEF Totals
<1>17. t.total <= rows[n].amount + Total(rows, before)
  BY <1>11, <1>12, <1>14, <1>15
<1>18. ASSUME t.summed, \A i \in before : rows[i].stored
       PROVE  t.total = rows[n].amount + Total(rows, before)
  BY <1>7, <1>14, <1>18
<1>19. TotalRight(rows, t)
  <2>1. EatenIn(rows, t.date, t.last) = before
    BY <1>10 DEF before
  <2> QED
    BY <1>10, <1>17, <1>18, <2>1 DEF TotalRight
<1> QED
  BY <1>1, <1>10, <1>16, <1>19

\* A step that leaves rows and totals alone.
LEMMA TotalsFrame ==
    ASSUME TotalsInv, UNCHANGED <<rows, totals>>,
           called' # 0 => called' = called /\ active' = active
    PROVE  TotalsInv'
<1>1. AllRight'
  BY DEF TotalsInv, AllRight
<1> QED
  BY <1>1 DEF TotalsInv, LastRow

LEMMA InitTotals == Init => TotalsInv
<1> SUFFICES ASSUME Init PROVE TotalsInv
  OBVIOUS
<1>1. rows = <<>> /\ totals = <<>> /\ called = 0
  BY DEF Init
<1> QED
  BY <1>1 DEF TotalsInv, LastRow, AllRight

LEMMA TotalsStep == Inv /\ TotalsInv /\ [Next]_vars => TotalsInv'
<1> SUFFICES ASSUME Inv, TotalsInv, [Next]_vars PROVE TotalsInv'
  OBVIOUS
<1>0. /\ TypeOK /\ rows \in Seq(Rows) /\ totals \in Seq(Totals)
      /\ LastRow /\ AllRight
  BY DEF Inv, BowlInv, TypeOK, TotalsInv
<1>1. CASE EndMeal
  <2>1. PICK failed \in BOOLEAN :
          /\ Fault(failed)
          /\ rows' = Append(rows,
               [meal |-> active.meal, start |-> active.start,
                amount |-> Intake(reading[ActiveBowl]),
                eaten |-> reading[ActiveBowl].eaten - initial.eaten, stored |-> ~failed])
    BY <1>1 DEF EndMeal
  <2>2. UNCHANGED <<active, totals>>
    BY <1>1 DEF EndMeal
  <2>3. PICK r \in Rows : rows' = Append(rows, r)
    BY <1>0, <1>1, RowTyped
  <2>4. /\ rows' \in Seq(Rows) /\ Len(rows') = Len(rows) + 1 /\ Len(rows) + 1 \in DOMAIN rows'
        /\ DOMAIN rows' = DOMAIN rows \cup {Len(rows) + 1}
        /\ \A i \in DOMAIN rows : rows'[i] = rows[i]
    BY <1>0, <2>3
  <2>5. /\ rows'[Len(rows')].meal = active.meal /\ rows'[Len(rows')].start = active.start
    BY <1>0, <2>1
  <2>6. LastRow'
    BY <2>2, <2>4, <2>5 DEF LastRow
  <2>7. \A k \in DOMAIN totals :
          totals[k].last \in DOMAIN rows' /\ TotalRight(rows', totals[k])
    <3>1. \A k \in DOMAIN totals : totals[k] \in Totals
      BY <1>0
    <3> QED
      BY <1>0, <2>4, <3>1, RightStays DEF AllRight
  <2>8. AllRight'
    BY <2>2, <2>7 DEF AllRight
  <2> QED
    BY <1>0, <2>2, <2>6, <2>8 DEF TotalsInv
<1>2. CASE FinishMeal /\ IsMeal(rows[Len(rows)])
  <2>1. /\ called # 0 /\ DayTotal /\ called' = 0 /\ rows' = rows
    BY <1>2 DEF FinishMeal
  <2>2. PICK failed \in BOOLEAN :
          totals' = Append(totals,
               [date |-> called \div Day, last |-> Len(rows), summed |-> ~failed,
                total |-> rows[Len(rows)].amount + (IF failed THEN 0 ELSE SumOf(Earlier))])
    BY <2>1 DEF DayTotal
  <2> DEFINE t == [date |-> called \div Day, last |-> Len(rows), summed |-> ~failed,
                   total |-> rows[Len(rows)].amount + (IF failed THEN 0 ELSE SumOf(Earlier))]
  <2>3. t \in Totals /\ t.last \in DOMAIN rows /\ TotalRight(rows, t)
    BY <2>1, TotalMadeRight
  <2>4. totals' = Append(totals, t)
    BY <2>2
  <2> HIDE DEF t
  <2>5. /\ totals' \in Seq(Totals)
        /\ \A k \in DOMAIN totals' :
             totals'[k] = t \/ (k \in DOMAIN totals /\ totals'[k] = totals[k])
    BY <1>0, <2>3, <2>4
  <2>6. \A k \in DOMAIN totals' :
          totals'[k].last \in DOMAIN rows /\ TotalRight(rows, totals'[k])
    BY <1>0, <2>3, <2>5 DEF AllRight
  <2>7. AllRight'
    BY <2>1, <2>6 DEF AllRight
  <2> QED
    BY <2>1, <2>5, <2>7 DEF TotalsInv, LastRow
<1>3. CASE ~EndMeal /\ ~(FinishMeal /\ IsMeal(rows[Len(rows)]))
  <2>1. /\ UNCHANGED <<rows, totals>>
        /\ called' # 0 => called' = called /\ active' = active
    BY <1>3 DEF Next, vars, tickVars, Advance, Crash, Restart, Eat, Serve, Weigh, LogServed,
                StoreServed, FirstMeal, StartMeal, FinishMeal
  <2> QED
    BY <2>1, TotalsFrame
<1> QED
  BY <1>1, <1>2, <1>3

\* A day's total is that of the meal just over and of those before it that began
\* that day, and short only of rows the database refused and of a sum it failed
\* to give (tick, get_daily_food_intake).
THEOREM DayTotalsRight == Spec => []DayTotalRight
<1>1. Inv /\ TotalsInv /\ Inv' /\ [Next]_vars => TotalsInv'
  BY TotalsStep
<1>2. Spec => []TotalsInv
  BY InitTotals, <1>1, Invariance, PTL DEF Spec
<1>3. TotalsInv => DayTotalRight
  BY TotalsRight DEF TotalsInv, AllRight
<1> QED
  BY <1>2, <1>3, PTL
=============================================================================
