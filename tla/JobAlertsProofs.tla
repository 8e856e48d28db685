--------------------------- MODULE JobAlertsProofs ---------------------------
(* Theorems about JobAlerts for all schedules, conditions, retention times and *)
(* faults.                                                                     *)
EXTENDS JobAlerts, TLAPS

-----------------------------------------------------------------------------
(* The process of a job by its fields: every step sets some of them.          *)

Fields == {"at", "since", "todo", "check", "keys", "logged", "owed"}
Make(since, at, todo, check, keys, logged, owed) ==
    [x \in Fields |->
        IF x = "at" THEN at ELSE IF x = "todo" THEN todo ELSE IF x = "check" THEN check
        ELSE IF x = "keys" THEN keys ELSE IF x = "logged" THEN logged
        ELSE IF x = "owed" THEN owed ELSE since]
HasFields(p) == p = [x \in Fields |-> p[x]]

Places == {"config", "config row", "fetch", "rows", "row", "feed", "feed rows", "feed event",
           "care", "care rows", "care event", "end", "read", "event", "notify", "alert row", "next"}
Kinds == Conditions \cup {"feed", "care"}

LEMMA MakeFields ==
    ASSUME NEW since, NEW at, NEW todo, NEW check, NEW keys, NEW logged, NEW owed
    PROVE  /\ Make(since, at, todo, check, keys, logged, owed).since = since
           /\ Make(since, at, todo, check, keys, logged, owed).at = at
           /\ Make(since, at, todo, check, keys, logged, owed).todo = todo
           /\ Make(since, at, todo, check, keys, logged, owed).check = check
           /\ Make(since, at, todo, check, keys, logged, owed).keys = keys
           /\ Make(since, at, todo, check, keys, logged, owed).logged = logged
           /\ Make(since, at, todo, check, keys, logged, owed).owed = owed
  BY DEF Make, Fields

LEMMA MakeRecord ==
    ASSUME NEW since, NEW at, NEW todo, NEW check, NEW keys, NEW logged, NEW owed
    PROVE  Make(since, at, todo, check, keys, logged, owed) =
             [at |-> at, since |-> since, todo |-> todo, check |-> check, keys |-> keys,
              logged |-> logged, owed |-> owed]
  BY DEF Make, Fields

LEMMA MakeType ==
    ASSUME NEW since \in Nat, NEW at \in Places, NEW todo \in SUBSET Schedules, NEW check \in Nat,
           NEW keys \in SUBSET KeyType, NEW logged \in SUBSET Kinds, NEW owed \in SUBSET KeyType
    PROVE  Make(since, at, todo, check, keys, logged, owed) \in Process
  BY MakeRecord DEF Process, Places, Kinds

LEMMA RecordHasFields ==
    ASSUME NEW A, NEW T, NEW K, NEW L,
           NEW p \in [at : A, since : Nat, todo : T, check : Nat, keys : K, logged : L, owed : K]
    PROVE  HasFields(p)
  BY DEF HasFields, Fields

LEMMA ProcessFields ==
    ASSUME NEW p \in Process
    PROVE  /\ HasFields(p)
           /\ p = Make(p.since, p.at, p.todo, p.check, p.keys, p.logged, p.owed)
           /\ p.since \in Nat /\ p.at \in Places /\ p.todo \subseteq Schedules /\ p.check \in Nat
           /\ p.keys \subseteq KeyType /\ p.logged \subseteq Kinds /\ p.owed \subseteq KeyType
<1> DEFINE Names == SUBSET Kinds
<1>1. p \in [at : Places, since : Nat, todo : SUBSET Schedules, check : Nat,
             keys : SUBSET KeyType, logged : Names, owed : SUBSET KeyType]
  BY DEF Process, Places, Kinds
<1>2. HasFields(p)
  <2> HIDE DEF Names
  <2> QED
    BY <1>1, RecordHasFields
<1>3. p = Make(p.since, p.at, p.todo, p.check, p.keys, p.logged, p.owed)
  BY <1>2 DEF HasFields, Make, Fields
<1>4. QED
  BY <1>1, <1>2, <1>3

-----------------------------------------------------------------------------
(* Types.  An alert job that deals with a condition is within its sequence.   *)

Dealing == {"event", "notify", "alert row", "next"}
Checked(j, p) ==
    /\ 1 <= p.check /\ p.check <= Len(Checks[j]) + 1
    /\ p.at \in Dealing => p.check <= Len(Checks[j])
Good(j, p) == p \in Process /\ (j \in AlertJobs => Checked(j, p))

ProcTyped ==
    /\ DOMAIN proc = Jobs
    /\ \A j \in Jobs : proc[j] # None => j \in jobs /\ Good(j, proc[j])
Typed == TypeOK /\ ProcTyped

LEMMA ConditionType ==
    ASSUME NEW j \in AlertJobs, Good(j, proc[j]), proc[j].at \in Dealing
    PROVE  Condition(j) \in Conditions
<1>1. Checks[j] \in Seq(Conditions)
  BY AlertAssumption
<1>2. proc[j].check \in Nat /\ 1 <= proc[j].check /\ proc[j].check <= Len(Checks[j])
  BY ProcessFields DEF Good, Checked
<1>3. proc[j].check \in 1 .. Len(Checks[j])
  BY <1>1, <1>2
<1>4. QED
  BY <1>1, <1>3 DEF Condition

LEMMA TodayType == ASSUME clock \in Nat PROVE Today \in Nat
<1>1. \A a \in Nat, b \in Nat \ {0} : a \div b \in Nat
  OBVIOUS
<1>2. QED
  BY <1>1, AlertAssumption DEF Today, DateOf

LEMMA DateType == ASSUME NEW t \in Nat PROVE DateOf(t) \in Nat
<1>1. \A a \in Nat, b \in Nat \ {0} : a \div b \in Nat
  OBVIOUS
<1>2. QED
  BY <1>1, AlertAssumption DEF DateOf

LEMMA KeyTyped ==
    ASSUME NEW kind \in {"config", "remind", "feed", "overdue", "alert"},
           NEW id \in Schedules \cup Conditions, NEW date \in Nat \cup {None}
    PROVE  Key(kind, id, date) \in KeyType
  BY DEF Key, KeyType

LEMMA OneProcess ==
    ASSUME Typed, NEW j \in Jobs, NEW p, p = None \/ (j \in jobs /\ Good(j, p)), Set(j, p),
           jobs' = jobs
    PROVE  ProcTyped'
  BY DEF Typed, ProcTyped, Set, Good, Checked, Conditions, Schedules, AlertJobs

-----------------------------------------------------------------------------
(* The steps, by what they do to a process and to the notices.                *)

Same == UNCHANGED <<world, notices, ever>>

\* The keys a job may look for.
Owns(j, k) ==
    \/ k.kind \in {"config", "remind"} /\ j = "dispatch"
    \/ k.kind \in {"feed", "overdue"} /\ j = "overdue"
    \/ k.kind = "alert" /\ j \in AlertJobs /\ \E i \in DOMAIN Checks[j] : Checks[j][i] = k.id
Sought(j, k) ==
    /\ k \in KeyType /\ Owns(j, k)
    /\ k.kind \in {"config", "remind"} => k.id \in proc[j].todo
    /\ k.kind = "config" => k.date = DateOf(proc[j].since)
    /\ k.kind \in {"remind", "feed", "overdue"} => k.date = Today
    /\ k.kind = "alert" => k.date = None

\* The keys stay as they are.
Passes(j) ==
    \E at \in Places, todo \in SUBSET Schedules, check \in Nat, logged \in SUBSET Kinds,
       owed \in SUBSET KeyType :
        LET q == Make(proc[j].since, at, todo, check, proc[j].keys, logged, owed) IN
        /\ proc[j] # None /\ Good(j, q) /\ Set(j, q)
        /\ todo \subseteq proc[j].todo \/ todo \subseteq DueCare
        /\ Same

\* It has looked for keys.
Looks(j) ==
    \E at \in Places, todo \in SUBSET Schedules, owed \in SUBSET KeyType, ks \in SUBSET KeyType :
        LET q == Make(proc[j].since, at, todo, proc[j].check, Missing(ks), proc[j].logged, owed) IN
        /\ proc[j] # None /\ Good(j, q) /\ Set(j, q)
        /\ \A k \in ks : Sought(j, k)
        /\ todo \subseteq proc[j].todo
        /\ Same

\* It has inserted rows for its keys, or failed to.
Rows(j) ==
    {[key |-> k, at |-> clock, since |-> proc[j].since, nth |-> Times(k)] : k \in proc[j].keys}
Writes(j) ==
    \E at \in Places, owed \in SUBSET KeyType, new \in {{}, Rows(j)} :
        LET q == Make(proc[j].since, at, proc[j].todo, proc[j].check, {}, proc[j].logged, owed) IN
        /\ proc[j] # None /\ Good(j, q) /\ Set(j, q)
        /\ notices' = notices \cup new /\ ever' = ever \cup new
        /\ UNCHANGED world

\* It ends, where nothing is left to do.
Last(j) ==
    \/ j = "dispatch" /\ At(j, "rows") /\ proc[j].todo = {}
    \/ j = "overdue" /\ At(j, "end")
    \/ j \in AlertJobs /\ At(j, "read") /\ proc[j].check > Len(Checks[j])
Ends(j) == Set(j, None) /\ Same /\ Last(j)

Starts(j) ==
    \E at \in Places, todo \in {{}, DueConfig}, owed \in SUBSET KeyType :
        LET q == Make(clock, at, todo, 1, {}, {}, owed) IN
        /\ Good(j, q) /\ Set(j, q) /\ j \in jobs
        /\ due' \subseteq due /\ runs' = runs + 1
        /\ UNCHANGED <<clock, jobs, user, done, bad, notices, ever>>

\* A key is owed no longer.
Filtered ==
    /\ DOMAIN proc' = Jobs
    /\ \A j \in Jobs :
        /\ proc[j] = None => proc'[j] = None
        /\ proc[j] # None => \E owed \in SUBSET KeyType :
            LET p == proc[j] IN
            proc'[j] = Make(p.since, p.at, p.todo, p.check, p.keys, p.logged, owed)
    /\ ever' = ever /\ UNCHANGED <<clock, jobs, user, done, due, runs>>

LEMMA Facts ==
    ASSUME Typed, NEW j \in Jobs, proc[j] # None
    PROVE  /\ proc[j] \in Process /\ HasFields(proc[j]) /\ Good(j, proc[j]) /\ j \in jobs /\ DOMAIN proc = Jobs
           /\ proc[j] = Make(proc[j].since, proc[j].at, proc[j].todo, proc[j].check,
                             proc[j].keys, proc[j].logged, proc[j].owed)
           /\ proc[j].since \in Nat /\ proc[j].at \in Places /\ proc[j].todo \subseteq Schedules
           /\ proc[j].check \in Nat /\ proc[j].keys \subseteq KeyType
           /\ proc[j].logged \subseteq Kinds /\ proc[j].owed \subseteq KeyType
  BY ProcessFields DEF Typed, ProcTyped, Good

LEMMA NotAlert == "dispatch" \in Jobs \ AlertJobs /\ "overdue" \in Jobs \ AlertJobs
  BY AlertAssumption DEF Jobs

LEMMA FilterSteps ==
    ASSUME Typed, Cleanup \/ \E k \in Conditions : Change(k) PROVE Filtered
<1>1. ASSUME NEW S, proc' = [j \in Jobs |-> IF proc[j] = None THEN None
                               ELSE [proc[j] EXCEPT !.owed = proc[j].owed \ S]]
      PROVE  /\ DOMAIN proc' = Jobs
             /\ \A j \in Jobs :
                /\ proc[j] = None => proc'[j] = None
                /\ proc[j] # None => \E owed \in SUBSET KeyType :
                    LET p == proc[j] IN
                    proc'[j] = Make(p.since, p.at, p.todo, p.check, p.keys, p.logged, owed)
  <2>1. ASSUME NEW j \in Jobs, proc[j] # None
        PROVE  \E owed \in SUBSET KeyType :
                LET p == proc[j] IN
                proc'[j] = Make(p.since, p.at, p.todo, p.check, p.keys, p.logged, owed)
    <3> DEFINE o == proc[j].owed \ S
               p == proc[j]
    <3>1. o \in SUBSET KeyType /\ p \in Process /\ HasFields(p)
      BY <2>1, Facts
    <3>2. proc'[j] = [p EXCEPT !.owed = o]
      BY <1>1, <2>1
    <3>3. [p EXCEPT !.owed = o] = Make(p.since, p.at, p.todo, p.check, p.keys, p.logged, o)
      <4> HIDE DEF o, p
      <4> QED
        BY <3>1 DEF HasFields, Make, Fields
    <3>4. QED
      BY <3>1, <3>2, <3>3
  <2>2. QED
    BY <1>1, <2>1
<1>2. ASSUME NEW k \in Conditions, Change(k) PROVE Filtered
  BY <1>1, <1>2 DEF Change, Filtered
<1>3. CASE Cleanup
  <2>1. proc' = [j \in Jobs |-> IF proc[j] = None THEN None
                               ELSE [proc[j] EXCEPT !.owed = proc[j].owed \ KeyType]]
    <3>1. \A j \in Jobs : proc[j] # None => proc[j].owed \ KeyType = {}
      BY Facts
    <3>2. QED
      BY <1>3, <3>1 DEF Cleanup
  <2>2. QED
    BY <1>1, <1>3, <2>1 DEF Cleanup, Filtered, world
<1>4. QED
  BY <1>2, <1>3

LEMMA GoodMake ==
    ASSUME Typed, NEW j \in Jobs, proc[j] # None,
           NEW at \in Places, NEW todo \in SUBSET Schedules, NEW check \in Nat,
           NEW keys \in SUBSET KeyType, NEW logged \in SUBSET Kinds, NEW owed \in SUBSET KeyType,
           j \in AlertJobs => /\ 1 <= check /\ check <= Len(Checks[j]) + 1
                              /\ at \in Dealing => check <= Len(Checks[j])
    PROVE  Good(j, Make(proc[j].since, at, todo, check, keys, logged, owed))
<1>1. Make(proc[j].since, at, todo, check, keys, logged, owed) \in Process
  BY Facts, MakeType
<1>2. QED
  BY <1>1, MakeFields DEF Good, Checked

\* What is known of the place in its sequence of an alert job.
LEMMA Within ==
    ASSUME Typed, NEW j \in AlertJobs, proc[j] # None
    PROVE  /\ 1 <= proc[j].check /\ proc[j].check <= Len(Checks[j]) + 1
           /\ proc[j].at \in Dealing => proc[j].check <= Len(Checks[j])
           /\ Len(Checks[j]) \in Nat /\ j \in Jobs
<1>1. j \in Jobs /\ Checks[j] \in Seq(Conditions)
  BY AlertAssumption DEF Jobs
<1>2. QED
  BY <1>1, Facts DEF Good, Checked

LEMMA WriteStep ==
    ASSUME Typed, NEW j \in Jobs, NEW place, NEW next \in Places, NEW failed \in Places,
           Write(j, place, next, failed), j \in AlertJobs => place \in Dealing
    PROVE  Writes(j)
<1>1. proc[j] # None /\ proc[j].at = place /\ UNCHANGED world
  BY DEF Write, At
<1>2. PICK ok \in BOOLEAN :
        LET new == IF ok /\ user THEN Rows(j) ELSE {}
        IN /\ notices' = notices \cup new /\ ever' = ever \cup new
           /\ Set(j, [proc[j] EXCEPT !.at = IF new = {} THEN failed ELSE next, !.keys = {},
                             !.owed = IF ok /\ user THEN proc[j].owed
                                      ELSE {k \in proc[j].owed : k.id \notin Ids(j)}])
  BY DEF Write, Rows
<1> DEFINE new == IF ok /\ user THEN Rows(j) ELSE {}
           at == IF new = {} THEN failed ELSE next
           owed == IF ok /\ user THEN proc[j].owed ELSE {k \in proc[j].owed : k.id \notin Ids(j)}
           p == proc[j]
<1>3. new \in {{}, Rows(j)} /\ at \in Places /\ owed \in SUBSET KeyType
  BY <1>1, Facts
<1>4. Set(j, [p EXCEPT !.at = at, !.keys = {}, !.owed = owed])
      /\ notices' = notices \cup new /\ ever' = ever \cup new
  BY <1>2
<1>5. p \in Process /\ HasFields(p) /\ p.todo \in SUBSET Schedules /\ p.check \in Nat /\ p.logged \in SUBSET Kinds
  BY <1>1, Facts
<1>6. j \in AlertJobs => 1 <= p.check /\ p.check <= Len(Checks[j]) + 1 /\ p.check <= Len(Checks[j])
  BY <1>1, Within
<1> HIDE DEF new, at, owed
<1>7. [p EXCEPT !.at = at, !.keys = {}, !.owed = owed]
        = Make(p.since, at, p.todo, p.check, {}, p.logged, owed)
  <2> HIDE DEF p
  <2> QED
    BY <1>5 DEF HasFields, Make, Fields
<1>8. Good(j, Make(p.since, at, p.todo, p.check, {}, p.logged, owed))
  BY <1>1, <1>3, <1>5, <1>6, GoodMake
<1>9. QED
  BY <1>1, <1>3, <1>4, <1>7, <1>8 DEF Writes

LEMMA LogStep ==
    ASSUME Typed, NEW j \in Jobs, NEW place, NEW kind \in Kinds, NEW next \in Places,
           Log(j, place, kind, next), j \in AlertJobs => place \in Dealing
    PROVE  Passes(j)
<1>1. proc[j] # None /\ proc[j].at = place /\ Same
  BY DEF Log, At, Same, Tables
<1>2. PICK ok \in BOOLEAN :
        Set(j, [proc[j] EXCEPT !.at = next,
                               !.logged = IF ok THEN proc[j].logged \cup {kind} ELSE proc[j].logged,
                               !.owed = IF ok THEN proc[j].owed ELSE proc[j].owed \ {AlertKey(kind)}])
  BY DEF Log
<1> DEFINE logged == IF ok THEN proc[j].logged \cup {kind} ELSE proc[j].logged
           owed == IF ok THEN proc[j].owed ELSE proc[j].owed \ {AlertKey(kind)}
           p == proc[j]
<1>3. logged \in SUBSET Kinds /\ owed \in SUBSET KeyType
  BY <1>1, Facts
<1>4. Set(j, [p EXCEPT !.at = next, !.logged = logged, !.owed = owed])
  BY <1>2
<1>5. p \in Process /\ HasFields(p) /\ p.todo \in SUBSET Schedules /\ p.check \in Nat /\ p.keys \in SUBSET KeyType
  BY <1>1, Facts
<1>6. j \in AlertJobs => 1 <= p.check /\ p.check <= Len(Checks[j]) + 1 /\ p.check <= Len(Checks[j])
  BY <1>1, Within
<1> HIDE DEF logged, owed
<1>7. [p EXCEPT !.at = next, !.logged = logged, !.owed = owed]
        = Make(p.since, next, p.todo, p.check, p.keys, logged, owed)
  <2> HIDE DEF p
  <2> QED
    BY <1>5 DEF HasFields, Make, Fields
<1>8. Good(j, Make(p.since, next, p.todo, p.check, p.keys, logged, owed))
  BY <1>1, <1>3, <1>5, <1>6, GoodMake
<1>9. QED
  BY <1>1, <1>3, <1>4, <1>5, <1>7, <1>8 DEF Passes

LEMMA LookStep ==
    ASSUME Typed, NEW place, NEW kind \in {"feed", "overdue"}, NEW found \in SUBSET Schedules,
           NEW ought \in SUBSET KeyType, NEW next \in Places,
           Look(place, kind, found, ought, next)
    PROVE  Looks("overdue")
<1> DEFINE p == proc["overdue"]
           ks == {Key(kind, s, Today) : s \in found}
           owed == p.owed \cup ought
           j == "overdue"
<1>1. p # None /\ Same /\ Set(j, [p EXCEPT !.at = next, !.keys = Missing(ks), !.owed = owed])
      /\ j \in Jobs /\ j \notin AlertJobs
  BY NotAlert DEF Look, At, Same, Tables
<1>2. Today \in Nat
  BY TodayType DEF Typed, TypeOK
<1>3. ks \in SUBSET KeyType /\ \A k \in ks : Sought(j, k)
  <2>1. ASSUME NEW s \in found
        PROVE  Key(kind, s, Today) \in KeyType /\ Sought(j, Key(kind, s, Today))
    <3>1. Key(kind, s, Today) \in KeyType
      BY <1>2, KeyTyped
    <3>2. Key(kind, s, Today).kind = kind /\ Key(kind, s, Today).date = Today
      BY DEF Key
    <3>3. QED
      BY <3>1, <3>2 DEF Sought, Owns
  <2>2. QED
    BY <2>1
<1>4. /\ p \in Process /\ HasFields(p) /\ p.todo \in SUBSET Schedules /\ p.check \in Nat
      /\ p.logged \in SUBSET Kinds /\ owed \in SUBSET KeyType
  BY <1>1, Facts
<1>5. Missing(ks) \in SUBSET KeyType
  BY <1>3 DEF Missing
<1> HIDE DEF ks, owed
<1>6. [p EXCEPT !.at = next, !.keys = Missing(ks), !.owed = owed]
        = Make(p.since, next, p.todo, p.check, Missing(ks), p.logged, owed)
  <2> HIDE DEF p
  <2> QED
    BY <1>4 DEF HasFields, Make, Fields
<1>7. Good(j, Make(p.since, next, p.todo, p.check, Missing(ks), p.logged, owed))
  BY <1>1, <1>4, <1>5, GoodMake
<1>8. QED
  BY <1>1, <1>3, <1>4, <1>6, <1>7 DEF Looks

LEMMA RemindStep ==
    ASSUME Typed, NEW s \in Schedules, NEW kind \in {"config", "remind"}, NEW date \in Nat,
           NEW place \in Places, proc["dispatch"] # None, s \in proc["dispatch"].todo,
           kind = "config" => date = DateOf(proc["dispatch"].since),
           kind = "remind" => date = Today,
           Remind(s, kind, date, place), Same
    PROVE  Looks("dispatch")
<1> DEFINE j == "dispatch"
           p == proc[j]
           k == Key(kind, s, date)
           keys == Missing({k})
           todo == p.todo \ {s}
<1>1. j \in Jobs /\ j \notin AlertJobs
  BY NotAlert
<1>2. Set(j, [p EXCEPT !.at = place, !.todo = todo, !.keys = keys])
  BY DEF Remind
<1>3. k \in KeyType /\ Sought(j, k)
  <2>1. k \in KeyType
    BY KeyTyped
  <2>2. k.kind = kind /\ k.id = s /\ k.date = date
    BY DEF Key
  <2>3. QED
    BY <2>1, <2>2 DEF Sought, Owns
<1>4. {k} \in SUBSET KeyType /\ keys \in SUBSET KeyType /\ \A l \in {k} : Sought(j, l)
  BY <1>3 DEF Missing
<1>5. /\ p \in Process /\ HasFields(p) /\ todo \in SUBSET Schedules /\ p.check \in Nat
      /\ p.logged \in SUBSET Kinds /\ p.owed \in SUBSET KeyType /\ todo \subseteq p.todo
  BY <1>1, Facts
<1> HIDE DEF k
<1>6. [p EXCEPT !.at = place, !.todo = todo, !.keys = keys]
        = Make(p.since, place, todo, p.check, keys, p.logged, p.owed)
  <2> HIDE DEF p, todo, keys
  <2> QED
    BY <1>5 DEF HasFields, Make, Fields
<1>7. Good(j, Make(p.since, place, todo, p.check, keys, p.logged, p.owed))
  <2> HIDE DEF todo, keys
  <2> QED
    BY <1>1, <1>4, <1>5, GoodMake
<1>8. QED
  BY <1>2, <1>4, <1>5, <1>6, <1>7 DEF Looks

LEMMA OverdueKeys ==
    ASSUME clock \in Nat
    PROVE  /\ OughtFeed \in SUBSET KeyType /\ OughtOverdue \in SUBSET KeyType
           /\ OughtRemind \in SUBSET KeyType /\ OughtConfig \in SUBSET KeyType
<1>1. ASSUME NEW kind \in {"config", "remind", "feed", "overdue"}, NEW ids \in SUBSET Schedules
      PROVE  Ought(kind, ids) \in SUBSET KeyType
  BY TodayType, KeyTyped DEF Ought
<1>2. Care \subseteq Schedules /\ Feeding \subseteq Schedules /\ Config \subseteq Schedules
  BY DEF Schedules
<1>3. OughtFeed \in SUBSET KeyType
  BY <1>1, <1>2 DEF OughtFeed
<1>4. OughtOverdue \in SUBSET KeyType
  BY <1>1, <1>2 DEF OughtOverdue
<1>5. OughtRemind \in SUBSET KeyType
  BY <1>1, <1>2 DEF OughtRemind
<1>6. OughtConfig \in SUBSET KeyType
  BY <1>1, <1>2 DEF OughtConfig
<1>7. QED
  BY <1>3, <1>4, <1>5, <1>6

\* A step that sets the place, the list and what is owed.
LEMMA TodoStep ==
    ASSUME Typed, NEW j \in Jobs \ AlertJobs, proc[j] # None,
           NEW at \in Places, NEW todo \in SUBSET Schedules, NEW owed \in SUBSET KeyType,
           todo \subseteq proc[j].todo \/ todo \subseteq DueCare,
           Set(j, [proc[j] EXCEPT !.at = at, !.todo = todo, !.owed = owed]), Same
    PROVE  Passes(j)
<1> DEFINE p == proc[j]
<1>1. /\ p \in Process /\ HasFields(p) /\ p.check \in Nat /\ p.keys \in SUBSET KeyType
      /\ p.logged \in SUBSET Kinds
  BY Facts
<1>2. [p EXCEPT !.at = at, !.todo = todo, !.owed = owed]
        = Make(p.since, at, todo, p.check, p.keys, p.logged, owed)
  <2> HIDE DEF p
  <2> QED
    BY <1>1 DEF HasFields, Make, Fields
<1>3. Good(j, Make(p.since, at, todo, p.check, p.keys, p.logged, owed))
  BY <1>1, GoodMake
<1>4. QED
  BY <1>1, <1>2, <1>3 DEF Passes

LEMMA DispatchStep ==
    ASSUME Typed, Dispatch
    PROVE  Passes("dispatch") \/ Looks("dispatch") \/ Writes("dispatch") \/ Ends("dispatch")
<1> DEFINE p == proc["dispatch"]
<1>1. "dispatch" \in Jobs \ AlertJobs /\ clock \in Nat
  BY NotAlert DEF Typed, TypeOK
<1>2. {"config", "config row", "fetch", "rows", "row"} \subseteq Places
  BY DEF Places
<1>3. CASE DispatchConfig
  <2>1. p # None /\ Same
    BY <1>3 DEF DispatchConfig, At, Same, Tables
  <2>2. ASSUME NEW s \in p.todo, Remind(s, "config", DateOf(p.since), "config row")
        PROVE  Looks("dispatch")
    <3>1. s \in Schedules /\ DateOf(p.since) \in Nat
      BY <1>1, <2>1, <2>2, Facts, DateType
    <3>2. QED
      BY <1>2, <2>1, <2>2, <3>1, RemindStep
  <2>3. CASE Set("dispatch", [p EXCEPT !.at = "fetch"])
    <3>1. HasFields(p) /\ p.todo \in SUBSET Schedules /\ p.owed \in SUBSET KeyType
      BY <1>1, <2>1, Facts
    <3>2. [p EXCEPT !.at = "fetch"] = [p EXCEPT !.at = "fetch", !.todo = p.todo, !.owed = p.owed]
      <4> HIDE DEF p
      <4> QED
        BY <3>1 DEF HasFields, Fields
    <3>3. QED
      BY <1>1, <1>2, <2>1, <2>3, <3>1, <3>2, TodoStep
  <2>4. QED
    BY <1>3, <2>2, <2>3 DEF DispatchConfig
<1>4. CASE Fetch
  <2>1. p # None /\ Same
    BY <1>4 DEF Fetch, At, Same, Tables
  <2>2. PICK ok \in BOOLEAN :
            Set("dispatch", [p EXCEPT !.at = "rows", !.todo = IF ok THEN DueCare ELSE {},
                                      !.owed = IF ok THEN p.owed \cup OughtRemind ELSE p.owed])
    BY <1>4 DEF Fetch
  <2>3. /\ (IF ok THEN DueCare ELSE {}) \in SUBSET Schedules
        /\ (IF ok THEN DueCare ELSE {}) \subseteq DueCare
    BY DEF DueCare, Schedules
  <2>4. (IF ok THEN p.owed \cup OughtRemind ELSE p.owed) \in SUBSET KeyType
    BY <1>1, <2>1, OverdueKeys, Facts
  <2>5. QED
    BY <1>1, <1>2, <2>1, <2>2, <2>3, <2>4, TodoStep
<1>5. CASE DispatchRow
  <2>1. p # None /\ Same
    BY <1>5 DEF DispatchRow, At, Same, Tables
  <2>2. PICK c \in p.todo : Remind(c, "remind", Today, "row")
    BY <1>5 DEF DispatchRow
  <2>3. c \in Schedules /\ Today \in Nat
    BY <1>1, <2>1, <2>2, Facts, TodayType
  <2>4. QED
    BY <1>2, <2>1, <2>2, <2>3, RemindStep
<1>6. CASE Write("dispatch", "config row", "config", "config") \/ Write("dispatch", "row", "rows", "rows")
  BY <1>1, <1>2, <1>6, WriteStep
<1>7. CASE Dispatched
  BY <1>7 DEF Dispatched, End, Ends, Last, Same, Tables
<1>8. QED
  BY <1>3, <1>4, <1>5, <1>6, <1>7 DEF Dispatch

LEMMA OverdueStep ==
    ASSUME Typed, Overdue
    PROVE  Passes("overdue") \/ Looks("overdue") \/ Writes("overdue") \/ Ends("overdue")
<1>1. "overdue" \in Jobs \ AlertJobs /\ clock \in Nat
  BY NotAlert DEF Typed, TypeOK
<1>2. {"feed", "feed rows", "feed event", "care", "care rows", "care event", "end"} \subseteq Places
      /\ {"feed", "care"} \subseteq Kinds
  BY DEF Places, Kinds
<1>3. OverdueFeeding \in SUBSET Schedules /\ OverdueCare \in SUBSET Schedules
  BY DEF OverdueFeeding, OverdueCare, Schedules
<1>4. CASE \/ Look("feed", "feed", OverdueFeeding, OughtFeed, "feed rows")
           \/ Look("care", "overdue", OverdueCare, OughtOverdue, "care rows")
  BY <1>1, <1>2, <1>3, <1>4, OverdueKeys, LookStep
<1>5. CASE \/ Write("overdue", "feed rows", "feed event", "care")
           \/ Write("overdue", "care rows", "care event", "end")
  BY <1>1, <1>2, <1>5, WriteStep
<1>6. CASE \/ Log("overdue", "feed event", "feed", "care")
           \/ Log("overdue", "care event", "care", "end")
  BY <1>1, <1>2, <1>6, LogStep
<1>7. CASE At("overdue", "end") /\ End("overdue")
  BY <1>7 DEF End, Ends, Last, Same, Tables
<1>8. QED
  BY <1>4, <1>5, <1>6, <1>7 DEF Overdue

LEMMA AlertStep ==
    ASSUME Typed, NEW j \in AlertJobs, Alert(j)
    PROVE  Passes(j) \/ Looks(j) \/ Writes(j) \/ Ends(j)
<1> DEFINE p == proc[j]
<1>1. j \in Jobs
  BY DEF Jobs
<1>2. {"read", "event", "notify", "alert row", "next"} \subseteq Places
      /\ {"event", "notify", "alert row", "next"} \subseteq Dealing
  BY DEF Places, Dealing
<1>3. ASSUME p # None
      PROVE  /\ p \in Process /\ HasFields(p) /\ Good(j, p) /\ p.todo \in SUBSET Schedules
             /\ p.keys \in SUBSET KeyType /\ p.check \in Nat
             /\ p.logged \in SUBSET Kinds /\ p.owed \in SUBSET KeyType
  BY <1>1, <1>3, Facts
<1>4. CASE Read(j)
  <2>1. p # None /\ Same /\ p.check <= Len(Checks[j])
    BY <1>4 DEF Read, At, Same, Tables
  <2>2. PICK raised \in BOOLEAN, ok \in BOOLEAN :
            Set(j, [p EXCEPT !.at = IF raised THEN "event" ELSE "next",
                             !.owed = IF ok THEN p.owed ELSE p.owed \ {AlertKey(Condition(j))}])
    BY <1>4 DEF Read, Raised
  <2> DEFINE at == IF raised THEN "event" ELSE "next"
             owed == IF ok THEN p.owed ELSE p.owed \ {AlertKey(Condition(j))}
  <2>3. at \in Places /\ owed \in SUBSET KeyType
    BY <1>2, <1>3, <2>1
  <2>4. Set(j, [p EXCEPT !.at = at, !.owed = owed])
    BY <2>2
  <2> HIDE DEF at, owed
  <2>5. [p EXCEPT !.at = at, !.owed = owed]
          = Make(p.since, at, p.todo, p.check, p.keys, p.logged, owed)
    <3>1. HasFields(p)
      BY <1>3, <2>1
    <3> HIDE DEF p
    <3>2. QED
      BY <3>1 DEF HasFields, Make, Fields
  <2>6. Good(j, Make(p.since, at, p.todo, p.check, p.keys, p.logged, owed))
    BY <1>1, <1>3, <2>1, <2>3, GoodMake, Within
  <2>7. QED
    BY <1>3, <2>1, <2>3, <2>4, <2>5, <2>6 DEF Passes
<1>5. CASE At(j, "event")
           /\ Log(j, "event", Condition(j), IF Condition(j) \in Silent THEN "next" ELSE "notify")
  <2>1. p # None /\ p.at = "event"
    BY <1>5 DEF At
  <2>2. Condition(j) \in Kinds
    BY <1>2, <1>3, <2>1, ConditionType DEF Kinds
  <2>3. (IF Condition(j) \in Silent THEN "next" ELSE "notify") \in Places
    BY <1>2
  <2>4. QED
    BY <1>1, <1>2, <1>5, <2>2, <2>3, LogStep
<1>6. CASE Notify(j)
  <2> DEFINE k == AlertKey(Condition(j))
             keys == Missing({k})
  <2>1. p # None /\ p.at = "notify" /\ Same /\ Set(j, [p EXCEPT !.at = "alert row", !.keys = keys])
    BY <1>6 DEF Notify, At, Same, Tables
  <2>2. Condition(j) \in Conditions
    BY <1>2, <1>3, <2>1, ConditionType
  <2>3. p.check \in DOMAIN Checks[j]
    <3>1. p.check \in Nat /\ 1 <= p.check /\ p.check <= Len(Checks[j])
      BY <1>2, <1>3, <2>1, Within
    <3>2. Checks[j] \in Seq(Conditions)
      BY AlertAssumption
    <3>3. QED
      BY <3>1, <3>2
  <2>4. k \in KeyType /\ Sought(j, k)
    <3>1. k \in KeyType
      BY <2>2, KeyTyped DEF AlertKey
    <3>2. k.kind = "alert" /\ k.id = Checks[j][p.check] /\ k.date = None
      BY DEF AlertKey, Key, Condition
    <3>3. QED
      BY <2>3, <3>1, <3>2 DEF Sought, Owns
  <2>5. {k} \in SUBSET KeyType /\ keys \in SUBSET KeyType /\ \A l \in {k} : Sought(j, l)
    BY <2>4 DEF Missing
  <2>6. [p EXCEPT !.at = "alert row", !.keys = keys]
          = Make(p.since, "alert row", p.todo, p.check, keys, p.logged, p.owed)
    <3>1. HasFields(p)
      BY <1>3, <2>1
    <3> HIDE DEF p, keys
    <3>2. QED
      BY <3>1 DEF HasFields, Make, Fields
  <2>7. Good(j, Make(p.since, "alert row", p.todo, p.check, keys, p.logged, p.owed))
    <3>1. p.check <= Len(Checks[j])
      BY <1>2, <2>1, Within
    <3> HIDE DEF keys
    <3>2. QED
      BY <1>1, <1>2, <1>3, <2>1, <2>5, <3>1, GoodMake, Within
  <2>8. QED
    <3> DEFINE ks == {k}
    <3>1. p.todo \in SUBSET Schedules /\ p.owed \in SUBSET KeyType /\ "alert row" \in Places
      BY <1>2, <1>3, <2>1
    <3>2. ks \in SUBSET KeyType /\ (\A l \in ks : Sought(j, l)) /\ keys = Missing(ks)
      BY <2>5
    <3> HIDE DEF k, ks, keys
    <3>3. Set(j, Make(p.since, "alert row", p.todo, p.check, Missing(ks), p.logged, p.owed))
      BY <2>1, <2>6, <3>2
    <3>4. Good(j, Make(p.since, "alert row", p.todo, p.check, Missing(ks), p.logged, p.owed))
      BY <2>7, <3>2
    <3>5. p # None /\ Same /\ p.todo \subseteq p.todo
      BY <2>1
    <3>6. QED
      BY <3>1, <3>2, <3>3, <3>4, <3>5 DEF Looks
<1>7. CASE Write(j, "alert row", "next", "next")
  BY <1>1, <1>2, <1>7, WriteStep
<1>8. CASE NextCheck(j)
  <2>1. p # None /\ p.at = "next" /\ Same /\ Set(j, [p EXCEPT !.at = "read", !.check = p.check + 1])
    BY <1>8 DEF NextCheck, At, Same, Tables
  <2>2. [p EXCEPT !.at = "read", !.check = p.check + 1]
          = Make(p.since, "read", p.todo, p.check + 1, p.keys, p.logged, p.owed)
    <3>1. HasFields(p)
      BY <1>3, <2>1
    <3> DEFINE c == p.check + 1
    <3> HIDE DEF p, c
    <3>2. [p EXCEPT !.at = "read", !.check = c]
            = Make(p.since, "read", p.todo, c, p.keys, p.logged, p.owed)
      BY <3>1 DEF HasFields, Make, Fields
    <3>3. QED
      BY <3>2 DEF c
  <2>3. /\ p.check \in Nat /\ 1 <= p.check /\ p.check <= Len(Checks[j]) /\ Len(Checks[j]) \in Nat
    BY <1>2, <1>3, <2>1, Within
  <2>4. p.check + 1 \in Nat /\ 1 <= p.check + 1 /\ p.check + 1 <= Len(Checks[j]) + 1
    BY <2>3
  <2>5. "read" \notin Dealing
    BY DEF Dealing
  <2>6. Good(j, Make(p.since, "read", p.todo, p.check + 1, p.keys, p.logged, p.owed))
    <3> DEFINE c == p.check + 1
    <3>1. c \in Nat /\ 1 <= c /\ c <= Len(Checks[j]) + 1
      BY <2>4
    <3> HIDE DEF c
    <3>2. Good(j, Make(p.since, "read", p.todo, c, p.keys, p.logged, p.owed))
      BY <1>1, <1>2, <1>3, <2>1, <2>5, <3>1, GoodMake
    <3>3. QED
      BY <3>2 DEF c
  <2>7. QED
    <3> DEFINE c == p.check + 1
    <3>1. /\ Set(j, Make(p.since, "read", p.todo, c, p.keys, p.logged, p.owed))
          /\ Good(j, Make(p.since, "read", p.todo, c, p.keys, p.logged, p.owed))
      BY <2>1, <2>2, <2>6
    <3>2. /\ "read" \in Places /\ p.todo \in SUBSET Schedules /\ c \in Nat
          /\ p.logged \in SUBSET Kinds /\ p.owed \in SUBSET KeyType
          /\ p # None /\ Same /\ p.todo \subseteq p.todo
      BY <1>2, <1>3, <2>1, <2>4
    <3> HIDE DEF c
    <3>3. QED
      BY <3>1, <3>2 DEF Passes
<1>9. CASE At(j, "read") /\ p.check > Len(Checks[j]) /\ End(j)
  BY <1>9 DEF End, Ends, Last, Same, Tables
<1>10. QED
  BY <1>4, <1>5, <1>6, <1>7, <1>8, <1>9 DEF Alert

LEMMA StartStep ==
    ASSUME Typed, NEW j \in Jobs, Start(j)
    PROVE  Starts(j)
<1> DEFINE at == First(j)
           todo == IF j = "dispatch" THEN DueConfig ELSE {}
           ids == {i \in DOMAIN Checks[j] : Checks[j][i] \in bad}
           owed == IF j \in AlertJobs THEN {AlertKey(Checks[j][i]) : i \in ids}
                   ELSE IF j = "dispatch" THEN OughtConfig ELSE {}
           q == Make(clock, at, todo, 1, {}, {}, owed)
<1>1. at \in Places /\ at \notin Dealing
  BY DEF First, Places, Dealing
<1>2. todo \in {{}, DueConfig} /\ todo \in SUBSET Schedules
  BY DEF DueConfig, Schedules
<1>3. owed \in SUBSET KeyType
  <2>1. ASSUME j \in AlertJobs, NEW i \in DOMAIN Checks[j] PROVE AlertKey(Checks[j][i]) \in KeyType
    <3>1. Checks[j][i] \in Conditions
      BY <2>1 DEF Conditions
    <3>2. QED
      BY <3>1, KeyTyped DEF AlertKey
  <2>2. QED
    BY <2>1, OverdueKeys DEF Typed, TypeOK
<1>4. Set(j, q)
  BY MakeRecord DEF Start
<1>5. clock \in Nat /\ due \subseteq jobs /\ j \in due
  BY DEF Typed, TypeOK, Start
<1>6. q \in Process
  <2> HIDE DEF at, todo, owed
  <2> QED
    BY <1>1, <1>2, <1>3, <1>5, MakeType
<1>7. Good(j, q)
  <2>1. q.at = at /\ q.check = 1
    BY MakeFields
  <2>2. j \in AlertJobs => Len(Checks[j]) \in Nat
    BY AlertAssumption
  <2> HIDE DEF q, at
  <2>3. QED
    BY <1>1, <1>6, <2>1, <2>2 DEF Good, Checked
<1>8. QED
  <2> HIDE DEF at, todo, owed
  <2> QED
    BY <1>1, <1>2, <1>3, <1>4, <1>5, <1>7 DEF Starts, Start, Tables

\* Every step is one of these.
LEMMA Steps ==
    ASSUME Typed, [Next]_vars
    PROVE  \/ \E j \in Jobs : Starts(j) \/ Passes(j) \/ Looks(j) \/ Writes(j) \/ Ends(j)
           \/ Filtered /\ (Cleanup \/ notices' = notices)
           \/ UNCHANGED <<proc, notices, ever>>
<1>1. CASE Dispatch
  BY <1>1, DispatchStep, NotAlert
<1>2. CASE Overdue
  BY <1>2, OverdueStep, NotAlert
<1>3. ASSUME NEW j \in AlertJobs, Alert(j)
      PROVE  \E i \in Jobs : Starts(i) \/ Passes(i) \/ Looks(i) \/ Writes(i) \/ Ends(i)
  BY <1>3, AlertStep DEF Jobs
<1>4. ASSUME NEW j \in Jobs, Start(j) PROVE Starts(j)
  BY <1>4, StartStep
<1>5. CASE Cleanup \/ \E k \in Conditions : Change(k)
  BY <1>5, FilterSteps DEF Change
<1>6. CASE Advance \/ Provision \/ (\E s \in Care \cup Feeding : Complete(s)) \/ UNCHANGED vars
  BY <1>6 DEF Advance, Provision, Complete, vars
<1>7. QED
  BY <1>1, <1>2, <1>3, <1>4, <1>5, <1>6 DEF Next

-----------------------------------------------------------------------------
(* Types.                                                                     *)

RestTyped ==
    /\ clock \in Nat /\ runs \in Nat /\ user \in BOOLEAN
    /\ jobs \in Enabled /\ due \subseteq jobs
    /\ done \in [Care \cup Feeding -> Int] /\ bad \subseteq Conditions
NoticesTyped ==
    /\ notices \subseteq ever
    /\ \A n \in ever : n.key \in KeyType /\ n.at \in Nat /\ n.since \in Nat

LEMMA TypedParts == Typed <=> RestTyped /\ NoticesTyped /\ ProcTyped
  BY DEF Typed, TypeOK, RestTyped, NoticesTyped, ProcTyped, Good, Checked

LEMMA RestStep ==
    ASSUME Typed, [Next]_vars
    PROVE  RestTyped' /\ jobs' = jobs /\ clock <= clock'
<1> USE TypedParts
<1>1. CASE UNCHANGED <<clock, jobs, user, done, bad>> /\ due' \subseteq due /\ runs' \in Nat
  BY <1>1 DEF RestTyped
<1>2. ASSUME NEW j \in Jobs, Passes(j) \/ Looks(j) \/ Writes(j) \/ Ends(j)
      PROVE  UNCHANGED world
  BY <1>2 DEF Passes, Looks, Writes, Ends, Same
<1>3. ASSUME NEW j \in Jobs, Starts(j)
      PROVE  UNCHANGED <<clock, jobs, user, done, bad>> /\ due' \subseteq due /\ runs' \in Nat
  <2>1. UNCHANGED <<clock, jobs, user, done, bad>> /\ due' \subseteq due /\ runs' = runs + 1
    BY <1>3 DEF Starts
  <2>2. QED
    BY <2>1 DEF RestTyped
<1>4. CASE Advance \/ Provision \/ Cleanup \/ UNCHANGED vars
  <2>1. CASE Advance
    <3>1. clock \in Nat /\ clock' = clock + 1
      BY <2>1 DEF Advance, RestTyped
    <3>2. clock' \in Nat /\ clock <= clock'
      BY <3>1
    <3>3. due' = jobs /\ UNCHANGED <<jobs, user, done, bad, runs>>
      BY <2>1 DEF Advance
    <3>4. QED
      BY <3>2, <3>3 DEF RestTyped
  <2>2. CASE Provision
    <3>1. user' \in BOOLEAN /\ UNCHANGED <<clock, jobs, done, bad, due, runs>>
      BY <2>2 DEF Provision
    <3>2. clock <= clock'
      BY <3>1 DEF RestTyped
    <3>3. QED
      BY <3>1, <3>2 DEF RestTyped
  <2>3. CASE Cleanup \/ UNCHANGED vars
    <3>1. UNCHANGED <<clock, jobs, user, done, bad, due, runs>>
      BY <2>3 DEF Cleanup, vars, world
    <3>2. clock <= clock'
      BY <3>1 DEF RestTyped
    <3>3. QED
      BY <3>1, <3>2 DEF RestTyped
  <2>4. QED
    BY <1>4, <2>1, <2>2, <2>3
<1>5. ASSUME NEW s \in Care \cup Feeding, Complete(s) PROVE RestTyped' /\ jobs' = jobs /\ clock <= clock'
  <2>1. Today \in Nat
    BY TodayType DEF RestTyped
  <2>2. done' \in [Care \cup Feeding -> Int]
    BY <1>5, <2>1 DEF Complete, RestTyped
  <2>3. QED
    BY <1>5, <2>2 DEF Complete, RestTyped
<1>6. ASSUME NEW k \in Conditions, Change(k) PROVE RestTyped' /\ jobs' = jobs /\ clock <= clock'
  BY <1>6 DEF Change, RestTyped
<1>7. CASE Dispatch
  BY <1>1, <1>2, <1>7, DispatchStep, NotAlert DEF world, RestTyped
<1>8. CASE Overdue
  BY <1>1, <1>2, <1>8, OverdueStep, NotAlert DEF world, RestTyped
<1>9. ASSUME NEW j \in AlertJobs, Alert(j) PROVE RestTyped' /\ jobs' = jobs /\ clock <= clock'
  <2>1. j \in Jobs
    BY DEF Jobs
  <2>2. QED
    BY <1>1, <1>2, <1>9, <2>1, AlertStep DEF world, RestTyped
<1>10. ASSUME NEW j \in Jobs, Start(j) PROVE RestTyped' /\ jobs' = jobs /\ clock <= clock'
  BY <1>1, <1>3, <1>10, StartStep DEF RestTyped
<1>11. QED
  BY <1>4, <1>5, <1>6, <1>7, <1>8, <1>9, <1>10 DEF Next

LEMMA ProcStep ==
    ASSUME Typed, [Next]_vars PROVE ProcTyped'
<1>1. jobs' = jobs
  BY RestStep
<1>2. ASSUME NEW j \in Jobs, Starts(j) PROVE ProcTyped'
  BY <1>1, <1>2, OneProcess DEF Starts
<1>3. ASSUME NEW j \in Jobs, Passes(j) PROVE ProcTyped'
  BY <1>1, <1>3, Facts, OneProcess DEF Passes
<1>4. ASSUME NEW j \in Jobs, Looks(j) PROVE ProcTyped'
  BY <1>1, <1>4, Facts, OneProcess DEF Looks
<1>5. ASSUME NEW j \in Jobs, Writes(j) PROVE ProcTyped'
  BY <1>1, <1>5, Facts, OneProcess DEF Writes
<1>6. ASSUME NEW j \in Jobs, Ends(j) PROVE ProcTyped'
  BY <1>1, <1>6, OneProcess DEF Ends
<1>7. CASE UNCHANGED proc
  BY <1>1, <1>7 DEF Typed, ProcTyped, Good, Checked, Conditions, Schedules, AlertJobs
<1>8. CASE Filtered
  <2>1. ASSUME NEW j \in Jobs, proc[j] # None PROVE Good(j, proc'[j]) /\ j \in jobs
    <3>1. PICK owed \in SUBSET KeyType :
            proc'[j] = Make(proc[j].since, proc[j].at, proc[j].todo, proc[j].check,
                            proc[j].keys, proc[j].logged, owed)
      BY <1>8, <2>1 DEF Filtered
    <3>2. QED
      BY <2>1, <3>1, Facts, GoodMake, Within
  <2>2. QED
    BY <1>1, <1>8, <2>1 DEF Filtered, ProcTyped, Good, Checked
<1>9. QED
  BY <1>2, <1>3, <1>4, <1>5, <1>6, <1>7, <1>8, Steps

LEMMA NoticesStep ==
    ASSUME Typed, [Next]_vars PROVE NoticesTyped' /\ ever \subseteq ever'
<1> USE TypedParts
<1>1. CASE UNCHANGED <<notices, ever>>
  BY <1>1 DEF NoticesTyped
<1>2. CASE Cleanup
  BY <1>2 DEF Cleanup, NoticesTyped
<1>3. CASE notices' = notices /\ Filtered
  BY <1>3 DEF Filtered, NoticesTyped
<1>4. ASSUME NEW j \in Jobs, Writes(j) PROVE NoticesTyped' /\ ever \subseteq ever'
  <2>1. PICK new \in {{}, Rows(j)} :
            proc[j] # None /\ notices' = notices \cup new /\ ever' = ever \cup new
    BY <1>4 DEF Writes
  <2>2. \A n \in Rows(j) : n.key \in KeyType /\ n.at \in Nat /\ n.since \in Nat
    BY <2>1, Facts DEF Rows, RestTyped
  <2>3. QED
    BY <2>1, <2>2 DEF NoticesTyped
<1>5. ASSUME NEW j \in Jobs, Starts(j) \/ Passes(j) \/ Looks(j) \/ Ends(j)
      PROVE  UNCHANGED <<notices, ever>>
  BY <1>5 DEF Starts, Passes, Looks, Ends, Same
<1>6. QED
  BY <1>1, <1>2, <1>3, <1>4, <1>5, Steps

LEMMA TypedStep == ASSUME Typed, [Next]_vars PROVE Typed'
<1>1. RestTyped' /\ NoticesTyped' /\ ProcTyped'
  BY RestStep, ProcStep, NoticesStep
<1>2. QED
  BY <1>1 DEF Typed, TypeOK, RestTyped, NoticesTyped, ProcTyped, Good, Checked

LEMMA InitTyped == Init => Typed
  BY DEF Init, Typed, TypeOK, ProcTyped

\* Every variable keeps its type; an alert job stays within its conditions.
THEOREM TypeCorrect == Spec => []TypeOK
<1>1. Typed /\ [Next]_vars => Typed'
  BY TypedStep
<1>2. Typed => TypeOK
  BY DEF Typed
<1>3. QED
  BY InitTyped, <1>1, <1>2, PTL DEF Spec

-----------------------------------------------------------------------------
(* Days.                                                                      *)

LEMMA Division ==
    \A a \in Nat, b \in Nat \ {0} :
        a \div b \in Nat /\ b * (a \div b) <= a /\ a < b * (a \div b) + b
  OBVIOUS

LEMMA DaysGrow ==
    ASSUME NEW t \in Nat, NEW u \in Nat, t <= u PROVE DateOf(t) <= DateOf(u)
<1> DEFINE x == t \div Day
           y == u \div Day
<1>1. /\ Day \in Nat /\ Day > 0 /\ x \in Nat /\ y \in Nat
      /\ Day * x <= t /\ u < Day * y + Day
  BY Division, AlertAssumption
<1>2. \A d, a, b \in Nat : d > 0 /\ d * a < d * b + d => a <= b
  <2> SUFFICES ASSUME NEW d \in Nat, NEW a \in Nat, NEW b \in Nat, d > 0, a >= b + 1
               PROVE  d * a >= d * b + d
    OBVIOUS
  <2>1. PICK c \in Nat : a = b + 1 + c
    <3>1. a - (b + 1) \in Nat
      OBVIOUS
    <3>2. QED
      BY <3>1
  <2>2. d * (b + 1 + c) = d * b + d + d * c
    OBVIOUS
  <2>3. d * c >= 0
    OBVIOUS
  <2>4. QED
    BY <2>1, <2>2, <2>3
<1> HIDE DEF x, y
<1>3. x <= y
  BY <1>1, <1>2
<1>4. QED
  BY <1>3 DEF x, y, DateOf

\* Two times, the later of no later day, are less than a day apart.
LEMMA DayApart ==
    ASSUME NEW t \in Nat, NEW u \in Nat, DateOf(u) <= DateOf(t) PROVE u < t + Day
<1> DEFINE x == t \div Day
           y == u \div Day
<1>1. /\ Day \in Nat /\ Day > 0 /\ x \in Nat /\ y \in Nat
      /\ Day * x <= t /\ u < Day * y + Day /\ y <= x
  BY Division, AlertAssumption DEF DateOf
<1>2. \A d, a, b \in Nat : a <= b => d * a <= d * b
  <2> SUFFICES ASSUME NEW d \in Nat, NEW a \in Nat, NEW b \in Nat, a <= b
               PROVE  d * a <= d * b
    OBVIOUS
  <2>1. PICK c \in Nat : b = a + c
    <3>1. b - a \in Nat
      OBVIOUS
    <3>2. QED
      BY <3>1
  <2>2. d * (a + c) = d * a + d * c
    OBVIOUS
  <2>3. d * c >= 0
    OBVIOUS
  <2>4. QED
    BY <2>1, <2>2, <2>3
<1> HIDE DEF x, y
<1>3. Day * y <= Day * x
  BY <1>1, <1>2
<1>4. Day * x \in Nat /\ Day * y \in Nat
  BY <1>1
<1>5. QED
  BY <1>1, <1>3, <1>4

-----------------------------------------------------------------------------
(* One notice.  Between looking for a key and inserting it nobody else may    *)
(* insert it: no two jobs that run have a condition in common, as the two     *)
(* that look at sensors would if the disabled one was enabled.                *)

KeysApart ==
    /\ Day <= Retention
    /\ \A E \in Enabled : \A i, j \in E \cap AlertJobs : i # j =>
        \A m \in DOMAIN Checks[i], n \in DOMAIN Checks[j] : Checks[i][m] # Checks[j][n]

\* A notice is there until it is past retention, and not of a day to come.
NoticesDated ==
    \A n \in ever : /\ n \in notices \/ n.at < clock - Retention
                    /\ n.key.date # None => n.key.date <= DateOf(n.at)

\* A key a job is about to insert is its own and is not there; if it was there
\* and is deleted, the run is a long one.
KeyHolds(j, k) ==
    /\ Owns(j, k) /\ ~Known(k)
    /\ k.date # None => k.date <= Today
    /\ k.date # None /\ (\E n \in ever : n.key = k) =>
            k.kind = "config" /\ clock - proc[j].since > Retention - Day
KeysRight ==
    \A j \in Jobs : proc[j] # None =>
        proc[j].since <= clock /\ \A k \in proc[j].keys : KeyHolds(j, k)

LEMMA OneOwner ==
    ASSUME KeysApart, Typed, NEW i \in jobs, NEW j \in jobs, NEW k, Owns(i, k), Owns(j, k)
    PROVE  i = j
<1>1. jobs \in Enabled
  BY DEF Typed, TypeOK
<1>2. CASE k.kind = "alert"
  <2>1. i \in AlertJobs /\ j \in AlertJobs
    BY <1>2 DEF Owns
  <2>2. PICK m \in DOMAIN Checks[i], n \in DOMAIN Checks[j] : Checks[i][m] = k.id /\ Checks[j][n] = k.id
    BY <1>2 DEF Owns
  <2>3. QED
    BY <1>1, <2>1, <2>2 DEF KeysApart
<1>3. CASE k.kind # "alert"
  BY <1>3 DEF Owns
<1>4. QED
  BY <1>2, <1>3

\* A key that was looked for and not found.
LEMMA SoughtHolds ==
    ASSUME KeysApart, Typed, NoticesDated, KeysRight, NEW j \in Jobs, proc[j] # None,
           NEW k, Sought(j, k), ~Known(k)
    PROVE  KeyHolds(j, k)
<1>1. /\ clock \in Nat /\ proc[j].since \in Nat /\ proc[j].since <= clock
      /\ Day \in Nat /\ Retention \in Nat /\ Day <= Retention
  BY Facts, AlertAssumption DEF Typed, TypeOK, KeysRight, KeysApart
<1>2. k \in KeyType /\ Owns(j, k)
  BY DEF Sought
<1>3. k.date # None => /\ k.kind # "alert"
                       /\ k.date = Today \/ (k.kind = "config" /\ k.date = DateOf(proc[j].since))
  BY <1>2 DEF Sought, KeyType
<1>4. DateOf(proc[j].since) <= Today
  BY <1>1, DaysGrow DEF Today
<1>5. Today \in Nat
  BY <1>1, TodayType
<1>6. k.date # None => k.date <= Today
  BY <1>3, <1>4, <1>5
<1>7. ASSUME k.date # None, NEW n \in ever, n.key = k
      PROVE  k.kind = "config" /\ clock - proc[j].since > Retention - Day
  <2>1. n.at \in Nat /\ n.at < clock - Retention /\ k.date <= DateOf(n.at)
    BY <1>7, TypedParts DEF NoticesDated, NoticesTyped, Known
  <2>2. CASE k.date = Today
    <3>1. clock < n.at + Day
      BY <1>1, <2>1, <2>2, DayApart DEF Today
    <3>2. QED
      BY <1>1, <2>1, <3>1
  <2>3. CASE k.kind = "config" /\ k.date = DateOf(proc[j].since)
    <3>1. proc[j].since < n.at + Day
      BY <1>1, <2>1, <2>3, DayApart
    <3>2. QED
      BY <1>1, <2>1, <2>3, <3>1
  <2>4. QED
    BY <1>3, <1>7, <2>2, <2>3
<1>8. QED
  BY <1>2, <1>6, <1>7 DEF KeyHolds

\* It stays so while nobody inserts the key.
LEMMA HoldsStays ==
    ASSUME Typed, [Next]_vars, NEW j \in Jobs, proc[j] # None, proc'[j] # None,
           proc'[j].since = proc[j].since, NEW k \in KeyType, KeyHolds(j, k),
           NEW new, \A n \in new : n.key # k,
           notices' \subseteq notices \cup new, ever' \subseteq ever \cup new
    PROVE  KeyHolds(j, k)'
<1>1. /\ clock \in Nat /\ clock' \in Nat /\ clock <= clock' /\ proc[j].since \in Nat
      /\ Day \in Nat /\ Retention \in Nat
  BY RestStep, Facts, AlertAssumption DEF Typed, TypeOK, RestTyped
<1>2. Today <= Today' /\ Today \in Nat /\ Today' \in Nat
  BY <1>1, DaysGrow, DateType DEF Today
<1>3. Owns(j, k)' /\ ~Known(k)'
  BY DEF KeyHolds, Owns, Known, AlertJobs
<1>4. k.date # None => k.date \in Nat /\ k.date <= Today
  BY DEF KeyType, KeyHolds
<1>5. k.date # None => k.date <= Today'
  BY <1>2, <1>4
<1>6. ASSUME k.date # None, NEW n \in ever', n.key = k
      PROVE  k.kind = "config" /\ clock' - proc'[j].since > Retention - Day
  <2>1. n \in ever
    BY <1>6
  <2>2. k.kind = "config" /\ clock - proc[j].since > Retention - Day
    BY <1>6, <2>1 DEF KeyHolds
  <2>3. QED
    BY <1>1, <2>2
<1>7. QED
  BY <1>3, <1>5, <1>6 DEF KeyHolds, Today, DateOf

\* What a step may do to a process that is there after it.
Began(i) == proc'[i].since = clock /\ clock' = clock /\ proc'[i].keys = {}
Stayed(i) ==
    /\ proc[i] # None /\ proc'[i].since = proc[i].since
    /\ \A k \in proc'[i].keys : k \in proc[i].keys \/ (Sought(i, k) /\ ~Known(k))

LEMMA SetFields ==
    ASSUME Typed, NEW j \in Jobs, NEW p, Set(j, p)
    PROVE  proc'[j] = p /\ \A i \in Jobs \ {j} : proc'[i] = proc[i]
  BY DEF Typed, ProcTyped, Set

LEMMA KeysFrom ==
    ASSUME Typed, [Next]_vars, NEW i \in Jobs, proc'[i] # None
    PROVE  Began(i) \/ Stayed(i)
<1>1. ASSUME NEW j \in Jobs, Starts(j) PROVE Began(i) \/ Stayed(i)
  <2>1. clock' = clock /\ \E at, todo, owed : Set(j, Make(clock, at, todo, 1, {}, {}, owed))
    BY <1>1 DEF Starts
  <2>2. QED
    BY <2>1, SetFields, MakeFields DEF Began, Stayed
<1>2. ASSUME NEW j \in Jobs, Passes(j) PROVE Stayed(i)
  <2>1. proc[j] # None /\ \E at, todo, check, logged, owed :
            Set(j, Make(proc[j].since, at, todo, check, proc[j].keys, logged, owed))
    BY <1>2 DEF Passes
  <2>2. QED
    BY <2>1, SetFields, MakeFields DEF Stayed
<1>3. ASSUME NEW j \in Jobs, Looks(j) PROVE Stayed(i)
  <2>1. PICK at, todo, check, logged, owed, ks :
            /\ proc[j] # None
            /\ Set(j, Make(proc[j].since, at, todo, check, Missing(ks), logged, owed))
            /\ \A k \in ks : Sought(j, k)
    BY <1>3 DEF Looks
  <2>2. \A k \in Missing(ks) : Sought(j, k) /\ ~Known(k)
    BY <2>1 DEF Missing
  <2>3. CASE i = j
    <3>1. proc'[i].since = proc[i].since /\ proc'[i].keys = Missing(ks)
      BY <2>1, <2>3, SetFields, MakeFields
    <3>2. QED
      BY <2>1, <2>2, <2>3, <3>1 DEF Stayed
  <2>4. CASE i # j
    BY <2>1, <2>4, SetFields DEF Stayed
  <2>5. QED
    BY <2>3, <2>4
<1>4. ASSUME NEW j \in Jobs, Writes(j) PROVE Stayed(i)
  <2>1. proc[j] # None /\ \E at, todo, check, logged, owed :
            Set(j, Make(proc[j].since, at, todo, check, {}, logged, owed))
    BY <1>4 DEF Writes
  <2>2. QED
    BY <2>1, SetFields, MakeFields DEF Stayed
<1>5. ASSUME NEW j \in Jobs, Ends(j) PROVE Stayed(i)
  BY <1>5, SetFields DEF Ends, Stayed
<1>6. CASE UNCHANGED proc
  BY <1>6 DEF Stayed
<1>7. CASE Filtered
  <2>1. proc[i] # None /\ \E owed : proc'[i] =
            Make(proc[i].since, proc[i].at, proc[i].todo, proc[i].check, proc[i].keys,
                 proc[i].logged, owed)
    BY <1>7 DEF Filtered
  <2>2. QED
    BY <2>1, MakeFields DEF Stayed
<1>8. QED
  BY <1>1, <1>2, <1>3, <1>4, <1>5, <1>6, <1>7, Steps

\* What a step may do to the notices: none is new, or those of one process.
Added(new) == notices' \subseteq notices \cup new /\ ever' = ever \cup new
Wrote(j) ==
    /\ proc[j] # None /\ proc'[j].keys = {}
    /\ clock' = clock /\ notices' = notices \cup Rows(j) /\ Added(Rows(j))

LEMMA NewNotices ==
    ASSUME Typed, [Next]_vars
    PROVE  Added({}) \/ \E j \in Jobs : Wrote(j)
<1>1. CASE UNCHANGED <<notices, ever>>
  BY <1>1 DEF Added
<1>2. CASE Filtered /\ (Cleanup \/ notices' = notices)
  BY <1>2 DEF Filtered, Cleanup, Added
<1>3. ASSUME NEW j \in Jobs, Starts(j) \/ Passes(j) \/ Looks(j) \/ Ends(j)
      PROVE  UNCHANGED <<notices, ever>>
  BY <1>3 DEF Starts, Passes, Looks, Ends, Same
<1>4. ASSUME NEW j \in Jobs, Writes(j) PROVE Added({}) \/ Wrote(j)
  <2>1. proc[j] # None /\ \E at, owed :
            Set(j, Make(proc[j].since, at, proc[j].todo, proc[j].check, {}, proc[j].logged, owed))
    BY <1>4 DEF Writes
  <2>2. proc'[j].keys = {}
    BY <2>1, SetFields, MakeFields
  <2>3. PICK new \in {{}, Rows(j)} :
            notices' = notices \cup new /\ ever' = ever \cup new /\ UNCHANGED world
    BY <1>4 DEF Writes
  <2>4. QED
    BY <2>1, <2>2, <2>3 DEF Added, Wrote, world
<1>5. QED
  BY <1>1, <1>2, <1>3, <1>4, Steps

-----------------------------------------------------------------------------
(* The steps of the three parts.                                              *)

LEMMA DatedStep ==
    ASSUME Typed, NoticesDated, KeysRight, [Next]_vars
    PROVE  NoticesDated'
<1>1. clock \in Nat /\ clock' \in Nat /\ clock <= clock' /\ Retention \in Nat
  BY RestStep, AlertAssumption DEF Typed, TypeOK, RestTyped
<1>2. \A n \in ever : n.at \in Nat
  BY DEF Typed, TypeOK
<1>3. ASSUME NEW n \in ever, n \in notices' \/ n \notin notices
      PROVE  /\ n \in notices' \/ n.at < clock' - Retention
             /\ n.key.date # None => n.key.date <= DateOf(n.at)
  BY <1>1, <1>2, <1>3 DEF NoticesDated
<1>4. CASE Cleanup
  <2>1. /\ ever' = ever /\ clock' = clock
        /\ \A n \in notices : n \in notices' \/ n.at < clock - Retention
    BY <1>4 DEF Cleanup, Expired, world
  <2>2. QED
    BY <1>3, <2>1 DEF NoticesDated, DateOf
<1>5. CASE notices \subseteq notices' /\ ever' = ever
  BY <1>3, <1>5 DEF NoticesDated, DateOf
<1>6. ASSUME NEW j \in Jobs, Writes(j) PROVE NoticesDated'
  <2>1. PICK new \in {{}, Rows(j)} :
            proc[j] # None /\ notices' = notices \cup new /\ ever' = ever \cup new
    BY <1>6 DEF Writes
  <2>2. ASSUME NEW n \in new
        PROVE  n \in notices' /\ (n.key.date # None => n.key.date <= DateOf(n.at))
    <3>1. n \in Rows(j)
      BY <2>1, <2>2
    <3>2. PICK k \in proc[j].keys : n.key = k /\ n.at = clock
      BY <3>1 DEF Rows
    <3>3. k.date # None => k.date <= Today
      BY <2>1, <3>2 DEF KeysRight, KeyHolds
    <3>4. QED
      BY <2>1, <2>2, <3>2, <3>3 DEF Today
  <2>3. QED
    BY <1>3, <2>1, <2>2 DEF NoticesDated, DateOf
<1>7. CASE UNCHANGED <<notices, ever>>
  BY <1>5, <1>7
<1>8. ASSUME NEW j \in Jobs, Starts(j) \/ Passes(j) \/ Looks(j) \/ Ends(j)
      PROVE  UNCHANGED <<notices, ever>>
  BY <1>8 DEF Starts, Passes, Looks, Ends, Same
<1>9. CASE Filtered /\ notices' = notices
  BY <1>7, <1>9 DEF Filtered
<1>10. QED
  BY <1>4, <1>6, <1>7, <1>8, <1>9, Steps

LEMMA KeysStep ==
    ASSUME KeysApart, Typed, NoticesDated, KeysRight, [Next]_vars
    PROVE  KeysRight'
<1> SUFFICES ASSUME NEW i \in Jobs, proc'[i] # None
             PROVE  proc'[i].since <= clock' /\ \A k \in proc'[i].keys : KeyHolds(i, k)'
  BY DEF KeysRight, Jobs, AlertJobs
<1>1. clock \in Nat /\ clock' \in Nat /\ clock <= clock'
  BY RestStep DEF Typed, TypeOK, RestTyped
<1>2. CASE Began(i)
  BY <1>1, <1>2 DEF Began
<1>3. CASE Stayed(i)
  <2>1. proc[i] # None /\ proc[i].since \in Nat /\ proc[i].since <= clock
        /\ proc'[i].since = proc[i].since /\ i \in jobs
    BY <1>3, Facts DEF Stayed, KeysRight
  <2>2. \A k \in proc'[i].keys : k \in KeyType /\ KeyHolds(i, k)
    <3>1. ASSUME NEW k \in proc'[i].keys, k \in proc[i].keys
          PROVE  k \in KeyType /\ KeyHolds(i, k)
      BY <2>1, <3>1, Facts DEF KeysRight
    <3>2. ASSUME NEW k \in proc'[i].keys, Sought(i, k), ~Known(k)
          PROVE  k \in KeyType /\ KeyHolds(i, k)
      BY <2>1, <3>2, SoughtHolds DEF Sought
    <3>3. QED
      BY <1>3, <3>1, <3>2 DEF Stayed
  <2>3. CASE Added({})
    <3> DEFINE new == {}
    <3>0. notices' \subseteq notices \cup new /\ ever' \subseteq ever \cup new
          /\ \A n \in new, k \in proc'[i].keys : n.key # k
      BY <2>3 DEF Added
    <3> HIDE DEF new
    <3>1. \A k \in proc'[i].keys : KeyHolds(i, k)'
      BY <2>1, <2>2, <3>0, HoldsStays
    <3>2. QED
      BY <1>1, <2>1, <3>1
  <2>4. ASSUME NEW j \in Jobs, Wrote(j)
        PROVE  \A k \in proc'[i].keys : KeyHolds(i, k)'
    <3>1. ASSUME NEW k \in proc'[i].keys, NEW n \in Rows(j) PROVE n.key # k
      <4>1. n.key \in proc[j].keys /\ proc[j] # None /\ j \in jobs
        BY <2>4, <3>1, Facts DEF Rows, Wrote
      <4>2. Owns(j, n.key)
        BY <4>1 DEF KeysRight, KeyHolds
      <4>3. n.key = k => i = j
        BY <2>1, <2>2, <3>1, <4>1, <4>2, OneOwner DEF KeyHolds
      <4>4. i # j
        BY <2>4, <3>1 DEF Wrote
      <4>5. QED
        BY <4>3, <4>4
    <3>2. notices' \subseteq notices \cup Rows(j) /\ ever' \subseteq ever \cup Rows(j)
      BY <2>4 DEF Wrote, Added
    <3>3. QED
      BY <2>1, <2>2, <3>1, <3>2, HoldsStays
  <2>5. QED
    BY <1>1, <2>1, <2>3, <2>4, NewNotices
<1>4. QED
  BY <1>2, <1>3, KeysFrom

LEMMA OnceStep ==
    ASSUME Typed, KeysRight, NoticeOnce, [Next]_vars
    PROVE  NoticeOnce'
<1>1. CASE Added({})
  BY <1>1 DEF Added, NoticeOnce, Outlived
<1>2. ASSUME NEW j \in Jobs, Wrote(j) PROVE NoticeOnce'
  <2>1. /\ proc[j] # None /\ notices' \subseteq notices \cup Rows(j) /\ ever' = ever \cup Rows(j)
    BY <1>2 DEF Wrote, Added
  <2>2. ASSUME NEW m \in Rows(j), NEW n \in Rows(j), m.key = n.key PROVE m = n
    BY <2>2 DEF Rows
  <2>3. ASSUME NEW m \in ever, NEW n \in Rows(j), m.key = n.key
        PROVE  (m.key.date # None => Outlived(n)) /\ m \notin notices
    <3>1. PICK k \in proc[j].keys : n.key = k /\ n.at = clock /\ n.since = proc[j].since
      BY DEF Rows
    <3>2. KeyHolds(j, k)
      BY <2>1, <3>1 DEF KeysRight
    <3>3. QED
      BY <2>3, <3>1, <3>2 DEF KeyHolds, Known, Outlived
  <2>4. \A m, n \in ever' : m.key = n.key /\ m.key.date # None =>
            m = n \/ Outlived(m) \/ Outlived(n)
    BY <2>1, <2>2, <2>3 DEF NoticeOnce
  <2>5. \A m, n \in notices' : m.key = n.key => m = n
    <3>1. notices \subseteq ever
      BY DEF Typed, TypeOK
    <3>2. QED
      BY <2>1, <2>2, <2>3, <3>1 DEF NoticeOnce
  <2>6. QED
    BY <2>4, <2>5 DEF NoticeOnce, Outlived
<1>3. QED
  BY <1>1, <1>2, NewNotices

\* Nobody is told twice: the key a run looked for and did not find is there
\* neither when the run inserts it, nor was it, unless the run outlives what it
\* would have found.
THEOREM ToldOnce ==
    ASSUME KeysApart PROVE Spec => []NoticeOnce
<1> DEFINE Inv == Typed /\ NoticesDated /\ KeysRight /\ NoticeOnce
<1>1. Init => Inv
  <2>1. Init => NoticesDated /\ KeysRight /\ NoticeOnce
    BY DEF Init, NoticesDated, KeysRight, NoticeOnce
  <2>2. QED
    BY <2>1, InitTyped
<1>2. Inv /\ [Next]_vars => Inv'
  BY TypedStep, DatedStep, KeysStep, OnceStep
<1>3. Inv => NoticeOnce
  OBVIOUS
<1>4. QED
  BY <1>1, <1>2, <1>3, PTL DEF Spec
-----------------------------------------------------------------------------
(* The day of a reminder.  A run that is still in the day it began has picked *)
(* schedules of this day; one that went past midnight makes keys of the next. *)

OfToday(S) == \A s \in S : Today \in Plan[s].days
Dated(k) == k.kind \in {"remind", "config"} => k.date \in Plan[k.id].days
DaysRight ==
    \A j \in Jobs : proc[j] # None =>
        /\ proc[j].since <= clock
        /\ DateOf(proc[j].since) = Today =>
            /\ OfToday(proc[j].todo)
            /\ \A k \in proc[j].keys : Dated(k)

LEMMA SoughtDated ==
    ASSUME NEW j \in Jobs, OfToday(proc[j].todo), DateOf(proc[j].since) = Today,
           NEW k, Sought(j, k)
    PROVE  Dated(k)
  BY DEF Sought, OfToday, Dated

\* A process that is there after a step, in the day it began.
Rest(i) ==
    /\ proc[i] # None /\ proc'[i].since = proc[i].since
    /\ proc'[i].todo \subseteq proc[i].todo \/ proc'[i].todo \subseteq DueCare
    /\ \A k \in proc'[i].keys : k \in proc[i].keys \/ Sought(i, k)
Opens(i) ==
    /\ proc'[i].since = clock /\ clock' = clock
    /\ proc'[i].todo \subseteq DueConfig /\ proc'[i].keys = {}

LEMMA TodoFrom ==
    ASSUME Typed, [Next]_vars, NEW i \in Jobs, proc'[i] # None
    PROVE  Opens(i) \/ Rest(i)
<1>1. ASSUME NEW j \in Jobs, Starts(j) PROVE Opens(i) \/ Rest(i)
  <2>1. PICK at \in Places, todo \in {{}, DueConfig}, owed \in SUBSET KeyType :
            clock' = clock /\ Set(j, Make(clock, at, todo, 1, {}, {}, owed))
    BY <1>1 DEF Starts
  <2>2. CASE i = j
    <3>1. proc'[i].since = clock /\ proc'[i].keys = {} /\ proc'[i].todo = todo
      BY <2>1, <2>2, SetFields, MakeFields
    <3>2. QED
      BY <2>1, <3>1 DEF Opens
  <2>3. CASE i # j
    BY <2>1, <2>3, SetFields DEF Rest
  <2>4. QED
    BY <2>2, <2>3
<1>2. ASSUME NEW j \in Jobs, Passes(j) PROVE Rest(i)
  <2>1. proc[j] # None /\ \E at, todo, check, logged, owed :
            /\ Set(j, Make(proc[j].since, at, todo, check, proc[j].keys, logged, owed))
            /\ todo \subseteq proc[j].todo \/ todo \subseteq DueCare
    BY <1>2 DEF Passes
  <2>2. QED
    BY <2>1, SetFields, MakeFields DEF Rest
<1>3. ASSUME NEW j \in Jobs, Looks(j) PROVE Rest(i)
  <2>1. PICK at, todo, check, logged, owed, ks :
            /\ proc[j] # None
            /\ Set(j, Make(proc[j].since, at, todo, check, Missing(ks), logged, owed))
            /\ todo \subseteq proc[j].todo
            /\ \A k \in ks : Sought(j, k)
    BY <1>3 DEF Looks
  <2>2. CASE i = j
    <3>1. proc'[i].since = proc[i].since /\ proc'[i].keys = Missing(ks) /\ proc'[i].todo = todo
      BY <2>1, <2>2, SetFields, MakeFields
    <3>2. QED
      BY <2>1, <2>2, <3>1 DEF Rest, Missing
  <2>3. CASE i # j
    BY <2>1, <2>3, SetFields DEF Rest
  <2>4. QED
    BY <2>2, <2>3
<1>4. ASSUME NEW j \in Jobs, Writes(j) PROVE Rest(i)
  <2>1. proc[j] # None /\ \E at, check, logged, owed :
            Set(j, Make(proc[j].since, at, proc[j].todo, check, {}, logged, owed))
    BY <1>4 DEF Writes
  <2>2. QED
    BY <2>1, SetFields, MakeFields DEF Rest
<1>5. ASSUME NEW j \in Jobs, Ends(j) PROVE Rest(i)
  BY <1>5, SetFields DEF Ends, Rest
<1>6. CASE UNCHANGED proc
  BY <1>6 DEF Rest
<1>7. CASE Filtered
  <2>1. proc[i] # None /\ \E owed : proc'[i] =
            Make(proc[i].since, proc[i].at, proc[i].todo, proc[i].check, proc[i].keys,
                 proc[i].logged, owed)
    BY <1>7 DEF Filtered
  <2>2. QED
    BY <2>1, MakeFields DEF Rest
<1>8. QED
  BY <1>1, <1>2, <1>3, <1>4, <1>5, <1>6, <1>7, Steps

LEMMA DaysStep ==
    ASSUME Typed, DaysRight, [Next]_vars
    PROVE  DaysRight'
<1> SUFFICES ASSUME NEW i \in Jobs, proc'[i] # None
             PROVE  /\ proc'[i].since <= clock'
                    /\ DateOf(proc'[i].since) = Today' =>
                        /\ \A s \in proc'[i].todo : Today' \in Plan[s].days
                        /\ \A k \in proc'[i].keys : Dated(k)
  BY DEF DaysRight, OfToday, Dated, DateOf, Jobs, AlertJobs
<1>1. clock \in Nat /\ clock' \in Nat /\ clock <= clock'
  BY RestStep DEF Typed, TypeOK, RestTyped
<1>2. CASE Opens(i)
  <2>1. Today' = Today
    BY <1>2 DEF Opens, Today, DateOf
  <2>2. QED
    BY <1>1, <1>2, <2>1 DEF Opens, OfToday, DueConfig
<1>3. CASE Rest(i)
  <2>1. proc[i] # None /\ proc[i].since \in Nat /\ proc[i].since <= clock
        /\ proc'[i].since = proc[i].since
    BY <1>3, Facts DEF Rest, DaysRight
  <2>2. ASSUME DateOf(proc[i].since) = Today'
        PROVE  /\ \A s \in proc'[i].todo : Today' \in Plan[s].days
               /\ \A k \in proc'[i].keys : Dated(k)
    <3>1. DateOf(proc[i].since) <= Today /\ Today <= Today'
      BY <1>1, <2>1, DaysGrow DEF Today
    <3>2. DateOf(proc[i].since) \in Nat /\ Today \in Nat
      BY <1>1, <2>1, DateType DEF Today
    <3>3. DateOf(proc[i].since) = Today /\ Today' = Today
      BY <2>2, <3>1, <3>2
    <3>4. OfToday(proc[i].todo) /\ \A k \in proc[i].keys : Dated(k)
      BY <2>1, <3>3 DEF DaysRight
    <3>5. OfToday(DueCare)
      BY DEF OfToday, DueCare
    <3>6. \A s \in proc'[i].todo : Today' \in Plan[s].days
      BY <1>3, <3>3, <3>4, <3>5 DEF Rest, OfToday
    <3>7. \A k \in proc'[i].keys : Dated(k)
      BY <1>3, <3>3, <3>4, SoughtDated DEF Rest
    <3>8. QED
      BY <3>6, <3>7
  <2>3. QED
    BY <1>1, <2>1, <2>2 DEF DateOf
<1>4. QED
  BY <1>2, <1>3, TodoFrom

LEMMA ItsDayStep ==
    ASSUME Typed, DaysRight, RemindedOnItsDay, [Next]_vars
    PROVE  RemindedOnItsDay'
<1>1. CASE Added({})
  BY <1>1 DEF Added, RemindedOnItsDay, DateOf
<1>2. ASSUME NEW j \in Jobs, Wrote(j) PROVE RemindedOnItsDay'
  <2>1. proc[j] # None /\ ever' = ever \cup Rows(j)
    BY <1>2 DEF Wrote, Added
  <2>2. ASSUME NEW n \in Rows(j), n.key.kind \in {"remind", "config"},
               DateOf(n.since) = DateOf(n.at)
        PROVE  n.key.date \in Plan[n.key.id].days
    <3>1. PICK k \in proc[j].keys : n.key = k /\ n.at = clock /\ n.since = proc[j].since
      BY <2>2 DEF Rows
    <3>2. QED
      BY <2>1, <2>2, <3>1 DEF DaysRight, Dated, Today
  <2>3. QED
    BY <2>1, <2>2 DEF RemindedOnItsDay, DateOf
<1>3. QED
  BY <1>1, <1>2, NewNotices

\* A reminder whose run began and ended on one day is of a day its schedule
\* recurs on.
THEOREM DayKept == Spec => []RemindedOnItsDay
<1> DEFINE Inv == Typed /\ DaysRight /\ RemindedOnItsDay
<1>1. Init => Inv
  <2>1. Init => DaysRight /\ RemindedOnItsDay
    BY DEF Init, DaysRight, RemindedOnItsDay
  <2>2. QED
    BY <2>1, InitTyped
<1>2. Inv /\ [Next]_vars => Inv'
  BY TypedStep, DaysStep, ItsDayStep
<1>3. Inv => RemindedOnItsDay
  OBVIOUS
<1>4. QED
  BY <1>1, <1>2, <1>3, PTL DEF Spec

-----------------------------------------------------------------------------
(* What a run has to notify: it is told, or the run is still to look for it  *)
(* or has looked for it in vain and is about to write it.                    *)

Told(k) == \E n \in notices : Tells(n, k)
Covers(m, k) ==
    m.kind = k.kind /\ m.id = k.id /\ (k.date # None => m.date \in k.date .. Today)
InHand(p, k) == \E m \in p.keys : Covers(m, k)

\* A configured reminder has the date of the run's start; the places at which a
\* run has a kind of reminders to go through, and at which it writes one.
Reminder(since, k) ==
    /\ k.kind \in {"config", "remind"} /\ k.date \in 0 .. Today
    /\ k.kind = "config" => k.date = DateOf(since)
Listing(kind) == IF kind = "config" THEN {"config", "config row"} ELSE {"rows", "row"}
RowOf(kind) == IF kind = "config" THEN "config row" ELSE "row"
DispatchOwes(p) == \A k \in p.owed :
    /\ Reminder(p.since, k)
    /\ \/ Told(k)
       \/ p.at \in Listing(k.kind) /\ k.id \in p.todo
       \/ p.at = RowOf(k.kind) /\ InHand(p, k)
OverdueOwes(p) == \A k \in p.owed :
    /\ k.kind \in {"feed", "overdue"} /\ k.date \in 0 .. Today
    /\ Told(k) \/ (p.at \in {"feed rows", "care rows"} /\ InHand(p, k))

\* A condition the run has not come to, or whose turn is at one of these places.
Ahead(j, p, k, places) ==
    \E i \in DOMAIN Checks[j] :
        Checks[j][i] = k.id /\ (i > p.check \/ (i = p.check /\ p.at \in places))
Writing(p) == p.at = "alert row"
AlertOwes(j, p) == \A k \in p.owed :
    /\ k = AlertKey(k.id) /\ k.id \in bad
    /\ k.id \in p.logged \/ Ahead(j, p, k, {"read", "event"})
    /\ \/ k.id \in Silent \/ Told(k)
       \/ Ahead(j, p, k, {"read", "event", "notify"})
       \/ Writing(p) /\ InHand(p, k)

Owes(j) ==
    proc[j] # None =>
        /\ j = "dispatch" => DispatchOwes(proc[j])
        /\ j = "overdue" => OverdueOwes(proc[j])
        /\ j \in AlertJobs => AlertOwes(j, proc[j])
OwedRight == \A j \in Jobs : Owes(j)

\* Time passes and notices come: what was told stays told, and a key that was in
\* hand is still of a day that counts.
LEMMA TimePasses ==
    ASSUME clock \in Nat, clock' \in Nat, clock <= clock'
    PROVE  /\ Today \in Nat /\ Today' \in Nat /\ Today <= Today'
           /\ \A d : d \in 0 .. Today => d \in 0 .. Today'
           /\ \A m, k : Covers(m, k) => Covers(m, k)'
           /\ notices \subseteq notices' => \A k : Told(k) => Told(k)'
<1>1. Today \in Nat /\ Today' \in Nat /\ Today <= Today'
  BY DateType, DaysGrow DEF Today
<1>2. \A d, c : d \in c .. Today => d \in c .. Today'
  BY <1>1
<1>3. \A m, k : Covers(m, k) => Covers(m, k)'
  BY <1>2 DEF Covers
<1>4. \A n, k : Tells(n, k) => Tells(n, k)'
  BY <1>2 DEF Tells
<1>5. notices \subseteq notices' => \A k : Told(k) => Told(k)'
  BY <1>4 DEF Told
<1> QED
  BY <1>1, <1>2, <1>3, <1>5

\* A process that stands still, or owes less than before.
LEMMA OwedKept ==
    ASSUME Typed, clock' \in Nat, clock <= clock', notices \subseteq notices',
           NEW j \in Jobs, Owes(j), proc[j] # None, NEW owed, owed \subseteq proc[j].owed,
           LET p == proc[j] IN
           proc'[j] = Make(p.since, p.at, p.todo, p.check, p.keys, p.logged, owed),
           \A k \in owed : k = AlertKey(k.id) /\ k.id \in bad => k.id \in bad'
    PROVE  Owes(j)'
<1> DEFINE p == proc[j]
<1>1. /\ p'.since = p.since /\ p'.at = p.at /\ p'.todo = p.todo /\ p'.check = p.check
      /\ p'.keys = p.keys /\ p'.logged = p.logged /\ p'.owed = owed
  BY MakeFields
<1>2. clock \in Nat
  BY DEF Typed, TypeOK
<1>3. \A m, k : Covers(m, k) => Covers(m, k)'
  BY <1>2, TimePasses
<1>4. \A k : Told(k) => Told(k)'
  BY <1>2, TimePasses
<1>5. \A d : d \in 0 .. Today => d \in 0 .. Today'
  BY <1>2, TimePasses
<1> HIDE DEF p
<1>6. \A k : InHand(p, k) => InHand(p, k)'
  BY <1>1, <1>3 DEF InHand
<1>7. DispatchOwes(p) => DispatchOwes(p)'
  <2> SUFFICES ASSUME DispatchOwes(p), NEW k \in p'.owed
               PROVE  /\ Reminder(p.since, k)'
                      /\ \/ Told(k)'
                         \/ p'.at \in Listing(k.kind) /\ k.id \in p'.todo
                         \/ p'.at = RowOf(k.kind) /\ InHand(p, k)'
    BY DEF DispatchOwes, Listing, RowOf
  <2>1. k \in p.owed
    BY <1>1 DEF p
  <2>2. Reminder(p.since, k)
    BY <2>1 DEF DispatchOwes
  <2>3. Reminder(p.since, k)'
    BY <1>1, <1>5, <2>2 DEF Reminder, DateOf
  <2> QED
    BY <1>1, <1>4, <1>6, <2>1, <2>3 DEF DispatchOwes
<1>8. OverdueOwes(p) => OverdueOwes(p)'
  <2> SUFFICES ASSUME OverdueOwes(p), NEW k \in p'.owed
               PROVE  /\ k.kind \in {"feed", "overdue"} /\ k.date \in 0 .. Today'
                      /\ Told(k)' \/ (p'.at \in {"feed rows", "care rows"} /\ InHand(p, k)')
    BY DEF OverdueOwes
  <2>1. k \in p.owed
    BY <1>1 DEF p
  <2> QED
    BY <2>1, <1>1, <1>4, <1>5, <1>6 DEF OverdueOwes
<1>9. AlertOwes(j, p) => AlertOwes(j, p)'
  <2> SUFFICES ASSUME AlertOwes(j, p), NEW k \in p'.owed
               PROVE  /\ k = AlertKey(k.id) /\ k.id \in bad'
                      /\ k.id \in p'.logged \/ Ahead(j, p', k, {"read", "event"})
                      /\ \/ k.id \in Silent \/ Told(k)'
                         \/ Ahead(j, p', k, {"read", "event", "notify"})
                         \/ Writing(p') /\ InHand(p, k)'
    BY DEF AlertOwes, Ahead, Writing
  <2>1. k \in p.owed /\ (k.id \in bad => k.id \in bad')
    BY <1>1 DEF p, AlertOwes
  <2>2. \A places : Ahead(j, p, k, places) => Ahead(j, p', k, places)
    BY <1>1 DEF Ahead
  <2> QED
    BY <1>1, <1>4, <1>6, <2>1, <2>2 DEF AlertOwes, Writing
<1> QED
  BY <1>7, <1>8, <1>9 DEF Owes, p

LEMMA OthersOwe ==
    ASSUME Typed, OwedRight, clock' \in Nat, clock <= clock', notices \subseteq notices', bad' = bad,
           NEW j \in Jobs, proc'[j] = proc[j]
    PROVE  Owes(j)'
<1>1. CASE proc[j] = None
  BY <1>1 DEF Owes
<1>2. CASE proc[j] # None
  <2>1. Owes(j) /\ proc[j].owed \subseteq proc[j].owed
    BY DEF OwedRight
  <2> QED
    BY <1>2, <2>1, Facts, OwedKept
<1> QED
  BY <1>1, <1>2

\* A step of one process leaves the others as they are.
LEMMA OneOwes ==
    ASSUME Typed, OwedRight, NEW j \in Jobs, NEW p, Set(j, p), UNCHANGED <<clock, bad>>,
           notices \subseteq notices', Owes(j)'
    PROVE  OwedRight'
<1>1. clock' \in Nat /\ clock <= clock'
  BY DEF Typed, TypeOK
<1>2. \A i \in Jobs \ {j} : proc'[i] = proc[i]
  BY SetFields
<1>3. \A i \in Jobs \ {j} : Owes(i)'
  BY <1>1, <1>2, OthersOwe
<1> QED
  BY <1>3 DEF OwedRight

\* What a look has not found is in hand, and what it has found is told.
LEMMA LookedFor ==
    ASSUME NEW k, NEW m, NEW ks, m \in ks, Covers(m, k)
    PROVE  Told(k) \/ (m \in Missing(ks))
<1>1. CASE Known(m)
  <2>1. PICK n \in notices : n.key = m
    BY <1>1 DEF Known
  <2>2. Tells(n, k)
    BY <2>1 DEF Tells, Covers
  <2> QED
    BY <2>2 DEF Told
<1>2. CASE ~Known(m)
  BY <1>2 DEF Missing
<1> QED
  BY <1>1, <1>2

\* What a statement has in hand is told when it succeeds, and owed no longer when
\* it fails.
LEMMA WriteTold ==
    ASSUME Typed, NEW j \in Jobs, NEW place, NEW next, NEW failed, Write(j, place, next, failed)
    PROVE  /\ proc[j] # None /\ proc[j].at = place
           /\ UNCHANGED world /\ notices \subseteq notices'
           /\ \E q : /\ Set(j, q) /\ q.at \in {next, failed} /\ q.todo = proc[j].todo
                    /\ q.since = proc[j].since /\ q.check = proc[j].check /\ q.logged = proc[j].logged
                    /\ q.owed \subseteq proc[j].owed
                    /\ \A k \in q.owed : InHand(proc[j], k) => Told(k)'
<1> DEFINE p == proc[j]
<1>1. p # None /\ p.at = place /\ UNCHANGED world
  BY DEF Write, At
<1>2. PICK ok \in BOOLEAN :
        LET new == IF ok /\ user THEN Rows(j) ELSE {}
        IN /\ notices' = notices \cup new
           /\ Set(j, [proc[j] EXCEPT !.at = IF new = {} THEN failed ELSE next, !.keys = {},
                             !.owed = IF ok /\ user THEN proc[j].owed
                                      ELSE {k \in proc[j].owed : k.id \notin Ids(j)}])
  BY DEF Write, Rows
<1> DEFINE new == IF ok /\ user THEN Rows(j) ELSE {}
           at == IF new = {} THEN failed ELSE next
           owed == IF ok /\ user THEN p.owed ELSE {k \in p.owed : k.id \notin Ids(j)}
           q == Make(p.since, at, p.todo, p.check, {}, p.logged, owed)
<1>3. at \in {next, failed} /\ owed \in SUBSET p.owed
  OBVIOUS
<1>4. notices' = notices \cup new /\ Set(j, [p EXCEPT !.at = at, !.keys = {}, !.owed = owed])
  BY <1>2
<1>5. HasFields(p)
  BY <1>1, Facts
<1>6. [p EXCEPT !.at = at, !.keys = {}, !.owed = owed] = q
  <2> HIDE DEF p, at, owed
  <2> QED
    BY <1>5 DEF HasFields, Make, Fields
<1>7. ASSUME NEW k \in owed, InHand(p, k) PROVE Told(k)'
  <2>1. PICK m \in p.keys : Covers(m, k)
    BY <1>7 DEF InHand
  <2>2. CASE ok /\ user
    <3>1. PICK n \in notices' : n.key = m
      <4>1. [key |-> m, at |-> clock, since |-> p.since, nth |-> Times(m)] \in notices'
        BY <1>4, <2>1, <2>2 DEF Rows
      <4> QED
        BY <4>1
    <3>2. Today' = Today
      BY <1>1 DEF world, Today
    <3>4. Tells(n, k)'
      BY <2>1, <3>1, <3>2 DEF Tells, Covers
    <3> QED
      BY <3>1, <3>4 DEF Told
  <2>3. CASE ~(ok /\ user)
    <3>1. k.id \notin Ids(j)
      BY <1>7, <2>3
    <3>2. k.id \in Ids(j)
      BY <2>1 DEF Ids, Covers
    <3> QED
      BY <3>1, <3>2
  <2> QED
    BY <2>2, <2>3
<1>8. notices \subseteq notices'
  BY <1>4
<1>9. /\ q.at = at /\ q.since = p.since /\ q.todo = p.todo /\ q.check = p.check
      /\ q.logged = p.logged /\ q.owed = owed
  <2> HIDE DEF p, at, owed
  <2> QED
    BY MakeFields
<1>10. Set(j, q)
  BY <1>4, <1>6
<1> HIDE DEF q, at, owed
<1> QED
  BY <1>1, <1>3, <1>7, <1>8, <1>9, <1>10

\* An event or baseline row is written, or its condition is owed no longer.
LoggedIn(p, q, kind) ==
    \/ q.owed = p.owed /\ q.logged = p.logged \cup {kind}
    \/ q.owed = p.owed \ {AlertKey(kind)} /\ q.logged = p.logged

LEMMA LogOwed ==
    ASSUME Typed, NEW j \in Jobs, NEW place, NEW kind, NEW next, Log(j, place, kind, next)
    PROVE  /\ proc[j] # None /\ proc[j].at = place /\ UNCHANGED <<world, notices>>
           /\ \E q : /\ Set(j, q) /\ q.at = next /\ q.check = proc[j].check
                    /\ LoggedIn(proc[j], q, kind)
<1> DEFINE p == proc[j]
<1>1. p # None /\ p.at = place /\ UNCHANGED <<world, notices>>
  BY DEF Log, At, Tables
<1>2. PICK ok \in BOOLEAN :
        Set(j, [p EXCEPT !.at = next,
                         !.logged = IF ok THEN p.logged \cup {kind} ELSE p.logged,
                         !.owed = IF ok THEN p.owed ELSE p.owed \ {AlertKey(kind)}])
  BY DEF Log
<1> DEFINE logged == IF ok THEN p.logged \cup {kind} ELSE p.logged
           owed == IF ok THEN p.owed ELSE p.owed \ {AlertKey(kind)}
           q == Make(p.since, next, p.todo, p.check, p.keys, logged, owed)
<1>3. HasFields(p)
  BY <1>1, Facts
<1>4. [p EXCEPT !.at = next, !.logged = logged, !.owed = owed] = q
  <2> HIDE DEF p, logged, owed
  <2> QED
    BY <1>3 DEF HasFields, Make, Fields
<1>5. q.at = next /\ q.check = p.check /\ q.logged = logged /\ q.owed = owed
  <2> HIDE DEF p, logged, owed
  <2> QED
    BY MakeFields
<1>6. Set(j, q)
  BY <1>2, <1>4
<1>7. LoggedIn(p, q, kind)
  BY <1>5 DEF LoggedIn
<1> HIDE DEF q, logged, owed
<1> QED
  BY <1>1, <1>5, <1>6, <1>7

-----------------------------------------------------------------------------
(* The jobs, one after the other.                                            *)

LEMMA DispatchOwed == ASSUME Typed, OwedRight, Dispatch PROVE OwedRight'
<1> DEFINE j == "dispatch"
           p == proc[j]
<1>1. j \in Jobs /\ j \notin AlertJobs /\ p # None /\ UNCHANGED world
  BY NotAlert DEF Dispatch, DispatchConfig, Fetch, DispatchRow, Dispatched, Write, At, End
<1>2. HasFields(p) /\ DispatchOwes(p) /\ Today \in Nat /\ clock \in Nat
  BY <1>1, Facts, TodayType DEF OwedRight, Owes, Typed, TypeOK
<1>3. ASSUME NEW q, Set(j, q), UNCHANGED world, notices \subseteq notices',
             \A k \in q.owed :
                /\ Reminder(q.since, k)
                /\ \/ Told(k)'
                   \/ q.at \in Listing(k.kind) /\ k.id \in q.todo
                   \/ q.at = RowOf(k.kind) /\ InHand(q, k)
      PROVE  OwedRight'
  <2>1. proc'[j] = q /\ Today' = Today
    BY <1>1, <1>3, SetFields DEF world, Today
  <2>2. \A k : InHand(q, k) => InHand(proc[j], k)'
    BY <2>1 DEF InHand, Covers
  <2>3. DispatchOwes(proc[j])'
    BY <1>3, <2>1, <2>2 DEF DispatchOwes, Reminder, DateOf, Listing, RowOf
  <2>4. Owes(j)'
    BY <1>1, <2>3 DEF Owes, AlertJobs
  <2> QED
    BY <1>1, <1>3, <2>4, OneOwes DEF world
<1>4. notices \subseteq notices' => \A k : Told(k) => Told(k)'
  BY <1>1, <1>2, TimePasses DEF world
<1>5. ASSUME NEW s \in Schedules, NEW kind, NEW date, NEW place, Remind(s, kind, date, place),
             UNCHANGED notices, s \in p.todo,
             \/ p.at = "config" /\ place = "config row" /\ kind = "config" /\ date = DateOf(p.since)
             \/ p.at = "rows" /\ place = "row" /\ kind = "remind" /\ date = Today
      PROVE  OwedRight'
  <2> DEFINE m == Key(kind, s, date)
             todo == p.todo \ {s}
             keys == Missing({m})
             q == Make(p.since, place, todo, p.check, keys, p.logged, p.owed)
  <2>1. Set(j, [p EXCEPT !.at = place, !.todo = todo, !.keys = keys])
    BY <1>5 DEF Remind
  <2>2. [p EXCEPT !.at = place, !.todo = todo, !.keys = keys] = q
    <3> HIDE DEF p, todo, keys
    <3> QED
      BY <1>2 DEF HasFields, Make, Fields
  <2>3. Set(j, q)
    BY <2>1, <2>2
  <2>4. /\ q.at = place /\ q.todo = todo /\ q.keys = keys /\ q.owed = p.owed
        /\ q.since = p.since
    BY MakeFields
  <2>5. ASSUME NEW k \in p.owed
        PROVE  \/ Told(k)'
               \/ place \in Listing(k.kind) /\ k.id \in todo
               \/ place = RowOf(k.kind) /\ InHand(q, k)
    <3>1. CASE Told(k)
      BY <1>4, <1>5, <3>1
    <3>2. CASE ~Told(k)
      <4>1. Reminder(p.since, k) /\ k.id \in p.todo
        BY <1>2, <1>5, <3>2 DEF DispatchOwes, Listing, RowOf
      <4>2. kind = k.kind /\ place \in Listing(k.kind) /\ place = RowOf(k.kind)
        BY <1>2, <1>5, <3>2 DEF DispatchOwes, Reminder, Listing, RowOf
      <4>3. CASE k.id = s
        <5>1. date \in k.date .. Today
          <6>1. \A a, b \in Nat : a \in 0 .. b => a \in a .. b /\ b \in a .. b
            OBVIOUS
          <6>2. k.date \in 0 .. Today /\ (date = k.date \/ date = Today)
            BY <1>5, <4>1, <4>2 DEF Reminder
          <6> QED
            BY <1>2, <6>1, <6>2
        <5>2. Covers(m, k)
          BY <4>2, <4>3, <5>1 DEF Covers, Key
        <5>3. m \in keys
          BY <3>2, <5>2, LookedFor
        <5> QED
          BY <2>4, <4>2, <5>2, <5>3 DEF InHand
      <4>4. CASE k.id # s
        BY <4>1, <4>2, <4>4
      <4> QED
        BY <4>3, <4>4
    <3> QED
      BY <3>1, <3>2
  <2>6. \A k \in p.owed : Reminder(p.since, k)
    BY <1>2 DEF DispatchOwes
  <2> HIDE DEF p, q, todo
  <2> QED
    BY <1>1, <1>3, <1>5, <2>3, <2>4, <2>5, <2>6
<1>6. CASE DispatchConfig
  <2>1. p.at = "config" /\ UNCHANGED notices
    BY <1>6 DEF DispatchConfig, At, Tables
  <2>2. CASE \E s \in p.todo : Remind(s, "config", DateOf(p.since), "config row")
    <3>1. p.todo \subseteq Schedules
      BY <1>1, Facts
    <3> QED
      BY <1>5, <2>1, <2>2, <3>1
  <2>3. CASE p.todo = {} /\ Set(j, [p EXCEPT !.at = "fetch"])
    <3> DEFINE q == Make(p.since, "fetch", p.todo, p.check, p.keys, p.logged, p.owed)
    <3>1. [p EXCEPT !.at = "fetch"] = q
      <4> HIDE DEF p
      <4> QED
        BY <1>2 DEF HasFields, Make, Fields
    <3>2. Set(j, q) /\ q.owed = p.owed /\ q.since = p.since
      BY <2>3, <3>1, MakeFields
    <3>3. \A k \in p.owed : Reminder(p.since, k) /\ Told(k)
      BY <1>2, <2>1, <2>3 DEF DispatchOwes, Listing, RowOf
    <3> HIDE DEF p, q
    <3> QED
      BY <1>1, <1>3, <1>4, <2>1, <3>2, <3>3
  <2> QED
    BY <1>6, <2>2, <2>3 DEF DispatchConfig
<1>7. CASE Fetch
  <2>1. PICK ok \in BOOLEAN :
            Set(j, [p EXCEPT !.at = "rows", !.todo = IF ok THEN DueCare ELSE {},
                             !.owed = IF ok THEN p.owed \cup OughtRemind ELSE p.owed])
    BY <1>7 DEF Fetch
  <2> DEFINE todo == IF ok THEN DueCare ELSE {}
             owed == IF ok THEN p.owed \cup OughtRemind ELSE p.owed
             q == Make(p.since, "rows", todo, p.check, p.keys, p.logged, owed)
  <2>2. [p EXCEPT !.at = "rows", !.todo = todo, !.owed = owed] = q
    <3> HIDE DEF p, todo, owed
    <3> QED
      BY <1>2 DEF HasFields, Make, Fields
  <2>3. Set(j, q) /\ UNCHANGED notices
    BY <1>7, <2>1, <2>2 DEF Fetch, Tables
  <2>4. q.at = "rows" /\ q.todo = todo /\ q.owed = owed /\ q.since = p.since
    BY MakeFields
  <2>5. \A k \in p.owed : Reminder(p.since, k) /\ Told(k)
    <3>1. p.at = "fetch"
      BY <1>7 DEF Fetch, At
    <3> QED
      BY <1>2, <3>1 DEF DispatchOwes, Listing, RowOf
  <2>6. ASSUME NEW k \in owed, k \notin p.owed
        PROVE  Reminder(p.since, k) /\ k.kind = "remind" /\ (Told(k) \/ k.id \in todo)
    <3>1. PICK c \in Care :
            /\ k = Key("remind", c, Today) /\ ok
            /\ Plan[c].time \in {None, Minute} /\ (Plan[c].time = None \/ Minute # 0)
            /\ Today \in Plan[c].days /\ Pending(c)
      BY <2>6 DEF OughtRemind, Ought
    <3>2. k.kind = "remind" /\ k.id = c /\ k.date = Today /\ Reminder(p.since, k)
      BY <1>2, <3>1 DEF Key, Reminder
    <3>3. CASE Known(k)
      <4>1. PICK n \in notices : n.key = k
        BY <3>3 DEF Known
      <4>2. Tells(n, k)
        BY <1>2, <3>2, <4>1 DEF Tells
      <4> QED
        BY <1>2, <3>2, <4>2 DEF Told
    <3>4. CASE ~Known(k)
      <4>1. c \in DueCare
        BY <3>1, <3>4 DEF DueCare, JustDue
      <4> QED
        BY <1>2, <3>1, <3>2, <4>1
    <3> QED
      BY <3>3, <3>4
  <2>7. "rows" \in Listing("remind")
    BY DEF Listing
  <2> HIDE DEF p, q, todo, owed
  <2> QED
    BY <1>1, <1>3, <1>4, <2>3, <2>4, <2>5, <2>6, <2>7
<1>8. CASE DispatchRow
  <2>1. p.at = "rows" /\ UNCHANGED notices /\ p.todo \subseteq Schedules
    BY <1>1, <1>8, Facts DEF DispatchRow, At, Tables
  <2>2. PICK c \in p.todo : Remind(c, "remind", Today, "row")
    BY <1>8 DEF DispatchRow
  <2> QED
    BY <1>5, <2>1, <2>2
<1>9. ASSUME NEW place, NEW next, Write(j, place, next, next),
              \/ place = "config row" /\ next = "config"
              \/ place = "row" /\ next = "rows"
       PROVE  OwedRight'
  <2>1. PICK q : /\ Set(j, q) /\ q.at \in {next, next} /\ q.todo = p.todo /\ q.owed \subseteq p.owed
                 /\ q.since = p.since
                 /\ \A k \in q.owed : InHand(p, k) => Told(k)'
    BY <1>1, <1>9, WriteTold
  <2>2. p.at = place /\ notices \subseteq notices'
    BY <1>1, <1>9, WriteTold
  <2>3. ASSUME NEW k \in q.owed
        PROVE  Reminder(p.since, k) /\ (Told(k)' \/ (next \in Listing(k.kind) /\ k.id \in p.todo))
    <3>1. k \in p.owed /\ Reminder(p.since, k)
      BY <1>2, <2>1 DEF DispatchOwes
    <3>2. p.at \in Listing(k.kind) => next \in Listing(k.kind)
      BY <1>9, <2>2, <3>1 DEF Reminder, Listing
    <3> QED
      BY <1>2, <1>4, <2>1, <2>2, <3>1, <3>2 DEF DispatchOwes
  <2> HIDE DEF p
  <2> QED
    BY <1>1, <1>3, <2>1, <2>2, <2>3
<1>10. CASE Dispatched
  <2>1. Set(j, None) /\ UNCHANGED <<world, notices>>
    BY <1>10 DEF Dispatched, End, Tables
  <2>2. Owes(j)'
    BY <1>1, <2>1, SetFields DEF Owes
  <2> QED
    BY <1>1, <2>1, <2>2, OneOwes DEF world
<1> QED
  BY <1>6, <1>7, <1>8, <1>9, <1>10 DEF Dispatch

\* What is late now was scheduled before now less the grace: no time wraps.
LEMMA LateSelected ==
    ASSUME clock \in Nat, NEW s \in Schedules, Late(s) PROVE LongDue(s)
<1> DEFINE t == Minute - Grace
<1>1. /\ Plan[s].time # None /\ Plan[s].time \in 0 .. Day - 1 /\ Plan[s].time + Grace <= Minute
      /\ Grace \in Nat /\ Day \in Nat \ {0}
  BY AlertAssumption DEF Late
<1>2. Minute \in 0 .. Day - 1
  <2>1. \A a \in Nat, d \in Nat \ {0} : a % d \in 0 .. d - 1
    OBVIOUS
  <2> QED
    BY <1>1, <2>1 DEF Minute
<1>3. t \in 0 .. Day - 1 /\ Plan[s].time <= t
  BY <1>1, <1>2
<1>4. \A d \in Nat \ {0} : \A a \in 0 .. d - 1 : a % d = a
  OBVIOUS
<1>5. t % Day = t
  <2> HIDE DEF t
  <2> QED
    BY <1>1, <1>3, <1>4
<1> QED
  BY <1>1, <1>3, <1>5 DEF LongDue

LEMMA OverdueOwed == ASSUME Typed, OwedRight, Overdue PROVE OwedRight'
<1> DEFINE j == "overdue"
           p == proc[j]
<1>1. j \in Jobs /\ j \notin AlertJobs /\ p # None /\ UNCHANGED world
  BY NotAlert DEF Overdue, Look, Log, Write, At, End
<1>2. HasFields(p) /\ OverdueOwes(p) /\ Today \in Nat /\ clock \in Nat
  BY <1>1, Facts, TodayType DEF OwedRight, Owes, Typed, TypeOK
<1>3. ASSUME NEW q, Set(j, q), UNCHANGED world, notices \subseteq notices',
             \A k \in q.owed :
                /\ k.kind \in {"feed", "overdue"} /\ k.date \in 0 .. Today
                /\ Told(k)' \/ (q.at \in {"feed rows", "care rows"} /\ InHand(q, k))
      PROVE  OwedRight'
  <2>1. proc'[j] = q /\ Today' = Today
    BY <1>1, <1>3, SetFields DEF world, Today
  <2>2. \A k : InHand(q, k) => InHand(proc[j], k)'
    BY <2>1 DEF InHand, Covers
  <2>3. OverdueOwes(proc[j])'
    BY <1>3, <2>1, <2>2 DEF OverdueOwes
  <2>4. Owes(j)'
    BY <1>1, <2>3 DEF Owes, AlertJobs
  <2> QED
    BY <1>1, <1>3, <2>4, OneOwes DEF world
<1>4. notices \subseteq notices' => \A k : Told(k) => Told(k)'
  BY <1>1, <1>2, TimePasses DEF world
<1>5. ASSUME NEW place, NEW kind \in {"feed", "overdue"}, NEW found, NEW due_, NEW next,
             Look(place, kind, found, Ought(kind, due_), next), due_ \subseteq found,
             place \in {"feed", "care"}, next \in {"feed rows", "care rows"}
      PROVE  OwedRight'
  <2> DEFINE ks == {Key(kind, s, Today) : s \in found}
             keys == Missing(ks)
             owed == p.owed \cup Ought(kind, due_)
             q == Make(p.since, next, p.todo, p.check, keys, p.logged, owed)
  <2>1. /\ p.at = place /\ UNCHANGED <<world, notices>>
        /\ Set(j, [p EXCEPT !.at = next, !.keys = keys, !.owed = owed])
    BY <1>5 DEF Look, At, Tables
  <2>2. [p EXCEPT !.at = next, !.keys = keys, !.owed = owed] = q
    <3> HIDE DEF p, keys, owed
    <3> QED
      BY <1>2 DEF HasFields, Make, Fields
  <2>3. q.at = next /\ q.keys = keys /\ q.owed = owed
    BY MakeFields
  <2>4. ASSUME NEW k \in owed
        PROVE  /\ k.kind \in {"feed", "overdue"} /\ k.date \in 0 .. Today
               /\ Told(k)' \/ InHand(q, k)
    <3>1. CASE k \in p.owed
      BY <1>2, <1>4, <1>5, <2>1, <3>1 DEF OverdueOwes
    <3>2. CASE k \in Ought(kind, due_)
      <4>1. PICK s \in due_ : k = Key(kind, s, Today)
        BY <3>2 DEF Ought
      <4>2. k.kind = kind /\ k.date = Today
        BY <4>1 DEF Key
      <4>3. k \in ks /\ Covers(k, k)
        <5>1. k \in ks
          BY <1>5, <4>1
        <5>2. Today \in Today .. Today
          BY <1>2
        <5> QED
          BY <4>2, <5>1, <5>2 DEF Covers
      <4>4. Told(k) \/ k \in keys
        BY <4>3, LookedFor
      <4>5. Told(k)' \/ InHand(q, k)
        BY <1>4, <2>1, <2>3, <4>3, <4>4 DEF InHand
      <4> QED
        BY <1>2, <4>2, <4>5
    <3> QED
      BY <3>1, <3>2
  <2> HIDE DEF p, q, owed
  <2> QED
    BY <1>3, <1>5, <2>1, <2>2, <2>3, <2>4
<1>6. CASE Look("feed", "feed", OverdueFeeding, OughtFeed, "feed rows")
  <2> DEFINE late == {f \in Feeding : Late(f) /\ Pending(f)}
  <2>1. late \subseteq OverdueFeeding
    BY <1>2, LateSelected DEF OverdueFeeding, Schedules
  <2>2. OughtFeed = Ought("feed", late)
    BY DEF OughtFeed
  <2> HIDE DEF late
  <2> QED
    BY <1>5, <1>6, <2>1, <2>2
<1>7. CASE Look("care", "overdue", OverdueCare, OughtOverdue, "care rows")
  <2> DEFINE late == {c \in Care : /\ Late(c) \/ (Plan[c].deadline # None /\ Plan[c].deadline < Today)
                                   /\ Pending(c)}
  <2>1. late \subseteq OverdueCare
    BY <1>2, LateSelected DEF OverdueCare, Schedules
  <2>2. OughtOverdue = Ought("overdue", late)
    BY DEF OughtOverdue
  <2> HIDE DEF late
  <2> QED
    BY <1>5, <1>7, <2>1, <2>2
<1>8. ASSUME NEW place \in {"feed rows", "care rows"}, NEW next, NEW failed, Write(j, place, next, failed)
      PROVE  OwedRight'
  <2>1. PICK q : /\ Set(j, q) /\ q.owed \subseteq p.owed
                 /\ \A k \in q.owed : InHand(p, k) => Told(k)'
    BY <1>1, <1>8, WriteTold
  <2>2. p.at = place /\ notices \subseteq notices'
    BY <1>1, <1>8, WriteTold
  <2>3. ASSUME NEW k \in q.owed
        PROVE  k.kind \in {"feed", "overdue"} /\ k.date \in 0 .. Today /\ Told(k)'
    BY <1>2, <1>4, <2>1, <2>2 DEF OverdueOwes
  <2> HIDE DEF p
  <2> QED
    BY <1>1, <1>3, <2>1, <2>2, <2>3
<1>9. ASSUME NEW place, NEW kind, NEW next, Log(j, place, kind, next),
             place \notin {"feed rows", "care rows"}
      PROVE  OwedRight'
  <2>1. Log(j, place, kind, next)
    BY <1>9
  <2>2. PICK q : Set(j, q) /\ LoggedIn(p, q, kind)
    BY <1>1, <2>1, LogOwed
  <2>3. p.at = place /\ UNCHANGED notices
    BY <1>1, <2>1, LogOwed
  <2>4. \A k \in p.owed : k.kind \in {"feed", "overdue"} /\ k.date \in 0 .. Today /\ Told(k)
    BY <1>2, <1>9, <2>3 DEF OverdueOwes
  <2>5. q.owed \subseteq p.owed
    BY <2>2 DEF LoggedIn
  <2> HIDE DEF p
  <2> QED
    BY <1>1, <1>3, <1>4, <2>2, <2>3, <2>4, <2>5
<1>10. CASE At(j, "end") /\ End(j)
  <2>1. Set(j, None) /\ UNCHANGED <<world, notices>>
    BY <1>10 DEF End, Tables
  <2>2. Owes(j)'
    BY <1>1, <2>1, SetFields DEF Owes
  <2> QED
    BY <1>1, <2>1, <2>2, OneOwes DEF world
<1>11. CASE \/ Log(j, "feed event", "feed", "care")
            \/ Log(j, "care event", "care", "end")
  <2>1. "feed event" \notin {"feed rows", "care rows"} /\ "care event" \notin {"feed rows", "care rows"}
    OBVIOUS
  <2> QED
    BY <1>9, <1>11, <2>1
<1> QED
  BY <1>6, <1>7, <1>8, <1>10, <1>11 DEF Overdue

LEMMA AlertOwed ==
    ASSUME Typed, OwedRight, NEW j \in AlertJobs, Alert(j) PROVE OwedRight'
<1> DEFINE p == proc[j]
           n == p.check
           c == Condition(j)
<1>1. j \in Jobs /\ j \notin {"dispatch", "overdue"} /\ p # None /\ UNCHANGED world
  BY AlertAssumption DEF Alert, Read, Notify, NextCheck, Log, Write, At, End, Jobs
<1>2. HasFields(p) /\ AlertOwes(j, p) /\ n \in Nat
  BY <1>1, Facts DEF OwedRight, Owes
<1>3. ASSUME NEW q, Set(j, q), UNCHANGED world, notices \subseteq notices',
             \A k \in q.owed :
                /\ k = AlertKey(k.id) /\ k.id \in bad
                /\ k.id \in q.logged \/ Ahead(j, q, k, {"read", "event"})
                /\ \/ k.id \in Silent \/ Told(k)'
                   \/ Ahead(j, q, k, {"read", "event", "notify"})
                   \/ Writing(q) /\ InHand(q, k)
      PROVE  OwedRight'
  <2>1. proc'[j] = q /\ Today' = Today /\ bad' = bad
    BY <1>1, <1>3, SetFields DEF world, Today
  <2>2. \A k : InHand(q, k) => InHand(proc[j], k)'
    BY <2>1 DEF InHand, Covers
  <2>3. AlertOwes(j, proc[j])'
    BY <1>3, <2>1, <2>2 DEF AlertOwes, Ahead, Writing
  <2>4. Owes(j)'
    BY <1>1, <2>3 DEF Owes
  <2> QED
    BY <1>1, <1>3, <2>4, OneOwes DEF world
<1>4. notices \subseteq notices' => \A k : Told(k) => Told(k)'
  <2>1. clock \in Nat
    BY DEF Typed, TypeOK
  <2> QED
    BY <1>1, <2>1, TimePasses DEF world
<1> DEFINE Now(k) == n \in DOMAIN Checks[j] /\ c = k.id
           Later(k) == \E i \in DOMAIN Checks[j] : Checks[j][i] = k.id /\ i > n
\* What a step finds of a key: its condition's turn, or a later one, or it is done with.
<1>5. ASSUME NEW k \in p.owed
      PROVE  /\ k = AlertKey(k.id) /\ k.id \in bad
             /\ k.id \in p.logged \/ Later(k) \/ (Now(k) /\ p.at \in {"read", "event"})
             /\ \/ k.id \in Silent \/ Told(k) \/ Later(k)
                \/ Now(k) /\ p.at \in {"read", "event", "notify"}
                \/ Writing(p) /\ InHand(p, k)
  BY <1>2 DEF AlertOwes, Ahead, Condition
\* What it leaves.
<1>6. ASSUME NEW k, NEW q, NEW places, q.check = n, Later(k) \/ (Now(k) /\ q.at \in places)
      PROVE  Ahead(j, q, k, places)
  BY <1>6 DEF Ahead, Condition
<1>7. CASE Read(j)
  <2>1. PICK ok \in BOOLEAN : \E raised \in Raised(c, ok) :
            Set(j, [p EXCEPT !.at = IF raised THEN "event" ELSE "next",
                             !.owed = IF ok THEN p.owed ELSE p.owed \ {AlertKey(c)}])
    BY <1>7 DEF Read
  <2>0. PICK raised \in Raised(c, ok) :
            Set(j, [p EXCEPT !.at = IF raised THEN "event" ELSE "next",
                             !.owed = IF ok THEN p.owed ELSE p.owed \ {AlertKey(c)}])
    BY <2>1
  <2> DEFINE at == IF raised THEN "event" ELSE "next"
             owed == IF ok THEN p.owed ELSE p.owed \ {AlertKey(c)}
             q == Make(p.since, at, p.todo, n, p.keys, p.logged, owed)
  <2>2. [p EXCEPT !.at = at, !.owed = owed] = q
    <3> HIDE DEF p, at, owed
    <3> QED
      BY <1>2 DEF HasFields, Make, Fields, n
  <2>3. Set(j, q) /\ p.at = "read" /\ UNCHANGED notices
    BY <1>7, <2>0, <2>2 DEF Read, At, Tables
  <2>4. q.at = at /\ q.check = n /\ q.logged = p.logged /\ q.owed = owed
    BY MakeFields
  <2>5. ASSUME NEW k \in owed, Now(k) PROVE at = "event"
    <3>1. k \in p.owed /\ k = AlertKey(c) /\ c \in bad
      BY <1>5, <2>5
    <3>2. ok
      BY <2>5, <3>1
    <3>3. raised
      BY <3>1, <3>2 DEF Raised
    <3> QED
      BY <3>3
  <2>6. owed \subseteq p.owed /\ ~Writing(p)
    BY <2>3 DEF Writing
  <2>7. ASSUME NEW k \in q.owed
        PROVE  /\ k = AlertKey(k.id) /\ k.id \in bad
               /\ k.id \in q.logged \/ Ahead(j, q, k, {"read", "event"})
               /\ \/ k.id \in Silent \/ Told(k)'
                  \/ Ahead(j, q, k, {"read", "event", "notify"})
    <3> HIDE DEF p, q, n, c, owed, at, Now, Later
    <3> QED
      BY <1>4, <1>5, <1>6, <2>3, <2>4, <2>5, <2>6
  <2> HIDE DEF p, q
  <2> QED
    BY <1>1, <1>3, <2>3, <2>7
<1>8. ASSUME Log(j, "event", c, IF c \in Silent THEN "next" ELSE "notify") PROVE OwedRight'
  <2> DEFINE next == IF c \in Silent THEN "next" ELSE "notify"
  <2>1. PICK q : Set(j, q) /\ q.at = next /\ q.check = n /\ LoggedIn(p, q, c)
    BY <1>1, <1>8, LogOwed
  <2>2. p.at = "event" /\ UNCHANGED notices /\ ~Writing(p)
    <3>1. p.at = "event" /\ UNCHANGED notices
      BY <1>1, <1>8, LogOwed
    <3> QED
      BY <3>1 DEF Writing
  <2>3. ASSUME NEW k \in q.owed
        PROVE  /\ k = AlertKey(k.id) /\ k.id \in bad
               /\ k.id \in q.logged \/ Ahead(j, q, k, {"read", "event"})
               /\ \/ k.id \in Silent \/ Told(k)'
                  \/ Ahead(j, q, k, {"read", "event", "notify"})
    <3>1. k \in p.owed
      BY <2>1 DEF LoggedIn
    <3>2. Now(k) => k.id \in q.logged
      BY <1>5, <2>1, <3>1 DEF LoggedIn
    <3>3. Now(k) => k.id \in Silent \/ q.at = "notify"
      BY <2>1
    <3>4. k.id \in p.logged => k.id \in q.logged
      BY <2>1 DEF LoggedIn
    <3> HIDE DEF p, n, c, next, Now, Later
    <3> QED
      BY <1>4, <1>5, <1>6, <2>1, <2>2, <3>1, <3>2, <3>3, <3>4
  <2> HIDE DEF p
  <2> QED
    BY <1>1, <1>3, <2>1, <2>2, <2>3
<1>9. CASE Notify(j)
  <2> DEFINE place == "alert row"
             keys == Missing({AlertKey(c)})
             q == Make(p.since, place, p.todo, n, keys, p.logged, p.owed)
  <2>1. [p EXCEPT !.at = place, !.keys = keys] = q
    <3> HIDE DEF p, place, keys
    <3> QED
      BY <1>2 DEF HasFields, Make, Fields, n
  <2>2. Set(j, q) /\ p.at = "notify" /\ UNCHANGED notices
    <3>1. Set(j, [p EXCEPT !.at = place, !.keys = keys]) /\ p.at = "notify"
      BY <1>9 DEF Notify, At
    <3>2. UNCHANGED notices
      BY <1>9 DEF Notify, Tables
    <3> QED
      BY <2>1, <3>1, <3>2
  <2>3. q.at = place /\ q.keys = keys /\ q.check = n /\ q.logged = p.logged /\ q.owed = p.owed
    <3> HIDE DEF p, place, keys
    <3> QED
      BY MakeFields
  <2>4. Writing(q) /\ ~Writing(p) /\ ~(p.at \in {"read", "event"})
    BY <2>2, <2>3 DEF Writing
  <2>5. q.keys = keys /\ q.check = n /\ q.logged = p.logged /\ q.owed = p.owed
    <3> HIDE DEF q, place
    <3> QED
      BY <2>3
  <2>6. ASSUME NEW k \in p.owed, Now(k) PROVE Told(k) \/ InHand(q, k)
    <3>1. k = AlertKey(c)
      BY <1>5, <2>6
    <3>2. AlertKey(c) \in {AlertKey(c)} /\ Covers(AlertKey(c), k)
      BY <3>1 DEF Covers, AlertKey, Key
    <3>3. Told(k) \/ AlertKey(c) \in keys
      BY <3>2, LookedFor
    <3> QED
      BY <2>5, <3>2, <3>3 DEF InHand
  <2>7. ASSUME NEW k \in q.owed
        PROVE  /\ k = AlertKey(k.id) /\ k.id \in bad
               /\ k.id \in q.logged \/ Ahead(j, q, k, {"read", "event"})
               /\ \/ k.id \in Silent \/ Told(k)'
                  \/ Ahead(j, q, k, {"read", "event", "notify"})
                  \/ Writing(q) /\ InHand(q, k)
    <3>1. UNCHANGED notices
      BY <2>2
    <3> HIDE DEF p, q, n, c, keys, Now, Later
    <3> QED
      BY <1>4, <1>5, <1>6, <2>4, <2>5, <2>6, <3>1
  <2>8. Set(j, q) /\ UNCHANGED notices
    BY <2>2
  <2> HIDE DEF p, q
  <2> QED
    BY <1>1, <1>3, <2>7, <2>8
<1>10. CASE Write(j, "alert row", "next", "next")
  <2>1. PICK q : /\ Set(j, q) /\ q.at \in {"next", "next"} /\ q.check = n /\ q.logged = p.logged
                 /\ q.owed \subseteq p.owed /\ \A k \in q.owed : InHand(p, k) => Told(k)'
    BY <1>1, <1>10, WriteTold
  <2>2. notices \subseteq notices' /\ p.at \notin {"read", "event", "notify"}
    <3>1. notices \subseteq notices' /\ p.at = "alert row"
      BY <1>1, <1>10, WriteTold
    <3> QED
      BY <3>1
  <2>3. ASSUME NEW k \in q.owed
        PROVE  /\ k = AlertKey(k.id) /\ k.id \in bad
               /\ k.id \in q.logged \/ Ahead(j, q, k, {"read", "event"})
               /\ \/ k.id \in Silent \/ Told(k)'
                  \/ Ahead(j, q, k, {"read", "event", "notify"})
    <3>1. k \in p.owed
      BY <2>1
    <3> HIDE DEF p, n, c, Now, Later
    <3> QED
      BY <1>4, <1>5, <1>6, <2>1, <2>2, <3>1
  <2> HIDE DEF p
  <2> QED
    BY <1>1, <1>3, <2>1, <2>2, <2>3
<1>11. CASE NextCheck(j)
  <2> DEFINE m == n + 1
             q == Make(p.since, "read", p.todo, m, p.keys, p.logged, p.owed)
  <2>1. [p EXCEPT !.at = "read", !.check = m] = q
    <3> HIDE DEF p, m
    <3> QED
      BY <1>2 DEF HasFields, Make, Fields
  <2>2. Set(j, q) /\ p.at = "next" /\ UNCHANGED notices /\ ~Writing(p)
    BY <1>11, <2>1 DEF NextCheck, At, Tables, Writing
  <2>3. q.at = "read" /\ q.check = m /\ q.logged = p.logged /\ q.owed = p.owed
    BY MakeFields
  <2>4. ASSUME NEW k, NEW places, "read" \in places, Later(k) PROVE Ahead(j, q, k, places)
    <3>1. PICK i \in DOMAIN Checks[j] : Checks[j][i] = k.id /\ i > n
      BY <2>4
    <3>2. i \in Nat
      BY AlertAssumption
    <3>3. i > m \/ i = m
      BY <1>2, <3>1, <3>2
    <3> QED
      BY <2>3, <2>4, <3>1, <3>3 DEF Ahead
  <2>5. ASSUME NEW k \in q.owed
        PROVE  /\ k = AlertKey(k.id) /\ k.id \in bad
               /\ k.id \in q.logged \/ Ahead(j, q, k, {"read", "event"})
               /\ \/ k.id \in Silent \/ Told(k)'
                  \/ Ahead(j, q, k, {"read", "event", "notify"})
    <3> HIDE DEF p, q, n, c, m, Now, Later
    <3> QED
      BY <1>4, <1>5, <2>2, <2>3, <2>4
  <2> HIDE DEF p, q
  <2> QED
    BY <1>1, <1>3, <2>2, <2>5
<1>12. CASE End(j)
  <2>1. Set(j, None) /\ UNCHANGED <<world, notices>>
    BY <1>12 DEF End, Tables
  <2>2. Owes(j)'
    BY <1>1, <2>1, SetFields DEF Owes
  <2> QED
    BY <1>1, <2>1, <2>2, OneOwes DEF world
<1> QED
  BY <1>1, <1>7, <1>8, <1>9, <1>10, <1>11, <1>12 DEF Alert

\* A run of an alert job owes what holds when it begins, and has it all before it.
LEMMA StartOwed ==
    ASSUME Typed, OwedRight, NEW j \in Jobs, Start(j) PROVE OwedRight'
<1> DEFINE todo == IF j = "dispatch" THEN DueConfig ELSE {}
           held == {i \in DOMAIN Checks[j] : Checks[j][i] \in bad}
           owed == IF j \in AlertJobs THEN {AlertKey(Checks[j][i]) : i \in held}
                   ELSE IF j = "dispatch" THEN OughtConfig ELSE {}
           q == [at |-> First(j), since |-> clock, todo |-> todo,
                 check |-> 1, keys |-> {}, logged |-> {}, owed |-> owed]
<1>1. Set(j, q) /\ UNCHANGED <<clock, bad, notices>>
  BY DEF Start, Tables
<1>2. q.at = First(j) /\ q.check = 1 /\ q.owed = owed /\ q.todo = todo /\ q.since = clock
  OBVIOUS
<1>3. CASE j \notin AlertJobs /\ j # "dispatch"
  <2>1. q.owed = {} /\ q = proc'[j]
    BY <1>1, <1>2, <1>3, SetFields
  <2> HIDE DEF q
  <2>2. proc'[j].owed = {}
    BY <2>1
  <2>3. Owes(j)'
    BY <1>3, <2>2 DEF Owes, DispatchOwes, OverdueOwes, AlertJobs
  <2> QED
    BY <1>1, <2>3, OneOwes
<1>4. CASE j = "dispatch"
  <2>1. q = proc'[j] /\ Today' = Today /\ Today \in Nat
    BY <1>1, SetFields, TodayType DEF Today, Typed, TypeOK
  <2>2. q.at = "config" /\ q.todo = DueConfig /\ q.owed = OughtConfig /\ j \notin AlertJobs
    BY <1>2, <1>4, NotAlert DEF First
  <2>3. ASSUME NEW k \in OughtConfig
        PROVE  Reminder(clock, k) /\ k.kind = "config" /\ k.id \in DueConfig
    <3>1. PICK s \in DueConfig : k = Key("config", s, Today)
      BY DEF OughtConfig, Ought, DueConfig
    <3>2. k.kind = "config" /\ k.id = s /\ k.date = Today
      BY <3>1 DEF Key
    <3> QED
      BY <2>1, <3>1, <3>2 DEF Reminder, Today
  <2>4. "config" \in Listing("config")
    BY DEF Listing
  <2> HIDE DEF q
  <2>5. DispatchOwes(proc[j])'
    BY <1>2, <2>1, <2>2, <2>3, <2>4 DEF DispatchOwes, Reminder, DateOf, Listing, RowOf
  <2>6. Owes(j)'
    BY <1>4, <2>2, <2>5 DEF Owes, AlertJobs
  <2> QED
    BY <1>1, <2>6, OneOwes
<1>5. CASE j \in AlertJobs
  <2>1. q.at = "read"
    BY <1>2, <1>5, NotAlert DEF First
  <2>2. ASSUME NEW k \in owed
        PROVE  /\ k = AlertKey(k.id) /\ k.id \in bad
               /\ \A places : "read" \in places => Ahead(j, q, k, places)
    <3>1. PICK i \in DOMAIN Checks[j] : Checks[j][i] \in bad /\ k = AlertKey(Checks[j][i])
      BY <1>5
    <3>2. k.id = Checks[j][i]
      BY <3>1 DEF AlertKey, Key
    <3>3. i > 1 \/ i = 1
      BY <1>5, AlertAssumption
    <3> HIDE DEF q
    <3> QED
      BY <1>2, <2>1, <3>1, <3>2, <3>3 DEF Ahead
  <2>3. q = proc'[j] /\ bad' = bad
    BY <1>1, SetFields
  <2> HIDE DEF q
  <2>4. AlertOwes(j, proc[j])'
    BY <1>2, <2>2, <2>3 DEF AlertOwes, Ahead
  <2>5. Owes(j)'
    BY <1>5, <2>4, NotAlert DEF Owes, AlertJobs
  <2> HIDE DEF owed
  <2> QED
    BY <1>1, <2>5, OneOwes
<1> QED
  BY <1>3, <1>4, <1>5

-----------------------------------------------------------------------------
(* The world, and all steps.                                                 *)

\* A process that a step of the world leaves with part of what it owed.
LEMMA WorldOwed ==
    ASSUME Typed, OwedRight, clock' = clock, notices \subseteq notices', NEW S,
           proc' = [j \in Jobs |-> IF proc[j] = None THEN None
                                   ELSE [proc[j] EXCEPT !.owed = proc[j].owed \ S]],
           \A k : k = AlertKey(k.id) /\ k.id \in bad /\ k \notin S => k.id \in bad'
    PROVE  OwedRight'
<1>1. ASSUME NEW j \in Jobs PROVE Owes(j)'
  <2>1. CASE proc[j] = None
    BY <2>1 DEF Owes
  <2>2. CASE proc[j] # None
    <3> DEFINE p == proc[j]
               owed == p.owed \ S
    <3>1. HasFields(p) /\ Owes(j) /\ clock' \in Nat /\ clock <= clock'
      BY <2>2, Facts DEF OwedRight, Typed, TypeOK
    <3>2. [p EXCEPT !.owed = owed] = Make(p.since, p.at, p.todo, p.check, p.keys, p.logged, owed)
      <4> HIDE DEF p, owed
      <4> QED
        BY <3>1 DEF HasFields, Make, Fields
    <3>3. proc'[j] = Make(p.since, p.at, p.todo, p.check, p.keys, p.logged, owed)
      BY <2>2, <3>2
    <3>4. \A k \in owed : k = AlertKey(k.id) /\ k.id \in bad => k.id \in bad'
      OBVIOUS
    <3>5. owed \subseteq p.owed
      OBVIOUS
    <3> HIDE DEF owed
    <3> QED
      BY <2>2, <3>1, <3>3, <3>4, <3>5, OwedKept
  <2> QED
    BY <2>1, <2>2
<1> QED
  BY <1>1 DEF OwedRight

LEMMA OwedStep == ASSUME Typed, OwedRight, [Next]_vars PROVE OwedRight'
<1>1. CASE UNCHANGED <<notices, bad, proc>> /\ (clock' = clock \/ clock' = clock + 1)
  <2>1. clock' \in Nat /\ clock <= clock'
    BY <1>1 DEF Typed, TypeOK
  <2> QED
    BY <1>1, <2>1, OthersOwe DEF OwedRight
<1>2. CASE Cleanup
  <2>1. ASSUME NEW j \in Jobs, proc[j] # None PROVE proc'[j].owed = {}
    <3> DEFINE p == proc[j]
    <3>1. HasFields(p) /\ proc'[j] = [p EXCEPT !.owed = {}]
      BY <1>2, <2>1, Facts DEF Cleanup
    <3> HIDE DEF p
    <3> QED
      BY <3>1 DEF HasFields, Fields
  <2>2. \A j \in Jobs : proc[j] = None => proc'[j] = None
    BY <1>2 DEF Cleanup
  <2> QED
    BY <2>1, <2>2 DEF OwedRight, Owes, DispatchOwes, OverdueOwes, AlertOwes
<1>3. ASSUME NEW k \in Conditions, Change(k) PROVE OwedRight'
  <2>1. /\ UNCHANGED <<clock, notices>>
        /\ bad' = IF k \in bad THEN bad \ {k} ELSE bad \cup {k}
        /\ proc' = [j \in Jobs |-> IF proc[j] = None THEN None
                                   ELSE [proc[j] EXCEPT !.owed = proc[j].owed \ {AlertKey(k)}]]
    BY <1>3 DEF Change
  <2>2. \A m : m = AlertKey(m.id) /\ m.id \in bad /\ m \notin {AlertKey(k)} => m.id \in bad'
    BY <2>1
  <2> QED
    BY <2>1, <2>2, WorldOwed
<1> QED
  BY <1>1, <1>2, <1>3, StartOwed, DispatchOwed, OverdueOwed, AlertOwed
     DEF Next, vars, Advance, Provision, Complete

LEMMA InitOwed == Init => OwedRight
  BY DEF Init, OwedRight, Owes

\* A run that ends owes nothing any longer.
LEMMA EndTells ==
    ASSUME Typed, OwedRight, Next, NEW j \in Jobs, proc[j] # None, proc'[j] = None,
           NEW k \in proc[j].owed
    PROVE  /\ k.id \in Silent \/ \E n \in notices : Tells(n, k)
           /\ k.kind = "alert" => k.id \in proc[j].logged
<1> DEFINE p == proc[j]
<1>1. Owes(j) /\ HasFields(p)
  BY Facts DEF OwedRight
<1>2. Last(j)
  <2>1. ASSUME NEW i \in Jobs, Starts(i) \/ Passes(i) \/ Looks(i) \/ Writes(i) PROVE FALSE
    <3>1. PICK q : Good(i, q) /\ Set(i, q)
      BY <2>1 DEF Starts, Passes, Looks, Writes
    <3>2. q # None
      BY <3>1, AlertAssumption DEF Good
    <3> QED
      BY <3>1, <3>2, SetFields
  <2>2. ASSUME NEW i \in Jobs, Ends(i) PROVE i = j /\ Last(i)
    BY <2>2, SetFields DEF Ends
  <2>3. ~Filtered
    <3>1. SUFFICES ASSUME Filtered PROVE FALSE
      OBVIOUS
    <3>2. PICK owed : proc'[j] = Make(p.since, p.at, p.todo, p.check, p.keys, p.logged, owed)
                      /\ owed \in SUBSET KeyType
      BY <3>1 DEF Filtered
    <3>3. Make(p.since, p.at, p.todo, p.check, p.keys, p.logged, owed) \in Process
      BY <3>2, Facts, MakeType
    <3> QED
      BY <3>2, <3>3, AlertAssumption
  <2> QED
    BY <2>1, <2>2, <2>3, Steps
<1>3. CASE j = "dispatch"
  <2>1. p.at = "rows" /\ p.todo = {} /\ DispatchOwes(p)
    BY <1>1, <1>2, <1>3, NotAlert DEF Last, At, Owes
  <2>2. \A l \in p.owed : Reminder(p.since, l) /\ Told(l)
    <3>1. \A l : ~InHand(p, l) \/ p.at # RowOf(l.kind)
      BY <2>1 DEF RowOf
    <3> QED
      BY <2>1, <3>1 DEF DispatchOwes
  <2> QED
    BY <2>2 DEF Reminder, Told
<1>4. CASE j = "overdue"
  <2>1. p.at = "end" /\ OverdueOwes(p)
    BY <1>1, <1>2, <1>4, NotAlert DEF Last, At, Owes
  <2>2. "end" \notin {"feed rows", "care rows"}
    OBVIOUS
  <2>3. k.kind \in {"feed", "overdue"} /\ Told(k)
    BY <2>1, <2>2 DEF OverdueOwes
  <2> QED
    BY <2>3 DEF Told
<1>5. CASE j \in AlertJobs
  <2>1. p.at = "read" /\ p.check > Len(Checks[j]) /\ AlertOwes(j, p)
    BY <1>1, <1>2, <1>5, NotAlert DEF Last, At, Owes
  <2>2. p.check \in Nat /\ Checks[j] \in Seq(Conditions)
    BY <1>5, Facts, AlertAssumption
  <2>3. \A places : ~Ahead(j, p, k, places)
    BY <2>1, <2>2 DEF Ahead
  <2>4. ~Writing(p)
    BY <2>1 DEF Writing
  <2> QED
    BY <2>1, <2>3, <2>4 DEF AlertOwes, Told
<1> QED
  BY <1>3, <1>4, <1>5 DEF Jobs

\* A run that ends has notified what it had to, if the statements it needed went
\* through, whatever happened around it.
THEOREM RunsTell == Spec => RunTells
<1>1. Typed /\ [Next]_vars => Typed'
  BY TypedStep
<1>2. Typed /\ OwedRight /\ [Next]_vars => OwedRight'
  BY OwedStep
<1>3. Typed /\ OwedRight /\ [Next]_vars =>
        [\A j \in Jobs : proc[j] # None /\ proc'[j] = None =>
            \A k \in proc[j].owed :
                /\ k.id \in Silent \/ \E n \in notices : Tells(n, k)
                /\ k.kind = "alert" => k.id \in proc[j].logged]_vars
  BY EndTells
<1> QED
  BY InitTyped, InitOwed, <1>1, <1>2, <1>3, PTL DEF Spec, RunTells
=============================================================================
