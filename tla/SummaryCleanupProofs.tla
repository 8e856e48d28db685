------------------------ MODULE SummaryCleanupProofs ------------------------
(* Theorems about SummaryCleanup for all processes, signals, retention times  *)
(* and calendars, whether statements fail or not.                             *)
EXTENDS SummaryCleanup, FiniteSetTheorems, TLAPS

-----------------------------------------------------------------------------
(* Rows.  Ids are given in the order of the inserts, and never again.         *)

RowsNumbered ==
    /\ IsFiniteSet(ever) /\ rows \subseteq ever
    /\ \A r \in ever : r.id <= Cardinality(ever)
    /\ \A r, q \in ever : r.id = q.id => r = q
    /\ open # None => open.id = Cardinality(ever) + 1

RowsTyped ==
    /\ clock \in Nat /\ rows \subseteq Row /\ ever \subseteq Row
    /\ open # None => open \in Row

\* A row is inserted by Commit and deleted by a cleanup; nothing else touches
\* the tables of the nodes.
LEMMA RowsFrame ==
    ASSUME [Next]_vars,
           ~(\E k \in AllKinds : Observe(k)), ~Commit,
           ~(\E p \in Slots : \/ CleanSignals(p) \/ CleanEvents(p)
                              \/ CleanNotices(p) \/ CleanMedia(p))
    PROVE  UNCHANGED <<rows, open, ever>>
  BY DEF Next, vars, tables, World, Advance, Start, JobStep, Check, ReadSignals, ReadEvents,
         Read, InsertDaily, ReadDailies, InsertWeekly

LEMMA CleanupFrame ==
    ASSUME NEW p \in Slots,
           CleanSignals(p) \/ CleanEvents(p) \/ CleanNotices(p) \/ CleanMedia(p)
    PROVE  rows' \subseteq rows /\ UNCHANGED <<clock, kinds, open, due, runs, ever, summaries>>
<1>1. ASSUME NEW remaining, NEW next, Delete(p, remaining, next), remaining \subseteq rows
      PROVE  rows' \subseteq rows /\ UNCHANGED <<clock, kinds, open, due, runs, ever, summaries>>
  BY <1>1 DEF Delete, World
<1>2. CASE CleanSignals(p)
  BY <1>1, <1>2 DEF CleanSignals
<1>3. CASE CleanEvents(p)
  BY <1>1, <1>3 DEF CleanEvents
<1>4. CASE CleanNotices(p)
  BY <1>1, <1>4 DEF CleanNotices
<1>5. CASE CleanMedia(p)
  BY <1>5 DEF CleanMedia, World
<1>6. QED
  BY <1>2, <1>3, <1>4, <1>5

\* The clock never goes back.
LEMMA ClockGrows ==
    ASSUME clock \in Nat, [Next]_vars PROVE clock' \in Nat /\ clock <= clock'
<1>1. ASSUME NEW p \in Slots, JobStep(p) PROVE UNCHANGED clock
  BY <1>1, CleanupFrame DEF JobStep, World, Check, ReadSignals, ReadEvents, Read, InsertDaily,
     ReadDailies, InsertWeekly
<1>2. CASE Advance
  BY <1>2 DEF Advance
<1>3. ASSUME ~Advance PROVE UNCHANGED clock
  BY <1>1, <1>3 DEF Next, vars, Observe, Commit, Start
<1>4. QED
  BY <1>2, <1>3

LEMMA RowsStep ==
    ASSUME RowsTyped, RowsNumbered, [Next]_vars
    PROVE  RowsTyped' /\ RowsNumbered' /\ ever \subseteq ever'
<1>1. Cardinality(ever) \in Nat
  BY FS_CardinalityType DEF RowsNumbered
<1>2. clock' \in Nat
  BY ClockGrows DEF RowsTyped
<1>3. ASSUME NEW k \in AllKinds, Observe(k)
      PROVE  RowsTyped' /\ RowsNumbered' /\ ever \subseteq ever'
  <2>1. open' = [id |-> Cardinality(ever) + 1, kind |-> k, at |-> clock] /\ UNCHANGED <<rows, ever>>
    BY <1>3 DEF Observe
  <2>2. open' \in Row /\ open'.id = Cardinality(ever) + 1
    BY <1>1, <2>1 DEF Row, RowsTyped
  <2>3. QED
    BY <1>2, <2>1, <2>2 DEF RowsTyped, RowsNumbered
<1>4. CASE Commit
  <2>1. /\ open # None /\ open \in Row /\ open' = None /\ open.id = Cardinality(ever) + 1
        /\ rows' = rows \cup {open} /\ ever' = ever \cup {open}
    BY <1>4 DEF Commit, RowsTyped, RowsNumbered
  <2>2. \A r \in ever : r.id \in Nat /\ r.id <= Cardinality(ever)
    BY DEF RowsTyped, RowsNumbered, Row
  <2>3. open \notin ever
    BY <1>1, <2>1, <2>2
  <2>4. IsFiniteSet(ever') /\ Cardinality(ever') = Cardinality(ever) + 1
    BY <2>1, <2>3, FS_AddElement DEF RowsNumbered
  <2>5. \A r \in ever' : r.id <= Cardinality(ever')
    BY <1>1, <2>1, <2>2, <2>4
  <2>6. \A r, q \in ever' : r.id = q.id => r = q
    BY <1>1, <2>1, <2>2 DEF RowsNumbered
  <2>7. QED
    BY <1>2, <2>1, <2>4, <2>5, <2>6 DEF RowsTyped, RowsNumbered
<1>5. ASSUME NEW p \in Slots,
             CleanSignals(p) \/ CleanEvents(p) \/ CleanNotices(p) \/ CleanMedia(p)
      PROVE  RowsTyped' /\ RowsNumbered' /\ ever \subseteq ever'
  <2>1. rows' \subseteq rows /\ open' = open /\ ever' = ever
    BY <1>5, CleanupFrame
  <2>2. QED
    BY <1>2, <2>1 DEF RowsTyped, RowsNumbered
<1>6. CASE UNCHANGED <<rows, open, ever>>
  BY <1>2, <1>6 DEF RowsTyped, RowsNumbered
<1>7. QED
  BY <1>3, <1>4, <1>5, <1>6, RowsFrame

-----------------------------------------------------------------------------
(* Processes and summaries.                                                   *)

ProcTyped ==
    /\ DOMAIN proc = Slots
    /\ \A p \in Slots : proc[p] # None =>
        proc[p] \in Process /\ proc[p].at \in Places[proc[p].job]

SummariesTyped == summaries \subseteq Summary

\* The unique index: one summary of a type and a date.
OneSummary ==
    \A s, t \in summaries : s.type = t.type /\ s.date = t.date => s = t

LEMMA PlacesOf ==
    /\ Places["daily"] = {"check", "signals", "events", "insert"}
    /\ Places["weekly"] = {"check", "dailies", "insert"}
    /\ Places["cleanup"] = {"check", "events", "notices", "media"}
  BY DEF Places

LEMMA PlaceType ==
    ASSUME NEW job \in Jobs, NEW place \in Places[job]
    PROVE  place \in UNION {Places[j] : j \in Jobs}
  OBVIOUS

LEMMA OneProcess ==
    ASSUME ProcTyped, NEW p \in Slots, NEW q,
           q = None \/ (q \in Process /\ q.at \in Places[q.job]),
           proc' = [proc EXCEPT ![p] = q]
    PROVE  ProcTyped'
  BY DEF ProcTyped

\* A step to another place of the same job keeps the type.
LEMMA Moved ==
    ASSUME ProcTyped, NEW p \in Slots, proc[p] # None, NEW place \in Places[proc[p].job],
           proc' = [proc EXCEPT ![p].at = place]
    PROVE  ProcTyped'
<1> DEFINE q == [proc[p] EXCEPT !.at = place]
<1>1. proc[p] \in Process /\ proc[p].job \in Jobs
  BY DEF ProcTyped, Process
<1>2. place \in UNION {Places[j] : j \in Jobs}
  BY <1>1, PlaceType
<1>3. q \in Process /\ q.at = place /\ q.job = proc[p].job
  BY <1>1, <1>2 DEF Process
<1>4. proc' = [proc EXCEPT ![p] = q]
  BY DEF ProcTyped
<1>5. QED
  BY <1>3, <1>4, OneProcess

LEMMA DayType == ASSUME NEW t \in Nat PROVE DayOf(t) \in Int
  BY SummaryAssumption DEF DayOf

\* A summary is inserted or not; none is deleted or changed.
LEMMA InsertAdds ==
    ASSUME NEW s, Insert(s)
    PROVE  \/ UNCHANGED summaries
           \/ ~Exists(s.type, s.date) /\ summaries' = summaries \cup {s}
  BY DEF Insert

Daily(p) ==
    [type |-> "daily", date |-> proc[p].date, counted |-> proc[p].got,
     young |-> proc[p].young, dailies |-> {}]
Weekly(p) ==
    [type |-> "weekly", date |-> proc[p].date, counted |-> proc[p].got,
     young |-> {}, dailies |-> proc[p].days]

LEMMA SummariesChange ==
    ASSUME [Next]_vars
    PROVE  \/ UNCHANGED summaries
           \/ \E p \in Slots : /\ At(p, "daily", "insert") /\ proc' = [proc EXCEPT ![p] = None]
                               /\ ~Exists("daily", proc[p].date)
                               /\ summaries' = summaries \cup {Daily(p)}
                               /\ UNCHANGED <<rows, ever, clock>>
           \/ \E p \in Slots : /\ At(p, "weekly", "insert") /\ proc' = [proc EXCEPT ![p] = None]
                               /\ ~Exists("weekly", proc[p].date)
                               /\ summaries' = summaries \cup {Weekly(p)}
                               /\ UNCHANGED <<rows, ever, clock>>
<1>1. ASSUME NEW p \in Slots, InsertDaily(p), ~UNCHANGED summaries
      PROVE  /\ At(p, "daily", "insert") /\ proc' = [proc EXCEPT ![p] = None]
             /\ ~Exists("daily", proc[p].date)
             /\ summaries' = summaries \cup {Daily(p)}
             /\ UNCHANGED <<rows, ever, clock>>
  <2>1. Insert(Daily(p))
    BY <1>1 DEF InsertDaily, Daily
  <2>2. Daily(p).type = "daily" /\ Daily(p).date = proc[p].date
    BY DEF Daily
  <2>3. QED
    BY <1>1, <2>1, <2>2, InsertAdds DEF InsertDaily, End, World
<1>2. ASSUME NEW p \in Slots, InsertWeekly(p), ~UNCHANGED summaries
      PROVE  /\ At(p, "weekly", "insert") /\ proc' = [proc EXCEPT ![p] = None]
             /\ ~Exists("weekly", proc[p].date)
             /\ summaries' = summaries \cup {Weekly(p)}
             /\ UNCHANGED <<rows, ever, clock>>
  <2>1. Insert(Weekly(p))
    BY <1>2 DEF InsertWeekly, Weekly
  <2>2. Weekly(p).type = "weekly" /\ Weekly(p).date = proc[p].date
    BY DEF Weekly
  <2>3. QED
    BY <1>2, <2>1, <2>2, InsertAdds DEF InsertWeekly, End, World
<1>3. ASSUME NEW p \in Slots, JobStep(p), ~InsertDaily(p), ~InsertWeekly(p)
      PROVE  UNCHANGED summaries
  BY <1>3, CleanupFrame DEF JobStep, Check, ReadSignals, ReadEvents, Read, ReadDailies
<1>4. ASSUME \A p \in Slots : ~InsertDaily(p) /\ ~InsertWeekly(p) PROVE UNCHANGED summaries
  BY <1>3, <1>4 DEF Next, vars, tables, Observe, Commit, Advance, Start
<1>5. QED
  BY <1>1, <1>2, <1>4

LEMMA SummariesStep ==
    ASSUME SummariesTyped, ProcTyped, OneSummary, [Next]_vars
    PROVE  SummariesTyped' /\ OneSummary' /\ summaries \subseteq summaries'
<1>1. ASSUME NEW p \in Slots, At(p, "daily", "insert"), ~Exists("daily", proc[p].date),
             summaries' = summaries \cup {Daily(p)}
      PROVE  SummariesTyped' /\ OneSummary' /\ summaries \subseteq summaries'
  <2>1. proc[p] \in Process
    BY <1>1 DEF At, ProcTyped
  <2>2. Daily(p) \in Summary /\ Daily(p).type = "daily" /\ Daily(p).date = proc[p].date
    BY <2>1 DEF Daily, Summary, Process
  <2>3. QED
    BY <1>1, <2>2 DEF SummariesTyped, OneSummary, Exists
<1>2. ASSUME NEW p \in Slots, At(p, "weekly", "insert"), ~Exists("weekly", proc[p].date),
             summaries' = summaries \cup {Weekly(p)}
      PROVE  SummariesTyped' /\ OneSummary' /\ summaries \subseteq summaries'
  <2>1. proc[p] \in Process
    BY <1>2 DEF At, ProcTyped
  <2>2. Weekly(p) \in Summary /\ Weekly(p).type = "weekly" /\ Weekly(p).date = proc[p].date
    BY <2>1 DEF Weekly, Summary, Process
  <2>3. QED
    BY <1>2, <2>2 DEF SummariesTyped, OneSummary, Exists
<1>3. CASE UNCHANGED summaries
  BY <1>3 DEF SummariesTyped, OneSummary
<1>4. QED
  BY <1>1, <1>2, <1>3, SummariesChange

-----------------------------------------------------------------------------
(* What one step of a process does to the process.                            *)

Ids(S) == {r.id : r \in S}
Found(ks, d) == {r \in OfKind(ks) : DayOf(r.at) = d}
Fresh(ks, d) == {r \in Young(d) : r.kind \in ks}

\* The aggregates of one kind of row were read.
Gathered(p, ks, place) ==
    /\ proc[p] # None /\ proc[p].job = "daily" /\ place \in {"events", "insert"}
    /\ proc' = [proc EXCEPT ![p] = [proc[p] EXCEPT !.at = place,
                    !.got = proc[p].got \cup Ids(Found(ks, proc[p].date)),
                    !.young = proc[p].young \cup Ids(Fresh(ks, proc[p].date))]]
    /\ UNCHANGED <<rows, ever, clock, summaries>>

\* The payloads of the week were read.
Collected(p) ==
    LET S == DailiesOf(p) IN
    /\ proc[p] # None /\ proc[p].job = "weekly"
    /\ proc' = [proc EXCEPT ![p] = [proc[p] EXCEPT !.at = "insert", !.days = {s.date : s \in S},
                                                   !.got = UNION {s.counted : s \in S}]]
    /\ UNCHANGED <<rows, ever, clock, summaries>>

Moves(p) ==
    \E place \in Places[proc[p].job] :
        /\ proc[p] # None /\ (proc[p].job = "weekly" => place # "insert")
        /\ proc' = [proc EXCEPT ![p].at = place]

LEMMA ReadEffect ==
    ASSUME ProcTyped, NEW p \in Slots, NEW ks, NEW from, NEW place \in {"events", "insert"},
           At(p, "daily", from), Read(p, ks, place)
    PROVE  Moves(p) \/ Gathered(p, ks, place)
<1>1. proc[p] # None /\ proc[p].job = "daily" /\ place \in Places[proc[p].job]
  BY PlacesOf DEF At
<1>2. CASE Go(p, place)
  BY <1>1, <1>2 DEF Go, Moves
<1>3. ASSUME ~Go(p, place)
      PROVE  Gathered(p, ks, place)
  <2>1. proc' = [proc EXCEPT ![p] = [proc[p] EXCEPT !.at = place,
                    !.got = proc[p].got \cup Ids(Found(ks, proc[p].date)),
                    !.young = proc[p].young \cup Ids(Fresh(ks, proc[p].date))]]
    BY <1>3 DEF Read, Ids, Found, Fresh, ProcTyped
  <2>2. QED
    BY <1>1, <2>1 DEF Gathered, Read, World
<1>4. QED
  BY <1>2, <1>3

LEMMA JobEffect ==
    ASSUME ProcTyped, NEW p \in Slots, JobStep(p)
    PROVE  \/ Moves(p) \/ Collected(p)
           \/ proc' = [proc EXCEPT ![p] = None]
           \/ \E ks \in {Signals, {Event}}, place \in {"events", "insert"} : Gathered(p, ks, place)
<1>1. CASE Check(p)
  BY <1>1, PlacesOf DEF Check, At, Go, End, Moves
<1>2. CASE ReadSignals(p)
  BY <1>2, ReadEffect DEF ReadSignals
<1>3. CASE ReadEvents(p)
  BY <1>3, ReadEffect DEF ReadEvents
<1>4. CASE InsertDaily(p) \/ InsertWeekly(p)
  BY <1>4 DEF InsertDaily, InsertWeekly, End
<1>5. CASE ReadDailies(p)
  <2>1. CASE End(p)
    BY <2>1 DEF End
  <2>2. ASSUME ~End(p) PROVE Collected(p)
    <3>1. proc' = [proc EXCEPT ![p] = [proc[p] EXCEPT !.at = "insert",
                        !.days = {s.date : s \in DailiesOf(p)},
                        !.got = UNION {s.counted : s \in DailiesOf(p)}]]
      BY <1>5, <2>2 DEF ReadDailies, ProcTyped
    <3>2. QED
      BY <1>5, <3>1 DEF Collected, ReadDailies, World, At
  <2>3. QED
    BY <2>1, <2>2
<1>6. CASE CleanSignals(p)
  BY <1>6, PlacesOf DEF CleanSignals, Delete, At, Go, Moves
<1>7. CASE CleanEvents(p)
  BY <1>7, PlacesOf DEF CleanEvents, Delete, At, Go, Moves
<1>8. CASE CleanNotices(p)
  BY <1>8, PlacesOf DEF CleanNotices, Delete, At, Go, Moves
<1>9. CASE CleanMedia(p)
  BY <1>9 DEF CleanMedia, End
<1>10. QED
  BY <1>1, <1>2, <1>3, <1>4, <1>5, <1>6, <1>7, <1>8, <1>9 DEF JobStep

Fresher(job, date) ==
    [job |-> job, at |-> "check", date |-> date, got |-> {}, young |-> {}, days |-> {}]

LEMMA StartEffect ==
    ASSUME NEW p \in Slots, NEW job \in Jobs, Start(p, job), clock \in Nat
    PROVE  \E date \in Int : proc' = [proc EXCEPT ![p] = Fresher(job, date)]
<1>1. Today \in Int
  BY DayType DEF Today
<1>2. Dates(job) \subseteq Int
  BY <1>1, SummaryAssumption DEF Dates, FirstDate
<1>3. QED
  BY <1>2 DEF Start, Begin, Fresher

LEMMA ProcChange ==
    ASSUME ProcTyped, clock \in Nat, [Next]_vars
    PROVE  \/ UNCHANGED proc
           \/ \E p \in Slots :
                \/ Moves(p) \/ Collected(p) \/ proc' = [proc EXCEPT ![p] = None]
                \/ \E ks \in {Signals, {Event}}, place \in {"events", "insert"} :
                        Gathered(p, ks, place)
                \/ \E job \in Jobs, date \in Int : proc' = [proc EXCEPT ![p] = Fresher(job, date)]
<1>1. ASSUME \A p \in Slots : ~JobStep(p) /\ \A job \in Jobs : ~Start(p, job)
      PROVE  UNCHANGED proc
  BY <1>1 DEF Next, vars, Observe, Commit, Advance
<1>2. ASSUME NEW p \in Slots, NEW job \in Jobs, Start(p, job)
      PROVE  \E date \in Int : proc' = [proc EXCEPT ![p] = Fresher(job, date)]
  BY <1>2, StartEffect
<1>3. QED
  BY <1>1, <1>2, JobEffect

LEMMA ProcStep ==
    ASSUME ProcTyped, RowsTyped, SummariesTyped, [Next]_vars
    PROVE  ProcTyped'
<1>1. ASSUME NEW p \in Slots, Moves(p) PROVE ProcTyped'
  BY <1>1, Moved DEF Moves
<1>2. ASSUME NEW p \in Slots, Collected(p) PROVE ProcTyped'
  <2> DEFINE D == {s.date : s \in DailiesOf(p)}
             G == UNION {s.counted : s \in DailiesOf(p)}
             q == [proc[p] EXCEPT !.at = "insert", !.days = D, !.got = G]
  <2>1. proc[p] \in Process /\ proc[p].job = "weekly"
    BY <1>2 DEF Collected, ProcTyped
  <2>2. D \subseteq Int /\ G \subseteq Nat
    BY DEF DailiesOf, SummariesTyped, Summary
  <2>3. "insert" \in UNION {Places[j] : j \in Jobs}
    BY PlacesOf DEF Jobs
  <2>4. q \in Process /\ q.at = "insert" /\ q.job = "weekly"
    <3> HIDE DEF D, G
    <3> QED
      BY <2>1, <2>2, <2>3 DEF Process
  <2>5. proc' = [proc EXCEPT ![p] = q]
    BY <1>2 DEF Collected
  <2>6. QED
    BY <2>4, <2>5, PlacesOf, OneProcess
<1>3. ASSUME NEW p \in Slots, NEW ks \in {Signals, {Event}}, NEW place \in {"events", "insert"},
             Gathered(p, ks, place)
      PROVE  ProcTyped'
  <2> DEFINE G == proc[p].got \cup Ids(Found(ks, proc[p].date))
             Y == proc[p].young \cup Ids(Fresh(ks, proc[p].date))
             q == [proc[p] EXCEPT !.at = place, !.got = G, !.young = Y]
  <2>1. proc[p] \in Process /\ proc[p].job = "daily"
    BY <1>3 DEF Gathered, ProcTyped
  <2>2. Found(ks, proc[p].date) \subseteq Row /\ Fresh(ks, proc[p].date) \subseteq Row
    BY DEF Found, Fresh, Young, OfKind, RowsTyped
  <2>3. G \subseteq Nat /\ Y \subseteq Nat
    BY <2>1, <2>2 DEF Process, Ids, Row
  <2>4. place \in UNION {Places[j] : j \in Jobs}
    BY PlacesOf DEF Jobs
  <2>5. q \in Process /\ q.at = place /\ q.job = "daily"
    <3> HIDE DEF G, Y
    <3> QED
      BY <2>1, <2>3, <2>4 DEF Process
  <2>6. proc' = [proc EXCEPT ![p] = q]
    BY <1>3 DEF Gathered
  <2>7. QED
    BY <2>5, <2>6, PlacesOf, OneProcess
<1>4. ASSUME NEW p \in Slots, NEW job \in Jobs, NEW date \in Int,
             proc' = [proc EXCEPT ![p] = Fresher(job, date)]
      PROVE  ProcTyped'
  <2>1. "check" \in Places[job]
    BY PlacesOf DEF Jobs
  <2>2. "check" \in UNION {Places[j] : j \in Jobs}
    BY <2>1, PlaceType
  <2>3. Fresher(job, date) \in Process /\ Fresher(job, date).job = job
        /\ Fresher(job, date).at = "check"
    BY <2>2 DEF Fresher, Process
  <2>4. QED
    BY <1>4, <2>1, <2>3, OneProcess
<1>5. ASSUME NEW p \in Slots, proc' = [proc EXCEPT ![p] = None] PROVE ProcTyped'
  BY <1>5, OneProcess
<1>6. CASE UNCHANGED proc
  BY <1>6 DEF ProcTyped
<1>7. clock \in Nat
  BY DEF RowsTyped
<1>8. QED
  BY <1>1, <1>2, <1>3, <1>4, <1>5, <1>6, <1>7, ProcChange

LEMMA RestStep ==
    ASSUME kinds \in Written, runs \in Nat, due \subseteq Jobs, [Next]_vars
    PROVE  kinds' \in Written /\ runs' \in Nat /\ due' \subseteq Jobs
<1>1. ASSUME NEW p \in Slots, JobStep(p) PROVE UNCHANGED <<kinds, runs, due>>
  BY <1>1, CleanupFrame DEF JobStep, World, Check, ReadSignals, ReadEvents, Read, InsertDaily,
     ReadDailies, InsertWeekly
<1>2. ASSUME NEW p \in Slots, NEW job \in Jobs, Start(p, job)
      PROVE  kinds' = kinds /\ runs' = runs + 1 /\ due' \subseteq due
  BY <1>2 DEF Start
<1>3. \A t : Fired(t) \subseteq Jobs
  BY DEF Fired
<1>4. CASE Advance
  BY <1>3, <1>4 DEF Advance
<1>5. CASE UNCHANGED vars \/ Commit \/ \E k \in AllKinds : Observe(k)
  BY <1>5 DEF vars, Commit, Observe
<1>6. QED
  BY <1>1, <1>2, <1>4, <1>5 DEF Next

Typed == TypeOK /\ RowsNumbered /\ OneSummary

LEMMA TypedParts ==
    ASSUME Typed PROVE RowsTyped /\ RowsNumbered /\ ProcTyped /\ SummariesTyped /\ OneSummary
  BY DEF Typed, TypeOK, RowsTyped, ProcTyped, SummariesTyped

LEMMA InitTyped == Init => Typed
<1>1. IsFiniteSet({})
  BY FS_EmptySet
<1>2. QED
  BY <1>1 DEF Init, Typed, TypeOK, RowsNumbered, OneSummary

LEMMA TypedStep ==
    ASSUME Typed, [Next]_vars
    PROVE  Typed' /\ ever \subseteq ever' /\ summaries \subseteq summaries'
<1>1. RowsTyped' /\ RowsNumbered' /\ ever \subseteq ever'
  BY TypedParts, RowsStep
<1>2. SummariesTyped' /\ OneSummary' /\ summaries \subseteq summaries'
  BY TypedParts, SummariesStep
<1>3. ProcTyped'
  BY TypedParts, ProcStep
<1>4. kinds' \in Written /\ runs' \in Nat /\ due' \subseteq Jobs
  BY RestStep DEF Typed, TypeOK
<1>5. QED
  BY <1>1, <1>2, <1>3, <1>4 DEF Typed, TypeOK, RowsTyped, ProcTyped, SummariesTyped

\* Every variable keeps its type.
THEOREM TypeCorrect == Spec => []TypeOK
<1>1. Typed /\ [Next]_vars => Typed'
  BY TypedStep
<1>2. Typed => TypeOK
  BY DEF Typed
<1>3. QED
  BY InitTyped, <1>1, <1>2, PTL DEF Spec

-----------------------------------------------------------------------------
(* What is deleted.                                                           *)

\* A row that was past retention stays so.
LEMMA OldStays ==
    ASSUME RowsTyped, [Next]_vars, NEW r \in Row, Old(r) PROVE Old(r)'
<1>1. clock \in Nat /\ clock' \in Nat /\ clock <= clock' /\ r.at \in Nat /\ Retention \in Nat
  BY ClockGrows, SummaryAssumption DEF RowsTyped, Row
<1>2. QED
  BY <1>1 DEF Old

Cause(r) ==
    \/ r.kind \in CountedKinds /\ \E s \in summaries : s.type = "daily" /\ s.date = DayOf(r.at)
    \/ Old(r)

LEMMA CauseStays ==
    ASSUME Typed, [Next]_vars, NEW r \in Row, Cause(r) PROVE Cause(r)'
<1>1. Old(r) => Old(r)'
  BY TypedParts, OldStays
<1>2. summaries \subseteq summaries'
  BY TypedStep
<1>3. QED
  BY <1>1, <1>2 DEF Cause, DayOf, CountedKinds

LEMMA DeleteEffect ==
    ASSUME NEW p, NEW remaining, NEW next, Delete(p, remaining, next)
    PROVE  rows' = rows \/ rows' = remaining
  BY DEF Delete

LEMMA DeletedForCause ==
    ASSUME Typed, NEW p \in Slots, NEW r \in rows, r \notin rows',
           CleanSignals(p) \/ CleanEvents(p) \/ CleanNotices(p) \/ CleanMedia(p)
    PROVE  Cause(r)
<1>1. CASE CleanSignals(p)
  <2>1. r.kind \in Signals /\ (Covered(r) \/ Old(r))
    BY <1>1, DeleteEffect DEF CleanSignals
  <2>2. QED
    BY <2>1 DEF Covered, Covers, Cause, CountedKinds
<1>2. CASE CleanEvents(p)
  <2>1. r.kind = Event /\ (Covered(r) \/ Old(r))
    BY <1>2, DeleteEffect DEF CleanEvents
  <2>2. QED
    BY <2>1 DEF Covered, Covers, Cause, CountedKinds
<1>3. CASE CleanNotices(p)
  BY <1>3, DeleteEffect DEF CleanNotices, Cause
<1>4. CASE CleanMedia(p)
  BY <1>4 DEF CleanMedia, Cause
<1>5. QED
  BY <1>1, <1>2, <1>3, <1>4

LEMMA GoneStep ==
    ASSUME Typed, GoneForCause, [Next]_vars PROVE GoneForCause'
<1> USE DEF Cause
<1>1. ASSUME NEW r \in ever', r \notin rows' PROVE Cause(r)'
  <2>1. CASE Commit
    <3>1. r \in ever /\ r \notin rows
      BY <1>1, <2>1 DEF Commit
    <3>2. r \in Row /\ Cause(r)
      BY <3>1, TypedParts DEF GoneForCause, RowsTyped
    <3>3. QED
      BY <3>2, CauseStays
  <2>2. CASE ~Commit
    <3>1. ever' = ever
      BY <2>2, RowsFrame, CleanupFrame DEF Observe
    <3>2. r \in Row
      BY <1>1, <3>1, TypedParts DEF RowsTyped
    <3>3. CASE r \notin rows
      BY <1>1, <3>1, <3>2, <3>3, CauseStays DEF GoneForCause
    <3>4. CASE r \in rows
      <4>1. PICK p \in Slots : \/ CleanSignals(p) \/ CleanEvents(p)
                               \/ CleanNotices(p) \/ CleanMedia(p)
        BY <1>1, <2>2, <3>4, RowsFrame DEF Observe
      <4>2. Cause(r)
        BY <1>1, <3>4, <4>1, DeletedForCause
      <4>3. QED
        BY <3>2, <4>2, CauseStays
    <3>5. QED
      BY <3>3, <3>4
  <2>3. QED
    BY <2>1, <2>2
<1>2. QED
  BY <1>1 DEF GoneForCause

\* A reading or event that is gone was of a day that has a summary, or was past
\* retention; anything else was past retention.
THEOREM DeletedOnlyForCause == Spec => []GoneForCause
<1> DEFINE Inv == Typed /\ GoneForCause
<1>1. Init => Inv
  BY InitTyped DEF Init, GoneForCause
<1>2. Inv /\ [Next]_vars => Inv'
  BY TypedStep, GoneStep
<1>3. Inv => GoneForCause
  OBVIOUS
<1>4. QED
  BY <1>1, <1>2, <1>3, PTL DEF Spec

-----------------------------------------------------------------------------
(* What a daily summary counts.                                               *)

\* A run of the daily job has counted what it must, unless another run was
\* faster: then its own insert will do nothing.
Gathers(p) == proc[p].young \subseteq proc[p].got \/ Exists("daily", proc[p].date)
GathersAll == \A p \in Slots : proc[p] # None /\ proc[p].job = "daily" => Gathers(p)

\* A young row of a day without a summary has not been deleted.
LEMMA YoungFound ==
    ASSUME GoneForCause, NEW ks \in {Signals, {Event}}, NEW d, ~Exists("daily", d)
    PROVE  Fresh(ks, d) \subseteq Found(ks, d)
<1> SUFFICES ASSUME NEW r \in Fresh(ks, d) PROVE r \in Found(ks, d)
  OBVIOUS
<1>1. r \in ever /\ DayOf(r.at) = d /\ ~Old(r) /\ r.kind \in ks
  BY DEF Fresh, Young
<1>2. r \in rows
  BY <1>1 DEF GoneForCause, Exists
<1>3. QED
  BY <1>1, <1>2 DEF Found, OfKind

LEMMA GathersStep ==
    ASSUME Typed, GoneForCause, GathersAll, [Next]_vars PROVE GathersAll'
<1> SUFFICES ASSUME NEW p \in Slots, proc'[p] # None, proc'[p].job = "daily"
             PROVE  Gathers(p)'
  BY DEF GathersAll
<1>1. DOMAIN proc = Slots /\ clock \in Nat
  BY TypedParts DEF ProcTyped, RowsTyped
<1>2. ASSUME proc[p] # None, proc[p].job = "daily", proc'[p].date = proc[p].date,
             proc'[p].got = proc[p].got, proc'[p].young = proc[p].young
      PROVE  Gathers(p)'
  BY <1>2, TypedStep DEF GathersAll, Gathers, Exists
<1>3. CASE proc'[p] = proc[p]
  BY <1>2, <1>3
<1>4. ASSUME NEW q \in Slots, q # p,
             \/ Moves(q) \/ Collected(q) \/ proc' = [proc EXCEPT ![q] = None]
             \/ \E ks \in {Signals, {Event}}, place \in {"events", "insert"} : Gathered(q, ks, place)
             \/ \E job \in Jobs, date \in Int : proc' = [proc EXCEPT ![q] = Fresher(job, date)]
      PROVE  proc'[p] = proc[p]
  BY <1>1, <1>4 DEF Moves, Collected, Gathered
<1>5. ASSUME NEW v, proc' = [proc EXCEPT ![p] = v] PROVE proc'[p] = v
  BY <1>1, <1>5
<1>6. CASE Moves(p)
  <2>1. PICK place \in Places[proc[p].job] :
            proc[p] # None /\ proc' = [proc EXCEPT ![p] = [proc[p] EXCEPT !.at = place]]
    BY <1>6, <1>1 DEF Moves
  <2>2. proc'[p] = [proc[p] EXCEPT !.at = place] /\ proc[p] \in Process
    BY <1>5, <2>1, TypedParts DEF ProcTyped
  <2>3. proc'[p].job = proc[p].job /\ proc'[p].date = proc[p].date
        /\ proc'[p].got = proc[p].got /\ proc'[p].young = proc[p].young
    BY <2>2 DEF Process
  <2>4. QED
    BY <1>2, <2>1, <2>3
<1>7. ASSUME NEW ks \in {Signals, {Event}}, NEW place \in {"events", "insert"},
             Gathered(p, ks, place)
      PROVE  Gathers(p)'
  <2> DEFINE G == proc[p].got \cup Ids(Found(ks, proc[p].date))
             Y == proc[p].young \cup Ids(Fresh(ks, proc[p].date))
  <2>1. proc[p] # None /\ proc[p].job = "daily" /\ proc[p] \in Process
    BY <1>7, TypedParts DEF Gathered, ProcTyped
  <2>2. proc'[p] = [proc[p] EXCEPT !.at = place, !.got = G, !.young = Y]
    BY <1>5, <1>7 DEF Gathered
  <2>3. proc'[p].date = proc[p].date /\ proc'[p].got = G /\ proc'[p].young = Y
    <3> HIDE DEF G, Y
    <3> QED
      BY <2>1, <2>2 DEF Process
  <2>4. CASE Exists("daily", proc[p].date)
    BY <2>3, <2>4, TypedStep DEF Gathers, Exists
  <2>5. CASE ~Exists("daily", proc[p].date)
    <3>1. proc[p].young \subseteq proc[p].got
      BY <2>1, <2>5 DEF GathersAll, Gathers
    <3>2. Ids(Fresh(ks, proc[p].date)) \subseteq Ids(Found(ks, proc[p].date))
      BY <2>5, YoungFound DEF Ids
    <3>3. QED
      BY <2>3, <3>1, <3>2 DEF Gathers
  <2>6. QED
    BY <2>4, <2>5
<1>8. ASSUME NEW job \in Jobs, NEW date \in Int, proc' = [proc EXCEPT ![p] = Fresher(job, date)]
      PROVE  Gathers(p)'
  <2>1. proc'[p] = Fresher(job, date)
    BY <1>5, <1>8
  <2>2. QED
    BY <2>1 DEF Fresher, Gathers
<1>9. CASE Collected(p)
  <2> DEFINE D == {s.date : s \in DailiesOf(p)}
             G == UNION {s.counted : s \in DailiesOf(p)}
  <2>1. proc'[p] = [proc[p] EXCEPT !.at = "insert", !.days = D, !.got = G]
    BY <1>5, <1>9 DEF Collected
  <2>2. proc[p] \in Process /\ proc[p].job = "weekly"
    BY <1>9, TypedParts DEF ProcTyped, Collected
  <2>3. proc'[p].job = "weekly"
    <3> HIDE DEF D, G
    <3> QED
      BY <2>1, <2>2 DEF Process
  <2>4. QED
    BY <2>3
<1>10. CASE proc' = [proc EXCEPT ![p] = None]
  BY <1>5, <1>10
<1>11. QED
  BY <1>1, <1>3, <1>4, <1>6, <1>7, <1>8, <1>9, <1>10, TypedParts, ProcChange

LEMMA CompleteStep ==
    ASSUME Typed, GathersAll, SummaryComplete, [Next]_vars PROVE SummaryComplete'
<1>1. ASSUME NEW p \in Slots, At(p, "daily", "insert"), ~Exists("daily", proc[p].date),
             summaries' = summaries \cup {Daily(p)}
      PROVE  SummaryComplete'
  <2>1. proc[p].young \subseteq proc[p].got
    BY <1>1 DEF At, GathersAll, Gathers
  <2>2. Daily(p).young \subseteq Daily(p).counted
    BY <2>1 DEF Daily
  <2>3. QED
    BY <1>1, <2>2 DEF SummaryComplete
<1>2. ASSUME NEW p \in Slots, summaries' = summaries \cup {Weekly(p)} PROVE SummaryComplete'
  BY <1>2 DEF SummaryComplete, Weekly
<1>3. CASE UNCHANGED summaries
  BY <1>3 DEF SummaryComplete
<1>4. QED
  BY <1>1, <1>2, <1>3, SummariesChange

\* A daily summary counts every row of its day that was there and not past
\* retention when its query was answered, whatever cleanups and other runs come
\* in between.
THEOREM DailyComplete == Spec => []SummaryComplete
<1> DEFINE Inv == Typed /\ GoneForCause /\ GathersAll /\ SummaryComplete
<1>1. Init => Inv
  BY InitTyped DEF Init, GoneForCause, GathersAll, SummaryComplete
<1>2. Inv /\ [Next]_vars => Inv'
  BY TypedStep, GoneStep, GathersStep, CompleteStep
<1>3. Inv => SummaryComplete
  OBVIOUS
<1>4. QED
  BY <1>1, <1>2, <1>3, PTL DEF Spec

-----------------------------------------------------------------------------
(* What a week adds up.                                                       *)

\* Everything counted is a row of the day, so no two days count the same.
OfDay(ids, date) == \A i \in ids : \E r \in ever : r.id = i /\ DayOf(r.at) = date
CountedOfDay ==
    /\ \A s \in summaries : s.type = "daily" => OfDay(s.counted, s.date)
    /\ \A p \in Slots : proc[p] # None /\ proc[p].job = "daily" => OfDay(proc[p].got, proc[p].date)

Listed(days) == {s \in summaries : s.type = "daily" /\ s.date \in days}
Adds(ids, days, first) ==
    /\ ids = UNION {s.counted : s \in Listed(days)}
    /\ \A d \in days : first <= d /\ d < first + Week /\ Exists("daily", d)
WeeksAdd ==
    /\ \A s \in summaries : s.type = "weekly" => Adds(s.counted, s.dailies, s.date)
    /\ \A p \in Slots : proc[p] # None /\ proc[p].job = "weekly" /\ proc[p].at = "insert" =>
            Adds(proc[p].got, proc[p].days, proc[p].date)

\* A day that has its summary gets no other: the sum over listed days stays.
LEMMA ListedStays ==
    ASSUME Typed, [Next]_vars
    PROVE  \A days : (\A d \in days : Exists("daily", d)) =>
               {s \in summaries' : s.type = "daily" /\ s.date \in days} = Listed(days)
<1>1. ASSUME NEW p \in Slots, ~Exists("daily", proc[p].date),
             summaries' = summaries \cup {Daily(p)}, NEW days, \A d \in days : Exists("daily", d)
      PROVE  {s \in summaries' : s.type = "daily" /\ s.date \in days} = Listed(days)
  <2>1. Daily(p).date \notin days
    BY <1>1 DEF Daily
  <2>2. QED
    BY <1>1, <2>1 DEF Listed
<1>2. ASSUME NEW p \in Slots, summaries' = summaries \cup {Weekly(p)}, NEW days
      PROVE  {s \in summaries' : s.type = "daily" /\ s.date \in days} = Listed(days)
  <2>1. Weekly(p).type # "daily"
    BY DEF Weekly
  <2>2. QED
    BY <1>2, <2>1 DEF Listed
<1>3. QED
  BY <1>1, <1>2, SummariesChange DEF Listed

LEMMA AddsStays ==
    ASSUME Typed, [Next]_vars, NEW ids, NEW days, NEW first, Adds(ids, days, first)
    PROVE  Adds(ids, days, first)'
<1>1. {s \in summaries' : s.type = "daily" /\ s.date \in days} = Listed(days)
  BY ListedStays DEF Adds
<1>2. \A d \in days : Exists("daily", d)'
  BY TypedStep DEF Adds, Exists
<1>3. QED
  BY <1>1, <1>2 DEF Adds, Listed

LEMMA OfDayStays ==
    ASSUME Typed, [Next]_vars, NEW ids, NEW date, OfDay(ids, date) PROVE OfDay(ids, date)'
  BY TypedStep DEF OfDay, DayOf

\* The process p of a step, and what it holds after it.
LEMMA OwnProcess ==
    ASSUME Typed, [Next]_vars, NEW p \in Slots
    PROVE  \/ proc'[p] = proc[p]
           \/ proc'[p] = None
           \/ \E job \in Jobs, date \in Int : proc'[p] = Fresher(job, date)
           \/ proc[p] # None /\ \E place \in Places[proc[p].job] :
                /\ proc[p].job = "weekly" => place # "insert"
                /\ proc'[p] = [proc[p] EXCEPT !.at = place]
           \/ Collected(p)
           \/ \E ks \in {Signals, {Event}}, place \in {"events", "insert"} : Gathered(p, ks, place)
<1>1. DOMAIN proc = Slots /\ clock \in Nat /\ ProcTyped
  BY TypedParts DEF ProcTyped, RowsTyped
<1>2. ASSUME NEW q \in Slots, q # p,
             \/ Moves(q) \/ Collected(q) \/ proc' = [proc EXCEPT ![q] = None]
             \/ \E ks \in {Signals, {Event}}, place \in {"events", "insert"} : Gathered(q, ks, place)
             \/ \E job \in Jobs, date \in Int : proc' = [proc EXCEPT ![q] = Fresher(job, date)]
      PROVE  proc'[p] = proc[p]
  BY <1>1, <1>2 DEF Moves, Collected, Gathered
<1>3. CASE Moves(p)
  BY <1>1, <1>3 DEF Moves
<1>4. CASE \/ proc' = [proc EXCEPT ![p] = None]
           \/ \E job \in Jobs, date \in Int : proc' = [proc EXCEPT ![p] = Fresher(job, date)]
  BY <1>1, <1>4
<1>5. QED
  BY <1>1, <1>2, <1>3, <1>4, ProcChange

LEMMA CollectedAdds ==
    ASSUME Typed, NEW p \in Slots, Collected(p)
    PROVE  Adds(proc[p].got, proc[p].days, proc[p].date)'
<1> DEFINE S == DailiesOf(p)
           D == {s.date : s \in S}
           G == UNION {s.counted : s \in S}
<1>1. proc[p] \in Process /\ DOMAIN proc = Slots
  BY TypedParts DEF ProcTyped, Collected
<1>2. proc'[p] = [proc[p] EXCEPT !.at = "insert", !.days = D, !.got = G]
  BY <1>1 DEF Collected
<1>3. proc'[p].days = D /\ proc'[p].got = G /\ proc'[p].date = proc[p].date
  <2> HIDE DEF D, G
  <2> QED
    BY <1>1, <1>2 DEF Process
<1>4. Listed(D) = S
  BY DEF Listed, DailiesOf
<1>5. \A d \in D : proc[p].date <= d /\ d < proc[p].date + Week /\ Exists("daily", d)
  BY DEF DailiesOf, InWeek, Exists
<1>6. summaries' = summaries
  BY DEF Collected
<1>7. QED
  <2> HIDE DEF D, G, S
  <2>1. G = UNION {s.counted : s \in Listed(D)}
    BY <1>4 DEF G
  <2>2. QED
    BY <1>3, <1>5, <1>6, <2>1 DEF Adds, Listed, Exists

LEMMA WeeksStep ==
    ASSUME Typed, WeeksAdd, [Next]_vars PROVE WeeksAdd'
<1>1. ASSUME NEW s \in summaries', s.type = "weekly"
      PROVE  Adds(s.counted, s.dailies, s.date)'
  <2>1. CASE s \in summaries
    BY <1>1, <2>1, AddsStays DEF WeeksAdd
  <2>2. CASE s \notin summaries
    <3>1. PICK p \in Slots : At(p, "weekly", "insert") /\ s = Weekly(p)
      BY <1>1, <2>2, SummariesChange DEF Daily
    <3>2. s.counted = proc[p].got /\ s.dailies = proc[p].days /\ s.date = proc[p].date
      BY <3>1 DEF Weekly
    <3>3. Adds(s.counted, s.dailies, s.date)
      BY <3>1, <3>2 DEF WeeksAdd, At
    <3>4. QED
      BY <3>3, AddsStays
  <2>3. QED
    BY <2>1, <2>2
<1>2. ASSUME NEW p \in Slots, proc'[p] # None, proc'[p].job = "weekly", proc'[p].at = "insert"
      PROVE  Adds(proc[p].got, proc[p].days, proc[p].date)'
  <2>1. CASE proc'[p] = proc[p]
    <3>1. Adds(proc[p].got, proc[p].days, proc[p].date)
      BY <1>2, <2>1 DEF WeeksAdd
    <3>2. {s \in summaries' : s.type = "daily" /\ s.date \in proc[p].days} = Listed(proc[p].days)
      BY <3>1, ListedStays DEF Adds
    <3>3. \A d \in proc[p].days : \E s \in summaries' : s.type = "daily" /\ s.date = d
      BY <3>1, TypedStep DEF Adds, Exists
    <3>4. QED
      BY <2>1, <3>1, <3>2, <3>3 DEF Adds, Listed, Exists
  <2>2. CASE Collected(p)
    BY <2>2, CollectedAdds
  <2>3. ASSUME NEW job \in Jobs, NEW date \in Int PROVE proc'[p] # Fresher(job, date)
    BY <1>2 DEF Fresher
  <2>4. ASSUME proc[p] # None, NEW place \in Places[proc[p].job],
               proc[p].job = "weekly" => place # "insert"
        PROVE  proc'[p] # [proc[p] EXCEPT !.at = place]
    <3>1. proc[p] \in Process
      BY <2>4, TypedParts DEF ProcTyped
    <3>2. QED
      BY <1>2, <2>4, <3>1 DEF Process
  <2>5. ASSUME NEW ks, NEW place, Gathered(p, ks, place) PROVE FALSE
    <3> DEFINE G == proc[p].got \cup Ids(Found(ks, proc[p].date))
               Y == proc[p].young \cup Ids(Fresh(ks, proc[p].date))
    <3>1. proc[p] \in Process /\ proc[p].job = "daily" /\ DOMAIN proc = Slots
      BY <2>5, TypedParts DEF ProcTyped, Gathered
    <3>2. proc'[p] = [proc[p] EXCEPT !.at = place, !.got = G, !.young = Y]
      BY <2>5, <3>1 DEF Gathered
    <3>3. proc'[p].job = "daily"
      <4> HIDE DEF G, Y
      <4> QED
        BY <3>1, <3>2 DEF Process
    <3>4. QED
      BY <1>2, <3>3
  <2>6. QED
    BY <1>2, <2>1, <2>2, <2>3, <2>4, <2>5, OwnProcess
<1>3. QED
  BY <1>1, <1>2 DEF WeeksAdd

LEMMA CountedStep ==
    ASSUME Typed, CountedOfDay, [Next]_vars PROVE CountedOfDay'
<1>1. ASSUME NEW s \in summaries', s.type = "daily" PROVE OfDay(s.counted, s.date)'
  <2>1. CASE s \in summaries
    BY <1>1, <2>1, OfDayStays DEF CountedOfDay
  <2>2. CASE s \notin summaries
    <3>1. PICK p \in Slots : At(p, "daily", "insert") /\ s = Daily(p)
      BY <1>1, <2>2, SummariesChange DEF Weekly
    <3>2. s.counted = proc[p].got /\ s.date = proc[p].date
      BY <3>1 DEF Daily
    <3>3. OfDay(s.counted, s.date)
      BY <3>1, <3>2 DEF CountedOfDay, At
    <3>4. QED
      BY <3>3, OfDayStays
  <2>3. QED
    BY <2>1, <2>2
<1>2. ASSUME NEW p \in Slots, proc'[p] # None, proc'[p].job = "daily"
      PROVE  OfDay(proc[p].got, proc[p].date)'
  <2>1. ASSUME proc[p] # None, proc[p].job = "daily", proc'[p].got = proc[p].got,
               proc'[p].date = proc[p].date
        PROVE  OfDay(proc[p].got, proc[p].date)'
    BY <2>1, TypedStep DEF CountedOfDay, OfDay, DayOf
  <2>2. CASE proc'[p] = proc[p]
    BY <1>2, <2>1, <2>2
  <2>3. ASSUME proc[p] # None, NEW place, proc'[p] = [proc[p] EXCEPT !.at = place]
        PROVE  OfDay(proc[p].got, proc[p].date)'
    <3>1. proc[p] \in Process
      BY <2>3, TypedParts DEF ProcTyped
    <3>2. proc'[p].job = proc[p].job /\ proc'[p].got = proc[p].got /\ proc'[p].date = proc[p].date
      BY <2>3, <3>1 DEF Process
    <3>3. QED
      BY <1>2, <2>1, <2>3, <3>2
  <2>4. ASSUME NEW job \in Jobs, NEW date \in Int, proc'[p] = Fresher(job, date)
        PROVE  OfDay(proc[p].got, proc[p].date)'
    <3>1. proc'[p].got = {}
      BY <2>4 DEF Fresher
    <3>2. QED
      BY <3>1 DEF OfDay
  <2>5. CASE Collected(p)
    <3> DEFINE D == {s.date : s \in DailiesOf(p)}
               G == UNION {s.counted : s \in DailiesOf(p)}
    <3>1. proc[p] \in Process /\ proc[p].job = "weekly" /\ DOMAIN proc = Slots
      BY <2>5, TypedParts DEF ProcTyped, Collected
    <3>2. proc'[p] = [proc[p] EXCEPT !.at = "insert", !.days = D, !.got = G]
      BY <2>5, <3>1 DEF Collected
    <3>3. proc'[p].job = "weekly"
      <4> HIDE DEF D, G
      <4> QED
        BY <3>1, <3>2 DEF Process
    <3>4. QED
      BY <1>2, <3>3
  <2>6. ASSUME NEW ks \in {Signals, {Event}}, NEW place \in {"events", "insert"},
               Gathered(p, ks, place)
        PROVE  OfDay(proc[p].got, proc[p].date)'
    <3> DEFINE G == proc[p].got \cup Ids(Found(ks, proc[p].date))
               Y == proc[p].young \cup Ids(Fresh(ks, proc[p].date))
    <3>1. /\ proc[p] \in Process /\ proc[p] # None /\ proc[p].job = "daily"
          /\ DOMAIN proc = Slots /\ rows \subseteq ever
      BY <2>6, TypedParts DEF ProcTyped, Gathered, RowsNumbered
    <3>2. proc'[p] = [proc[p] EXCEPT !.at = place, !.got = G, !.young = Y] /\ ever' = ever
      BY <2>6, <3>1 DEF Gathered
    <3>3. proc'[p].date = proc[p].date /\ proc'[p].got = G
      <4> HIDE DEF G, Y
      <4> QED
        BY <3>1, <3>2 DEF Process
    <3>4. OfDay(proc[p].got, proc[p].date)
      BY <3>1 DEF CountedOfDay
    <3>5. OfDay(Ids(Found(ks, proc[p].date)), proc[p].date)
      BY <3>1 DEF OfDay, Ids, Found, OfKind
    <3>6. OfDay(G, proc[p].date)
      BY <3>4, <3>5 DEF OfDay
    <3>7. QED
      <4> HIDE DEF G
      <4> QED
        BY <3>2, <3>3, <3>6 DEF OfDay, DayOf
  <2>7. QED
    BY <1>2, <2>2, <2>3, <2>4, <2>5, <2>6, OwnProcess
<1>3. QED
  BY <1>1, <1>2 DEF CountedOfDay

\* A weekly summary is the sum of the stored dailies of its own days, and counts
\* no row twice.
THEOREM WeekIsSum == Spec => []WeeklyAddsUp
<1> DEFINE Inv == Typed /\ CountedOfDay /\ WeeksAdd
<1>1. Init => Inv
  BY InitTyped DEF Init, CountedOfDay, WeeksAdd
<1>2. Inv /\ [Next]_vars => Inv'
  BY TypedStep, CountedStep, WeeksStep
<1>3. Inv => WeeklyAddsUp
  <2> SUFFICES ASSUME Inv, NEW w \in summaries, w.type = "weekly"
               PROVE  /\ w.counted = UNION {s.counted : s \in Listed(w.dailies)}
                      /\ \A d \in w.dailies : w.date <= d /\ d < w.date + Week
                      /\ \A s, t \in Listed(w.dailies) : s # t => s.counted \cap t.counted = {}
    BY DEF WeeklyAddsUp, Listed
  <2>1. Adds(w.counted, w.dailies, w.date)
    BY DEF WeeksAdd
  <2>2. ASSUME NEW s \in Listed(w.dailies), NEW t \in Listed(w.dailies), s # t,
               NEW i \in s.counted \cap t.counted
        PROVE  FALSE
    <3>1. OfDay(s.counted, s.date) /\ OfDay(t.counted, t.date)
      BY DEF CountedOfDay, Listed
    <3>2. s.date = t.date
      BY <3>1 DEF OfDay, Typed, RowsNumbered
    <3>3. QED
      BY <2>2, <3>2 DEF Typed, OneSummary, Listed
  <2>3. QED
    BY <2>1, <2>2 DEF Adds
<1>4. QED
  BY <1>1, <1>2, <1>3, PTL DEF Spec

-----------------------------------------------------------------------------
(* The latest readings.                                                       *)

Since(S, at) == {q \in S : q.at >= at}

\* If the latest of a set of readings stay, at least Keep are left that are not
\* older than a given time, when there were as many, or when one of that time
\* goes.
LEMMA TopStays ==
    ASSUME NEW own \in SUBSET Row, IsFiniteSet(own), NEW top \in SUBSET own,
           Cardinality(top) = (IF Cardinality(own) < Keep THEN Cardinality(own) ELSE Keep),
           \A r \in top, q \in own \ top : r.at >= q.at,
           NEW left \in SUBSET own, top \subseteq left, NEW at \in Nat,
           \/ Cardinality(Since(own, at)) >= Keep
           \/ \E r \in own \ top : r.at = at
    PROVE  Cardinality(Since(left, at)) >= Keep
<1>1. /\ IsFiniteSet(top) /\ IsFiniteSet(left) /\ IsFiniteSet(Since(left, at))
      /\ Cardinality(own) \in Nat /\ Cardinality(Since(left, at)) \in Nat /\ Keep \in Nat
  <2>1. IsFiniteSet(top) /\ IsFiniteSet(left)
    BY FS_Subset
  <2>2. IsFiniteSet(Since(left, at))
    BY <2>1, FS_Subset DEF Since
  <2>3. QED
    BY <2>1, <2>2, FS_CardinalityType, SummaryAssumption
<1>2. \A r \in own : r.at \in Nat
  BY DEF Row
<1>3. CASE Cardinality(own) < Keep
  <2>1. top = own
    BY <1>3, FS_Subset
  <2>2. left = own
    BY <2>1
  <2>3. QED
    BY <2>1, <2>2 DEF Since
<1>4. CASE ~(Cardinality(own) < Keep) /\ top \subseteq Since(left, at)
  <2>1. Cardinality(top) = Keep
    BY <1>4
  <2>2. Cardinality(top) <= Cardinality(Since(left, at))
    BY <1>1, <1>4, FS_Subset
  <2>3. QED
    BY <1>1, <2>1, <2>2
<1>5. CASE ~(top \subseteq Since(left, at))
  <2>1. PICK q \in top : ~(q.at >= at)
    BY <1>5 DEF Since
  <2>2. \A r \in own \ top : ~(r.at >= at)
    BY <1>2, <2>1
  <2>3. Since(own, at) = Since(left, at)
    BY <2>2 DEF Since
  <2>4. ~ \E r \in own \ top : r.at = at
    BY <1>2, <2>2
  <2>5. QED
    BY <2>3, <2>4
<1>6. QED
  BY <1>3, <1>4, <1>5

NotOlder(k, at) == {q \in OfKind({k}) : q.at >= at}

LEMMA SignalsStay ==
    ASSUME NEW p \in Slots, CleanEvents(p) \/ CleanNotices(p) \/ CleanMedia(p),
           NEW r \in rows, r.kind \in Signals
    PROVE  r \in rows'
<1>1. r.kind # Event /\ r.kind # Notice /\ r.kind # File
  BY SummaryAssumption
<1>2. CASE CleanEvents(p)
  BY <1>1, <1>2, DeleteEffect DEF CleanEvents
<1>3. CASE CleanNotices(p)
  BY <1>1, <1>3, DeleteEffect DEF CleanNotices
<1>4. CASE CleanMedia(p)
  BY <1>1, <1>4 DEF CleanMedia
<1>5. QED
  BY <1>2, <1>3, <1>4

LEMMA KeptStep ==
    ASSUME Typed, LatestKept, [Next]_vars PROVE LatestKept'
<1> SUFFICES ASSUME NEW r \in ever', r \notin rows', r.kind \in Signals
             PROVE  Cardinality(NotOlder(r.kind, r.at)') >= Keep
  BY DEF LatestKept, NotOlder
<1> DEFINE k == r.kind
           at == r.at
<1>1. /\ IsFiniteSet(rows) /\ IsFiniteSet(rows') /\ rows \subseteq Row /\ rows' \subseteq Row
      /\ Keep \in Nat /\ at \in Nat
  <2>1. IsFiniteSet(rows) /\ rows \subseteq Row
    BY TypedParts, FS_Subset DEF RowsNumbered, RowsTyped
  <2>2. IsFiniteSet(rows') /\ rows' \subseteq Row /\ r \in Row
    BY TypedParts, RowsStep, FS_Subset DEF RowsNumbered, RowsTyped
  <2>3. QED
    BY <2>1, <2>2, SummaryAssumption DEF Row
<1>2. r \in ever /\ r \notin rows => Cardinality(NotOlder(k, at)) >= Keep
  BY DEF LatestKept, NotOlder
<1>3. IsFiniteSet(NotOlder(k, at)) /\ IsFiniteSet(NotOlder(k, at)')
  BY <1>1, FS_Subset DEF NotOlder, OfKind
<1>4. ASSUME r \in ever, r \notin rows, \A q \in rows : q.kind \in Signals => q \in rows'
      PROVE  Cardinality(NotOlder(k, at)') >= Keep
  <2>1. NotOlder(k, at) \subseteq NotOlder(k, at)'
    BY <1>4 DEF NotOlder, OfKind
  <2>2. Cardinality(NotOlder(k, at)) <= Cardinality(NotOlder(k, at)')
    BY <1>3, <2>1, FS_Subset
  <2>3. Cardinality(NotOlder(k, at)) \in Nat /\ Cardinality(NotOlder(k, at)') \in Nat
    BY <1>3, FS_CardinalityType
  <2>4. QED
    BY <1>1, <1>2, <1>4, <2>2, <2>3
<1>5. CASE Commit
  BY <1>4, <1>5 DEF Commit
<1>6. ASSUME NEW p \in Slots, CleanSignals(p)
      PROVE  Cardinality(NotOlder(k, at)') >= Keep
  <2>1. ever' = ever /\ rows' \subseteq rows
    BY <1>6, CleanupFrame
  <2>2. PICK kept \in SUBSET OfKind(Signals) :
            /\ Latest(kept)
            /\ Delete(p, {x \in rows : x.kind \in Signals /\ (Covered(x) \/ Old(x)) => x \in kept},
                      "events")
    BY <1>6 DEF CleanSignals
  <2>3. CASE rows' = rows
    BY <1>4, <2>1, <2>3
  <2>4. CASE rows' # rows
    <3> DEFINE own == OfKind({k})
               left == {x \in rows' : x.kind = k}
               top == own \cap kept
    <3>1. rows' = {x \in rows : x.kind \in Signals /\ (Covered(x) \/ Old(x)) => x \in kept}
      BY <2>2, <2>4, DeleteEffect
    <3>2. /\ Cardinality(top) = (IF Cardinality(own) < Keep THEN Cardinality(own) ELSE Keep)
          /\ \A x \in top, q \in own \ top : x.at >= q.at
      BY <2>2 DEF Latest
    <3>3. own \subseteq Row /\ IsFiniteSet(own) /\ top \subseteq left /\ left \subseteq own
      <4>1. own \subseteq Row /\ top \subseteq left /\ left \subseteq own
        BY <1>1, <2>1, <3>1 DEF OfKind
      <4>2. IsFiniteSet(own)
        BY <1>1, FS_Subset DEF OfKind
      <4>3. QED
        BY <4>1, <4>2
    <3>4. \/ Cardinality(Since(own, at)) >= Keep
          \/ \E x \in own \ top : x.at = at
      <4>1. CASE r \in rows
        <5>1. r \in own \ top
          BY <3>1, <4>1 DEF OfKind
        <5>2. QED
          BY <5>1
      <4>2. CASE r \notin rows
        BY <1>2, <2>1, <4>2 DEF NotOlder, Since
      <4>3. QED
        BY <4>1, <4>2
    <3>5. Cardinality(Since(left, at)) >= Keep
      <4> HIDE DEF own, left, top, at
      <4> QED
        BY <1>1, <3>2, <3>3, <3>4, TopStays
    <3>6. NotOlder(k, at)' = Since(left, at)
      BY DEF NotOlder, OfKind, Since
    <3>7. QED
      BY <3>5, <3>6
  <2>5. QED
    BY <2>3, <2>4
<1>7. ASSUME NEW p \in Slots, CleanEvents(p) \/ CleanNotices(p) \/ CleanMedia(p)
      PROVE  Cardinality(NotOlder(k, at)') >= Keep
  <2>1. ever' = ever
    BY <1>7, CleanupFrame
  <2>2. QED
    BY <1>4, <1>7, <2>1, SignalsStay
<1>8. CASE UNCHANGED <<rows, ever>>
  BY <1>4, <1>8
<1>9. QED
  BY <1>5, <1>6, <1>7, <1>8, RowsFrame DEF Observe

\* The last Keep readings of a signal are never deleted.
THEOREM LatestStay == Spec => []LatestKept
<1> DEFINE Inv == Typed /\ LatestKept
<1>1. Init => Inv
  BY InitTyped DEF Init, LatestKept
<1>2. Inv /\ [Next]_vars => Inv'
  BY TypedStep, KeptStep
<1>3. Inv => LatestKept
  OBVIOUS
<1>4. QED
  BY <1>1, <1>2, <1>3, PTL DEF Spec
=============================================================================
