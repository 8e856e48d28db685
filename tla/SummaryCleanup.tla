--------------------------- MODULE SummaryCleanup ---------------------------
(***************************************************************************)
(* The summary and cleanup jobs of scheduled_task_manager, each a process  *)
(* of its own, over the tables the nodes write to.  A job is a sequence of *)
(* statements; between two of them the nodes insert, the clock passes and  *)
(* other jobs run.  A node takes the time of a row before it inserts it.   *)
(*                                                                         *)
(* A summary is the set of the rows it counted, whatever it computes from  *)
(* them.  Day d is the time from d * Day to (d + 1) * Day.                 *)
(***************************************************************************)
EXTENDS Integers, FiniteSets

CONSTANTS
    Slots,          (* processes that may be alive at once                  *)
    Signals,        (* signal ids                                           *)
    Event, Notice, File,
                    (* an event; a notification, execution or dead letter;  *)
                    (* a media file: each a kind of row                     *)
    Written,        (* sets of kinds that may be written in a behaviour     *)
    Keep,           (* readings per signal that are never deleted: 5        *)
    Retention,      (* retention_days                                       *)
    Week,           (* days of a weekly summary: 7                          *)
    Day,            (* ticks of a day                                       *)
    CronAt,         (* when "0 0 * * *" fires, in local time                *)
    ByHand,         (* jobs run at any time, by cron or by hand with --date *)
    Answers,        (* whether a statement may do its work: {TRUE} if none  *)
                    (* fails                                                *)
    None,
    MaxRows, MaxClock, MaxRuns

Jobs == {"daily", "weekly", "cleanup"}
AllKinds == Signals \cup {Event, Notice, File}

ASSUME SummaryAssumption ==
    /\ Event \notin Signals /\ Notice \notin Signals /\ File \notin Signals
    /\ Event # Notice /\ Event # File /\ Notice # File
    /\ Written \subseteq SUBSET AllKinds
    /\ Day \in Nat \ {0} /\ Week \in Nat \ {0} /\ Keep \in Nat /\ Retention \in Nat
    /\ CronAt \in 0 .. Day - 1 /\ ByHand \in BOOLEAN /\ Answers \subseteq BOOLEAN
    /\ MaxRows \in Nat /\ MaxClock \in Nat /\ MaxRuns \in Nat

VARIABLES
    clock,
    kinds,      (* what the nodes write, the same all along                 *)
    rows,       (* the tables of signals, events, notifications; the files  *)
    open,       (* the row a node is about to insert                        *)
    summaries,  (* oro_base_summary                                         *)
    due,        (* the jobs cron starts at this time                        *)
    proc,       (* the job of each slot: its place, date and what it read   *)
    runs,       (* bound: how many jobs were started                        *)
    ever        (* history: all rows that were ever committed               *)

vars == <<clock, kinds, rows, open, summaries, due, proc, runs, ever>>
tables == <<rows, open, summaries, ever>>

DayOf(t) == t \div Day
Today == DayOf(clock)
Row == [id : Nat, kind : AllKinds, at : Nat]
Old(r) == r.at < clock - Retention
OfKind(ks) == {r \in rows : r.kind \in ks}

\* What a daily summary covers: from period_start, before period_end.
Covers_Closed(s, t) ==      \* mutant: up to and including period_end
    s.type = "daily" /\ (DayOf(t) = s.date \/ t = (s.date + 1) * Day)
Covers(s, t) == s.type = "daily" /\ DayOf(t) = s.date
Covered(r) == \E s \in summaries : Covers(s, r.at)

\* The rows ever committed that a summary of day d made now has to count.
CountedKinds == Signals \cup {Event}
Young(d) == {r \in ever : r.kind \in CountedKinds /\ DayOf(r.at) = d /\ ~Old(r)}

Init ==
    /\ clock = 0 /\ kinds \in Written
    /\ rows = {} /\ ever = {} /\ open = None
    /\ summaries = {}
    /\ due = IF ByHand THEN Jobs ELSE {}
    /\ proc = [p \in Slots |-> None]
    /\ runs = 0

-----------------------------------------------------------------------------
(* The nodes, time and cron.                                                *)

Observe(k) ==
    /\ k \in kinds /\ open = None /\ Cardinality(ever) < MaxRows
    /\ open' = [id |-> Cardinality(ever) + 1, kind |-> k, at |-> clock]
    /\ UNCHANGED <<clock, kinds, rows, summaries, due, proc, runs, ever>>

Commit ==
    /\ open # None
    /\ rows' = rows \cup {open} /\ ever' = ever \cup {open}
    /\ open' = None
    /\ UNCHANGED <<clock, kinds, summaries, due, proc, runs>>

\* Daily jobs fire once a day, the weekly job on one of the days.  What cron
\* could not start in time is not started later.
Fired(t) ==
    IF t % Day # CronAt THEN {} ELSE IF DayOf(t) % Week = 0 THEN Jobs ELSE Jobs \ {"weekly"}
Advance ==
    /\ clock < MaxClock
    /\ clock' = clock + 1
    /\ due' = IF ByHand THEN Jobs ELSE Fired(clock')
    /\ UNCHANGED <<kinds, tables, proc, runs>>

-----------------------------------------------------------------------------
(* Processes.  A statement that fails, alone or because the connection is   *)
(* lost, has no effect and returns no rows (StorageWriter).                 *)

At(p, job, place) == proc[p] # None /\ proc[p].job = job /\ proc[p].at = place
Go(p, place) == proc' = [proc EXCEPT ![p].at = place]
End(p) == proc' = [proc EXCEPT ![p] = None]
World == <<clock, kinds, open, due, runs, ever>>

Begin(p, job, date) ==
    proc' = [proc EXCEPT ![p] = [job |-> job, at |-> "check", date |-> date,
                                 got |-> {}, young |-> {}, days |-> {}]]

\* The process computes its window: today, or the date of --date; for the week,
\* the days before today.
FirstDate(job) == IF job = "weekly" THEN Today - Week ELSE Today

Dates(job) ==
    IF ByHand /\ job = "daily" THEN {Today - Week, Today - 1, Today} ELSE {FirstDate(job)}

Start(p, job) ==
    /\ proc[p] = None /\ job \in due /\ runs < MaxRuns
    /\ \E date \in Dates(job) : Begin(p, job, date)
    /\ due' = IF ByHand THEN due ELSE due \ {job}
    /\ runs' = runs + 1
    /\ UNCHANGED <<clock, kinds, tables>>

Exists(type, date) == \E s \in summaries : s.type = type /\ s.date = date

\* ON CONFLICT DO NOTHING, by the index on type and date.
Insert_Update(s) ==         \* mutant: ON CONFLICT DO UPDATE
    summaries' = {t \in summaries : t.type # s.type \/ t.date # s.date} \cup {s}
Insert(s) ==
    summaries' = IF Exists(s.type, s.date) THEN summaries ELSE summaries \cup {s}

\* Daily and weekly: the idempotency check.
Check(p) ==
    /\ \E job \in {"daily", "weekly"} : At(p, job, "check")
    /\ \E ok \in Answers :
        IF ok /\ Exists(proc[p].job, proc[p].date)
        THEN End(p)
        ELSE Go(p, IF proc[p].job = "daily" THEN "signals" ELSE "dailies")
    /\ UNCHANGED <<World, rows, summaries>>

\* The aggregates of the period: first the signals, then the events.  A query
\* that fails is an empty result, and the job goes on.
Read(p, ks, place) ==
    /\ \E ok \in Answers :
        IF ok
        THEN LET d == proc[p].date IN
             proc' = [proc EXCEPT
                ![p].at = place,
                ![p].got = @ \cup {r.id : r \in {r \in OfKind(ks) : DayOf(r.at) = d}},
                ![p].young = @ \cup {r.id : r \in {r \in Young(d) : r.kind \in ks}}]
        ELSE Go(p, place)
    /\ UNCHANGED <<World, rows, summaries>>
ReadSignals(p) == At(p, "daily", "signals") /\ Read(p, Signals, "events")
ReadEvents(p) == At(p, "daily", "events") /\ Read(p, {Event}, "insert")

InsertDaily(p) ==
    /\ At(p, "daily", "insert")
    /\ \E ok \in Answers :
        IF ok
        THEN Insert([type |-> "daily", date |-> proc[p].date, counted |-> proc[p].got,
                     young |-> proc[p].young, dailies |-> {}])
        ELSE UNCHANGED summaries
    /\ End(p)
    /\ UNCHANGED <<World, rows>>

\* The weekly summary adds up the payloads of the days before today, and is
\* named by the first of them.
InWeek_Closed(d, first) == first <= d /\ d <= first + Week      \* mutant: today, too
InWeek(d, first) == first <= d /\ d < first + Week
DailiesOf(p) == {s \in summaries : s.type = "daily" /\ InWeek(s.date, proc[p].date)}
ReadDailies(p) ==
    /\ At(p, "weekly", "dailies")
    /\ \E ok \in Answers :
        IF ok /\ DailiesOf(p) # {}
        THEN proc' = [proc EXCEPT ![p].at = "insert",
                                  ![p].days = {s.date : s \in DailiesOf(p)},
                                  ![p].got = UNION {s.counted : s \in DailiesOf(p)}]
        ELSE End(p)
    /\ UNCHANGED <<World, rows, summaries>>

InsertWeekly(p) ==
    /\ At(p, "weekly", "insert")
    /\ \E ok \in Answers :
        IF ok
        THEN Insert([type |-> "weekly", date |-> proc[p].date, counted |-> proc[p].got,
                     young |-> {}, dailies |-> proc[p].days])
        ELSE UNCHANGED summaries
    /\ End(p)
    /\ UNCHANGED <<World, rows>>

-----------------------------------------------------------------------------
(* Cleanup.                                                                 *)

\* ROW_NUMBER() <= Keep over the readings of a signal, latest first; readings
\* of the same time come in any order.
Latest_Ascending(ids) == \A k \in Signals :     \* mutant: ORDER BY observed_at ASC
    LET own == OfKind({k})
    IN /\ Cardinality(own \cap ids) = IF Cardinality(own) < Keep THEN Cardinality(own) ELSE Keep
       /\ \A r \in own \cap ids, q \in own \ ids : r.at <= q.at
Latest(ids) == \A k \in Signals :
    LET own == OfKind({k})
    IN /\ Cardinality(own \cap ids) = IF Cardinality(own) < Keep THEN Cardinality(own) ELSE Keep
       /\ \A r \in own \cap ids, q \in own \ ids : r.at >= q.at

\* A DELETE that works, or one that fails.
Delete(p, remaining, next) ==
    /\ \E ok \in Answers : rows' = IF ok THEN remaining ELSE rows
    /\ Go(p, next)
    /\ UNCHANGED <<World, summaries>>

CleanSignals(p) ==
    /\ At(p, "cleanup", "check")
    /\ \E kept \in SUBSET OfKind(Signals) :
        /\ Latest(kept)
        /\ Delete(p, {r \in rows : r.kind \in Signals /\ (Covered(r) \/ Old(r)) => r \in kept},
                  "events")

CleanEvents(p) ==
    /\ At(p, "cleanup", "events")
    /\ Delete(p, {r \in rows : ~(r.kind = Event /\ (Covered(r) \/ Old(r)))}, "notices")

\* Notifications, executions and dead letters, by age only.
CleanNotices(p) ==
    /\ At(p, "cleanup", "notices")
    /\ Delete(p, {r \in rows : ~(r.kind = Notice /\ Old(r))}, "media")

\* Media files by age; an error stops the loop where it is.
CleanMedia(p) ==
    /\ At(p, "cleanup", "media")
    /\ \E gone \in SUBSET {r \in rows : r.kind = File /\ Old(r)} : rows' = rows \ gone
    /\ End(p)
    /\ UNCHANGED <<World, summaries>>

JobStep(p) ==
    \/ Check(p)
    \/ ReadSignals(p) \/ ReadEvents(p) \/ InsertDaily(p)
    \/ ReadDailies(p) \/ InsertWeekly(p)
    \/ CleanSignals(p) \/ CleanEvents(p) \/ CleanNotices(p) \/ CleanMedia(p)

Next ==
    \/ \E k \in AllKinds : Observe(k)
    \/ Commit
    \/ Advance
    \/ \E p \in Slots :
        \/ \E job \in Jobs : Start(p, job)
        \/ JobStep(p)

Spec == Init /\ [][Next]_vars

-----------------------------------------------------------------------------
Places == [daily |-> {"check", "signals", "events", "insert"},
           weekly |-> {"check", "dailies", "insert"},
           cleanup |-> {"check", "events", "notices", "media"}]
Process ==
    [job : Jobs, date : Int, got : SUBSET Nat, young : SUBSET Nat, days : SUBSET Int,
     at : UNION {Places[job] : job \in Jobs}]
Summary ==
    [type : {"daily", "weekly"}, date : Int, counted : SUBSET Nat, young : SUBSET Nat,
     dailies : SUBSET Int]

TypeOK ==
    /\ clock \in Nat /\ runs \in Nat /\ kinds \in Written
    /\ rows \subseteq Row /\ ever \subseteq Row
    /\ open # None => open \in Row
    /\ summaries \subseteq Summary
    /\ due \subseteq Jobs
    /\ DOMAIN proc = Slots
    /\ \A p \in Slots : proc[p] # None =>
        proc[p] \in Process /\ proc[p].at \in Places[proc[p].job]

\* A daily summary counts every reading and event of its day that had been
\* inserted when its query was answered and was not past retention: a cleanup
\* that runs between the existence check and the aggregates takes nothing from
\* it, another run of the job replaces nothing.
SummaryComplete ==
    \A s \in summaries : s.type = "daily" => s.young \subseteq s.counted

\* A week adds up the payloads of dailies of its own days as they are stored,
\* and no row is added up twice.
WeeklyAddsUp ==
    \A w \in summaries : w.type = "weekly" =>
        LET listed == {s \in summaries : s.type = "daily" /\ s.date \in w.dailies}
        IN /\ w.counted = UNION {s.counted : s \in listed}
           /\ \A d \in w.dailies : w.date <= d /\ d < w.date + Week
           /\ \A s, t \in listed : s # t => s.counted \cap t.counted = {}

\* A reading or event that is gone was of a day that has a summary, or was older
\* than the retention time; a notification or a file, the latter.
GoneForCause ==
    \A r \in ever \ rows :
        \/ r.kind \in CountedKinds /\ \E s \in summaries : s.type = "daily" /\ s.date = DayOf(r.at)
        \/ Old(r)

\* Whatever cleanup deletes, the last Keep readings of a signal, which
\* thresholds and freshness checks are read from, stay.
LatestKept ==
    \A r \in ever \ rows : r.kind \in Signals =>
        Cardinality({q \in OfKind({r.kind}) : q.at >= r.at}) >= Keep

\* The comments of cleanup_jobs.cpp: raw telemetry is disposable once it has
\* been summarised.  What is deleted before its retention time was counted.
DeletedWasSummarised ==
    \A r \in ever \ rows : r.kind \in CountedKinds /\ ~Old(r) =>
        \E s \in summaries : s.type = "daily" /\ r.id \in s.counted
=============================================================================
