------------------------------ MODULE JobLocks ------------------------------
(***************************************************************************)
(* The scheduled_task_manager's job runs: cron starts a process per job    *)
(* and interval; the process takes the job's row in stm_job_locks, runs    *)
(* the handler, logs and releases the row.                                 *)
(*                                                                         *)
(* A worker is a process slot: its owner id, host and pid, may be used     *)
(* again by a later process.  Leases count down the ticks they have left   *)
(* (-1: locked_until < NOW()).  A database call may fail in the ways       *)
(* StorageWriter reports alike.                                            *)
(***************************************************************************)
EXTENDS Integers

CONSTANTS
    Workers,     (* process slots, which are also the owner ids             *)
    Jobs,
    Timeout,     (* timeout_seconds of each job, in ticks                   *)
    Buffer,      (* the safety buffer of 30 s                               *)
    HandlerMax,  (* bound: the longest time a handler takes                 *)
    DbFaults,    (* TRUE: database calls may fail                           *)
    MaxCrashes,  (* bound: processes that die                               *)
    None         (* no row, no process                                      *)

\* The lock TTL, and the rows of the table.
Ttl(j) == Timeout[j] + Buffer
LockRow == [owner : Workers, left : Int]

\* A process: where it is in execute(), its job, how long its handler has been
\* running, and whether its database connection is open.
Process ==
    [at : {"acquiring", "skipping", "running", "logging", "releasing"},
     job : Jobs, age : 0 .. HandlerMax, up : BOOLEAN]

ASSUME JobLocksAssumption ==
    /\ Timeout \in [Jobs -> Nat] /\ Buffer \in Nat /\ HandlerMax \in Nat
    /\ DbFaults \in BOOLEAN /\ MaxCrashes \in Nat
    /\ None \notin LockRow
    /\ None \notin Process

VARIABLES
    row,      (* stm_job_locks: the row of each job                         *)
    proc,     (* the process in each slot                                   *)
    crashes

vars == <<row, proc, crashes>>

Running(w, j) == proc[w] # None /\ proc[w].at = "running" /\ proc[w].job = j

\* locked_until < NOW()
Expired(j) == row[j].left < 0

\* Mutants: "ON CONFLICT DO NOTHING"; "<=" for "<".
Free_NoExpiry(j) == row[j] = None
Free_Boundary(j) == row[j] = None \/ row[j].left <= 0

\* What the INSERT .. ON CONFLICT .. WHERE locked_until < NOW() needs.
Free(j) == row[j] = None \/ Expired(j)

\* A StorageWriter call: done and reported so; an error that rolls back; a
\* connection lost before or after the commit.  A lost connection stays lost
\* for the life of the process.
Fault(applied, up) == [applied |-> applied, ok |-> FALSE, up |-> up]
DbOutcomes(up) ==
    IF ~up THEN {Fault(FALSE, FALSE)}
    ELSE {[applied |-> TRUE, ok |-> TRUE, up |-> TRUE]}
         \cup (IF DbFaults THEN {Fault(FALSE, TRUE), Fault(FALSE, FALSE), Fault(TRUE, FALSE)} ELSE {})

Init ==
    /\ row = [j \in Jobs |-> None]
    /\ proc = [w \in Workers |-> None]
    /\ crashes = 0

At(w, place) == proc[w] # None /\ proc[w].at = place
End(w) == proc' = [proc EXCEPT ![w] = None]

-----------------------------------------------------------------------------
\* Time passes for leases and handlers.
Tick ==
    /\ \A w \in Workers : At(w, "running") => proc[w].age < HandlerMax
    /\ row' = [j \in Jobs |->
                IF row[j] = None \/ Expired(j) THEN row[j] ELSE [row[j] EXCEPT !.left = @ - 1]]
    /\ proc' = [w \in Workers |->
                  IF At(w, "running") THEN [proc[w] EXCEPT !.age = @ + 1] ELSE proc[w]]
    /\ UNCHANGED crashes

\* cron starts a process; its connection may fail.
Start(w, j) ==
    /\ proc[w] = None
    /\ \E up \in {TRUE, ~DbFaults} :
         proc' = [proc EXCEPT ![w] = [at |-> "acquiring", job |-> j, age |-> 0, up |-> up]]
    /\ UNCHANGED <<row, crashes>>

\* LockManager::try_acquire: only a row that comes back counts as acquired.
Acquire(w) ==
    LET j == proc[w].job IN
    /\ At(w, "acquiring")
    /\ \E o \in DbOutcomes(proc[w].up) :
        /\ row' = IF o.applied /\ Free(j)
                  THEN [row EXCEPT ![j] = [owner |-> w, left |-> Ttl(j)]] ELSE row
        /\ proc' = [proc EXCEPT ![w] =
                      IF o.ok /\ Free(j) THEN [@ EXCEPT !.at = "running", !.age = 0]
                      ELSE [@ EXCEPT !.at = "skipping", !.up = o.up]]
    /\ UNCHANGED crashes

\* log_execution("skipped", "Lock busy"), done or not; the process ends.
LogSkip(w) == At(w, "skipping") /\ End(w) /\ UNCHANGED <<row, crashes>>

\* The handler returns, succeeds, fails or throws; it uses the same connection.
Finish(w) ==
    /\ At(w, "running")
    /\ \E o \in DbOutcomes(proc[w].up) :
         proc' = [proc EXCEPT ![w] = [@ EXCEPT !.at = "logging", !.age = 0, !.up = o.up]]
    /\ UNCHANGED <<row, crashes>>

Log(w) ==
    /\ At(w, "logging")
    /\ \E o \in DbOutcomes(proc[w].up) :
         proc' = [proc EXCEPT ![w] = [@ EXCEPT !.at = "releasing", !.up = o.up]]
    /\ UNCHANGED <<row, crashes>>

\* Mutant: DELETE .. WHERE job_name = $1.
Release_AnyOwner(w) ==
    /\ At(w, "releasing") /\ End(w)
    /\ row' = [row EXCEPT ![proc[w].job] = None]
    /\ UNCHANGED crashes

\* LockManager::release deletes the row if it is still this owner's.
Release(w) ==
    LET j == proc[w].job IN
    /\ At(w, "releasing") /\ End(w)
    /\ \E o \in DbOutcomes(proc[w].up) :
         row' = IF o.applied /\ row[j] # None /\ row[j].owner = w
                THEN [row EXCEPT ![j] = None] ELSE row
    /\ UNCHANGED crashes

\* The process dies; its row stays.
Crash(w) ==
    /\ proc[w] # None /\ crashes < MaxCrashes
    /\ crashes' = crashes + 1
    /\ End(w)
    /\ UNCHANGED row

-----------------------------------------------------------------------------
ProcessStep(w) == Acquire(w) \/ LogSkip(w) \/ Finish(w) \/ Log(w) \/ Release(w)

Next ==
    \/ Tick
    \/ \E w \in Workers, j \in Jobs : Start(w, j)
    \/ \E w \in Workers :
         Acquire(w) \/ LogSkip(w) \/ Finish(w) \/ Log(w) \/ Release(w) \/ Crash(w)

Spec == Init /\ [][Next]_vars

\* Processes run, handlers return, time passes, cron starts every job again
\* and again (slots may be taken in between), and a database that keeps being
\* asked answers some time.
Fairness ==
    /\ WF_vars(Tick)
    /\ \A w \in Workers : WF_vars(ProcessStep(w))
    /\ \A j \in Jobs : /\ SF_vars(\E w \in Workers : Start(w, j) /\ proc'[w].up)
                       /\ SF_vars(\E w \in Workers : Acquire(w) /\ Running(w, j)')

FairSpec == Spec /\ Fairness

-----------------------------------------------------------------------------
(* Properties. *)

TypeOK ==
    /\ row \in [Jobs -> LockRow \cup {None}]
    /\ \A j \in Jobs : row[j] # None => row[j].left \in -1 .. Ttl(j)
    /\ proc \in [Workers -> Process \cup {None}]
    /\ crashes \in 0 .. MaxCrashes

\* The handler has been running for longer than the lock was taken for.
Overrun(w, j) == proc[w].age > Ttl(j)

\* Whoever else tries, crashes, is refused, or releases too late: until it
\* overruns, a handler runs under a lease of its own process, with the time left
\* that it has not used.
RunnerHoldsLease ==
    \A w \in Workers, j \in Jobs : Running(w, j) /\ ~Overrun(w, j) =>
        /\ row[j] # None /\ row[j].owner = w
        /\ row[j].left >= 0 /\ row[j].left = Ttl(j) - proc[w].age

\* "Only one instance can run a specific job at a time" (lock_manager.hpp), as
\* far as it is so: of two instances, one has outlived its lease.
OneInstance ==
    \A v, w \in Workers, j \in Jobs :
        Running(v, j) /\ Running(w, j) /\ v # w => Overrun(v, j) \/ Overrun(w, j)

\* A release takes away nobody else's lock: a row that disappears was owned by
\* a process that was about to release it.
ReleasesOwnLock ==
    [][\A j \in Jobs : row[j] # None /\ row'[j] = None
           => At(row[j].owner, "releasing") /\ proc[row[j].owner].job = j]_vars

\* "If a daemon crashes, the TTL expires and another instance can reclaim the
\* lock" (schema.sql): every job runs again and again.
JobRunsAgain ==
    \A j \in Jobs : []<>(\E w \in Workers : Running(w, j))

=============================================================================
