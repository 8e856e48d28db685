--------------------------- MODULE JobLocksProofs ---------------------------
(* Theorems about JobLocks for every number of workers and jobs and all TTLs. *)
EXTENDS JobLocks, TLAPS

LEMMA TtlType == ASSUME NEW j \in Jobs PROVE Ttl(j) \in Nat
  BY JobLocksAssumption DEF Ttl

LEMMA OutcomeType ==
    ASSUME NEW up \in BOOLEAN, NEW o \in DbOutcomes(up)
    PROVE  o.applied \in BOOLEAN /\ o.ok \in BOOLEAN /\ o.up \in BOOLEAN /\ (o.ok => o.applied)
<1>1. \/ o = [applied |-> TRUE, ok |-> TRUE, up |-> TRUE]
      \/ \E applied, alive \in BOOLEAN : o = Fault(applied, alive)
  BY Zenon DEF DbOutcomes
<1>2. ASSUME NEW applied \in BOOLEAN, NEW alive \in BOOLEAN, o = Fault(applied, alive)
      PROVE  o.applied = applied /\ o.ok = FALSE /\ o.up = alive
  BY <1>2 DEF Fault
<1>3. CASE o = [applied |-> TRUE, ok |-> TRUE, up |-> TRUE]
  BY <1>3
<1>4. QED
  BY <1>1, <1>2, <1>3

\* What a type-correct process looks like.
LEMMA ProcessType ==
    ASSUME TypeOK, NEW w \in Workers, proc[w] # None
    PROVE  /\ proc[w] \in Process
           /\ proc[w].job \in Jobs /\ proc[w].up \in BOOLEAN /\ proc[w].age \in 0 .. HandlerMax
  BY DEF TypeOK, Process

-----------------------------------------------------------------------------
(* Type correctness. *)

LEMMA InitType == Init => TypeOK
  BY JobLocksAssumption DEF Init, TypeOK

\* Ticking keeps leases between -1 and the TTL.
LEMMA TickType == TypeOK /\ Tick => TypeOK'
<1> SUFFICES ASSUME TypeOK, Tick PROVE TypeOK'
  OBVIOUS
<1>1. ASSUME NEW j \in Jobs
      PROVE  /\ row'[j] \in LockRow \cup {None}
             /\ row'[j] # None => row'[j].left \in -1 .. Ttl(j)
  <2>1. CASE Free(j)
    BY <2>1 DEF Tick, Free, TypeOK
  <2>2. CASE ~Free(j)
    <3>1. row[j] \in LockRow /\ row[j].left \in 0 .. Ttl(j)
      BY <2>2, TtlType DEF Free, Expired, TypeOK
    <3>2. row'[j] = [row[j] EXCEPT !.left = row[j].left - 1]
      BY <2>2 DEF Tick, Free
    <3>3. QED
      BY <3>1, <3>2, TtlType DEF LockRow
  <2>3. QED
    BY <2>1, <2>2
<1>2. ASSUME NEW w \in Workers PROVE proc'[w] \in Process \cup {None}
  <2>1. CASE At(w, "running")
    <3>1. proc[w] \in Process /\ proc[w].age + 1 \in 0 .. HandlerMax
      BY <2>1, ProcessType, JobLocksAssumption DEF Tick, At
    <3>2. proc'[w] = [proc[w] EXCEPT !.age = proc[w].age + 1]
      BY <2>1 DEF Tick
    <3>3. QED
      BY <3>1, <3>2 DEF Process
  <2>2. CASE ~At(w, "running")
    BY <2>2 DEF Tick, TypeOK
  <2>3. QED
    BY <2>1, <2>2
<1>3. QED
  BY <1>1, <1>2 DEF Tick, TypeOK

LEMMA AcquireType == ASSUME TypeOK, NEW w \in Workers, Acquire(w) PROVE TypeOK'
<1> DEFINE j == proc[w].job
<1>1. PICK o \in DbOutcomes(proc[w].up) :
        /\ row' = IF o.applied /\ Free(j) THEN [row EXCEPT ![j] = [owner |-> w, left |-> Ttl(j)]] ELSE row
        /\ proc' = [proc EXCEPT ![w] =
                      IF o.ok /\ Free(j) THEN [@ EXCEPT !.at = "running", !.age = 0]
                      ELSE [@ EXCEPT !.at = "skipping", !.up = o.up]]
  BY DEF Acquire
<1>2. proc[w] \in Process /\ j \in Jobs /\ proc[w].up \in BOOLEAN
  BY ProcessType DEF Acquire, At
<1>3. o.up \in BOOLEAN
  BY <1>2, OutcomeType
<1>4. proc' \in [Workers -> Process \cup {None}]
  <2>1. [proc[w] EXCEPT !.at = "running", !.age = 0] \in Process
    <3>1. 0 \in 0 .. HandlerMax
      BY JobLocksAssumption
    <3>2. QED
      BY <1>2, <3>1 DEF Process
  <2>2. [proc[w] EXCEPT !.at = "skipping", !.up = o.up] \in Process
    BY <1>2, <1>3 DEF Process
  <2>3. QED
    BY <1>1, <2>1, <2>2 DEF TypeOK
<1>5. [owner |-> w, left |-> Ttl(j)] \in LockRow /\ Ttl(j) \in -1 .. Ttl(j)
  BY <1>2, TtlType DEF LockRow
<1>6. QED
  BY <1>1, <1>2, <1>4, <1>5 DEF Acquire, TypeOK

LEMMA NextType == TypeOK /\ [Next]_vars => TypeOK'
<1> SUFFICES ASSUME TypeOK, [Next]_vars PROVE TypeOK'
  OBVIOUS
<1>1. CASE Tick
  BY <1>1, TickType
<1>2. ASSUME NEW w \in Workers, NEW j \in Jobs, Start(w, j) PROVE TypeOK'
  <2>1. PICK up \in BOOLEAN : proc' = [proc EXCEPT ![w] =
            [at |-> "acquiring", job |-> j, age |-> 0, up |-> up]]
    BY <1>2 DEF Start
  <2>2. [at |-> "acquiring", job |-> j, age |-> 0, up |-> up] \in Process
    BY JobLocksAssumption DEF Process
  <2>3. QED
    BY <1>2, <2>1, <2>2 DEF Start, TypeOK
<1>3. ASSUME NEW w \in Workers, Acquire(w) PROVE TypeOK'
  BY <1>3, AcquireType
<1>4. ASSUME NEW w \in Workers, LogSkip(w) PROVE TypeOK'
  BY <1>4 DEF LogSkip, End, TypeOK
<1>5. ASSUME NEW w \in Workers, Finish(w) PROVE TypeOK'
  <2>1. PICK o \in DbOutcomes(proc[w].up) :
          proc' = [proc EXCEPT ![w] = [proc[w] EXCEPT !.at = "logging", !.age = 0, !.up = o.up]]
    BY <1>5 DEF Finish
  <2>2. proc[w] \in Process /\ o.up \in BOOLEAN
    BY <1>5, ProcessType, OutcomeType DEF Finish, At
  <2>3. 0 \in 0 .. HandlerMax
    BY JobLocksAssumption
  <2>4. [proc[w] EXCEPT !.at = "logging", !.age = 0, !.up = o.up] \in Process
    BY <2>2, <2>3 DEF Process
  <2>5. QED
    BY <1>5, <2>1, <2>4 DEF Finish, TypeOK
<1>6. ASSUME NEW w \in Workers, Log(w) PROVE TypeOK'
  <2>1. PICK o \in DbOutcomes(proc[w].up) :
          proc' = [proc EXCEPT ![w] = [proc[w] EXCEPT !.at = "releasing", !.up = o.up]]
    BY <1>6 DEF Log
  <2>2. proc[w] \in Process /\ o.up \in BOOLEAN
    BY <1>6, ProcessType, OutcomeType DEF Log, At
  <2>3. [proc[w] EXCEPT !.at = "releasing", !.up = o.up] \in Process
    BY <2>2 DEF Process
  <2>4. QED
    BY <1>6, <2>1, <2>3 DEF Log, TypeOK
<1>7. ASSUME NEW w \in Workers, Release(w) PROVE TypeOK'
  <2>1. row' = row \/ row' = [row EXCEPT ![proc[w].job] = None]
    BY <1>7 DEF Release
  <2>2. QED
    BY <1>7, <2>1 DEF Release, End, TypeOK
<1>8. ASSUME NEW w \in Workers, Crash(w) PROVE TypeOK'
  BY <1>8, JobLocksAssumption DEF Crash, End, TypeOK
<1>9. CASE UNCHANGED vars
  BY <1>9 DEF vars, TypeOK
<1>10. QED
  BY <1>1, <1>2, <1>3, <1>4, <1>5, <1>6, <1>7, <1>8, <1>9 DEF Next

\* Every reachable state is well typed; a lease never exceeds its TTL.
THEOREM TypeCorrect == Spec => []TypeOK
  BY InitType, NextType, PTL DEF Spec

-----------------------------------------------------------------------------
(* The lease of a running handler. *)

LEMMA InitLease == Init => RunnerHoldsLease
  BY DEF Init, RunnerHoldsLease, Running

LEMMA TickLease ==
    ASSUME TypeOK, RunnerHoldsLease, Tick PROVE RunnerHoldsLease'
<1> SUFFICES ASSUME NEW w \in Workers, NEW j \in Jobs, Running(w, j)', ~Overrun(w, j)'
             PROVE  /\ row'[j] # None /\ row'[j].owner = w
                    /\ row'[j].left >= 0 /\ row'[j].left = Ttl(j) - proc'[w].age
  BY DEF RunnerHoldsLease
<1>1. At(w, "running") /\ Running(w, j) /\ proc[w] \in Process /\ proc[w].age < HandlerMax
  <2>1. CASE At(w, "running")
    <3>1. proc[w] \in Process /\ proc'[w] = [proc[w] EXCEPT !.age = proc[w].age + 1]
      BY <2>1, ProcessType DEF Tick, At
    <3>2. proc'[w].job = proc[w].job
      BY <3>1 DEF Process
    <3>3. QED
      BY <2>1, <3>1, <3>2 DEF Tick, At, Running
  <2>2. CASE ~At(w, "running")
    BY <2>2 DEF Tick, At, Running
  <2>3. QED
    BY <2>1, <2>2
<1>2. proc'[w] = [proc[w] EXCEPT !.age = proc[w].age + 1] /\ proc[w].age \in Nat
  BY <1>1, JobLocksAssumption DEF Tick, Process
<1>3. proc'[w].age = proc[w].age + 1 /\ proc[w].age + 1 <= Ttl(j)
  <2>1. proc'[w].age = proc[w].age + 1
    BY <1>1, <1>2 DEF Process
  <2>2. ~(proc'[w].age > Ttl(j))
    BY DEF Overrun, Ttl
  <2> QED
    BY <1>2, <2>1, <2>2, TtlType
<1>4. /\ row[j] \in LockRow /\ row[j].owner = w
      /\ row[j].left = Ttl(j) - proc[w].age /\ row[j].left >= 1
  <2>1. ~Overrun(w, j)
    BY <1>2, <1>3, TtlType DEF Overrun
  <2>2. /\ row[j] \in LockRow /\ row[j].owner = w
        /\ row[j].left = Ttl(j) - proc[w].age
    BY <1>1, <2>1 DEF RunnerHoldsLease, TypeOK
  <2> QED
    BY <1>2, <1>3, <2>2, TtlType
<1>5. row'[j] = [row[j] EXCEPT !.left = row[j].left - 1]
  <2>1. row[j] # None /\ row[j].left \in Int
    BY <1>4, JobLocksAssumption DEF LockRow
  <2>2. ~Free(j)
    BY <1>4, <2>1 DEF Free, Expired
  <2>3. QED
    BY <2>2 DEF Tick, Free
<1>6. /\ row'[j].owner = w /\ row'[j].left = row[j].left - 1 /\ row'[j] \in LockRow
  BY <1>4, <1>5 DEF LockRow
<1>7. QED
  BY <1>2, <1>3, <1>4, <1>6, TtlType, JobLocksAssumption

\* An acquisition takes no row that is under a valid lease.
LEMMA AcquireLease ==
    ASSUME TypeOK, RunnerHoldsLease, NEW v \in Workers, Acquire(v) PROVE RunnerHoldsLease'
<1> DEFINE i == proc[v].job
<1>1. PICK o \in DbOutcomes(proc[v].up) :
        /\ row' = IF o.applied /\ Free(i) THEN [row EXCEPT ![i] = [owner |-> v, left |-> Ttl(i)]] ELSE row
        /\ proc' = [proc EXCEPT ![v] =
                      IF o.ok /\ Free(i) THEN [@ EXCEPT !.at = "running", !.age = 0]
                      ELSE [@ EXCEPT !.at = "skipping", !.up = o.up]]
  BY DEF Acquire
<1>2. proc[v] \in Process /\ i \in Jobs /\ proc[v].at = "acquiring" /\ (o.ok => o.applied)
  BY ProcessType, OutcomeType DEF Acquire, At
<1> SUFFICES ASSUME NEW w \in Workers, NEW j \in Jobs, Running(w, j)', ~Overrun(w, j)'
             PROVE  /\ row'[j] # None /\ row'[j].owner = w
                    /\ row'[j].left >= 0 /\ row'[j].left = Ttl(j) - proc'[w].age
  BY DEF RunnerHoldsLease
<1>3. CASE w = v
  <2>1. o.ok /\ Free(i) /\ proc'[v] = [proc[v] EXCEPT !.at = "running", !.age = 0]
    BY <1>1, <1>2, <1>3 DEF Running, Process, TypeOK
  <2>2. j = i /\ proc'[v].age = 0
    BY <1>2, <1>3, <2>1 DEF Running, Process
  <2>3. row'[j] = [owner |-> v, left |-> Ttl(j)]
    BY <1>1, <1>2, <2>1, <2>2 DEF TypeOK
  <2>4. row'[j] \in LockRow /\ row'[j].owner = v /\ row'[j].left = Ttl(j)
    BY <2>3, TtlType DEF LockRow
  <2>5. QED
    BY <1>3, <2>2, <2>4, TtlType, JobLocksAssumption
<1>4. CASE w # v
  <2>1. Running(w, j) /\ ~Overrun(w, j) /\ proc'[w] = proc[w]
    BY <1>1, <1>4 DEF Running, Overrun, Ttl, TypeOK
  <2>2. ~Free(j)
    <3>1. row[j] \in LockRow /\ row[j] # None /\ row[j].left >= 0
      BY <2>1 DEF RunnerHoldsLease, TypeOK
    <3>2. row[j].left \in Int
      BY <3>1 DEF LockRow
    <3>3. QED
      BY <3>1, <3>2 DEF Free, Expired
  <2>3. row'[j] = row[j]
    BY <1>1, <1>2, <2>2 DEF TypeOK
  <2>4. QED
    BY <2>1, <2>3 DEF RunnerHoldsLease, Ttl
<1>5. QED
  BY <1>3, <1>4

\* A release deletes the row of no other process.
LEMMA ReleaseLease ==
    ASSUME TypeOK, RunnerHoldsLease, NEW v \in Workers, Release(v) PROVE RunnerHoldsLease'
<1> DEFINE i == proc[v].job
<1>1. /\ \/ row' = row
         \/ row[i].owner = v /\ row' = [row EXCEPT ![i] = None]
      /\ proc' = [proc EXCEPT ![v] = None]
  BY DEF Release, End
<1> SUFFICES ASSUME NEW w \in Workers, NEW j \in Jobs, Running(w, j)', ~Overrun(w, j)'
             PROVE  /\ row'[j] # None /\ row'[j].owner = w
                    /\ row'[j].left >= 0 /\ row'[j].left = Ttl(j) - proc'[w].age
  BY DEF RunnerHoldsLease
<1>2. w # v /\ proc'[w] = proc[w] /\ Running(w, j) /\ ~Overrun(w, j)
  BY <1>1 DEF Running, Overrun, Ttl, TypeOK
<1>3. row[j].owner = w
  BY <1>2 DEF RunnerHoldsLease
<1>4. row'[j] = row[j]
  BY <1>1, <1>2, <1>3 DEF TypeOK
<1>5. QED
  BY <1>2, <1>4 DEF RunnerHoldsLease, Ttl

\* Steps that leave the rows alone and start no handler.
LEMMA QuietLease ==
    ASSUME TypeOK, RunnerHoldsLease, NEW v \in Workers, row' = row,
           \A w \in Workers \ {v} : proc'[w] = proc[w], ~At(v, "running")'
    PROVE  RunnerHoldsLease'
<1> SUFFICES ASSUME NEW w \in Workers, NEW j \in Jobs, Running(w, j)', ~Overrun(w, j)'
             PROVE  /\ row'[j] # None /\ row'[j].owner = w
                    /\ row'[j].left >= 0 /\ row'[j].left = Ttl(j) - proc'[w].age
  BY DEF RunnerHoldsLease
<1>1. w # v /\ proc'[w] = proc[w]
  BY DEF Running, At
<1>2. Running(w, j) /\ ~Overrun(w, j)
  BY <1>1 DEF Running, Overrun, Ttl
<1>3. QED
  BY <1>1, <1>2 DEF RunnerHoldsLease, Ttl

LEMMA NextLease ==
    ASSUME TypeOK, RunnerHoldsLease, [Next]_vars PROVE RunnerHoldsLease'
<1>1. CASE Tick
  BY <1>1, TickLease
<1>2. ASSUME NEW v \in Workers, NEW j \in Jobs, Start(v, j) PROVE RunnerHoldsLease'
  <2>1. PICK up \in BOOLEAN : proc' = [proc EXCEPT ![v] =
            [at |-> "acquiring", job |-> j, age |-> 0, up |-> up]]
    BY <1>2 DEF Start
  <2>2. ~At(v, "running")' /\ \A w \in Workers \ {v} : proc'[w] = proc[w]
    BY <2>1 DEF At, TypeOK
  <2>3. QED
    BY <1>2, <2>2, QuietLease DEF Start
<1>3. ASSUME NEW v \in Workers, Acquire(v) PROVE RunnerHoldsLease'
  BY <1>3, AcquireLease
<1>4. ASSUME NEW v \in Workers, LogSkip(v) \/ Crash(v) PROVE RunnerHoldsLease'
  <2>1. ~At(v, "running")' /\ \A w \in Workers \ {v} : proc'[w] = proc[w]
    BY <1>4 DEF LogSkip, Crash, End, At, TypeOK
  <2>2. QED
    BY <1>4, <2>1, QuietLease DEF LogSkip, Crash
<1>5. ASSUME NEW v \in Workers, Finish(v) \/ Log(v) PROVE RunnerHoldsLease'
  <2>1. proc[v] \in Process
    BY <1>5, ProcessType DEF Finish, Log, At
  <2>2. PICK o \in DbOutcomes(proc[v].up) :
          \/ proc' = [proc EXCEPT ![v] = [proc[v] EXCEPT !.at = "logging", !.age = 0, !.up = o.up]]
          \/ proc' = [proc EXCEPT ![v] = [proc[v] EXCEPT !.at = "releasing", !.up = o.up]]
    BY <1>5 DEF Finish, Log
  <2>3. PICK q : proc' = [proc EXCEPT ![v] = q] /\ q.at \in {"logging", "releasing"}
    <3>1. /\ [proc[v] EXCEPT !.at = "releasing"].at = "releasing"
          /\ \A d \in DbOutcomes(proc[v].up) :
                /\ [proc[v] EXCEPT !.at = "logging", !.age = 0, !.up = d.up].at = "logging"
                /\ [proc[v] EXCEPT !.at = "releasing", !.up = d.up].at = "releasing"
      BY <2>1 DEF Process
    <3> QED
      BY <2>2, <3>1
  <2>4. ~At(v, "running")' /\ \A w \in Workers \ {v} : proc'[w] = proc[w]
    BY <2>3 DEF At, TypeOK
  <2>5. QED
    BY <1>5, <2>4, QuietLease DEF Finish, Log
<1>6. ASSUME NEW v \in Workers, Release(v) PROVE RunnerHoldsLease'
  BY <1>6, ReleaseLease
<1>7. CASE UNCHANGED vars
  BY <1>7 DEF vars, RunnerHoldsLease, Running, Overrun, Ttl
<1>8. QED
  BY <1>1, <1>2, <1>3, <1>4, <1>5, <1>6, <1>7 DEF Next

\* Until it overruns, a running handler's own process holds a valid lease, with
\* exactly the time left that the handler has not used.
THEOREM LeaseHeld == Spec => []RunnerHoldsLease
<1>1. Init => RunnerHoldsLease
  BY InitLease
<1>2. TypeOK /\ RunnerHoldsLease /\ [Next]_vars => RunnerHoldsLease'
  BY NextLease
<1>3. QED
  BY <1>1, <1>2, TypeCorrect, PTL DEF Spec

\* A job runs in two processes at once only if one of them, running for longer
\* than its timeout and the buffer, has outlived its lease.
THEOREM SingleInstance == Spec => []OneInstance
<1>1. RunnerHoldsLease => OneInstance
  BY DEF RunnerHoldsLease, OneInstance
<1>2. QED
  BY <1>1, LeaseHeld, PTL

-----------------------------------------------------------------------------
(* Releases, with or without overrunning handlers. *)

\* No step removes the row of a process that was not about to release it.
LEMMA NextRelease ==
    ASSUME TypeOK, [Next]_vars, NEW j \in Jobs, row[j] # None, row'[j] = None
    PROVE  At(row[j].owner, "releasing") /\ proc[row[j].owner].job = j
<1>1. CASE Tick
  <2>1. ~Free(j) /\ row[j] \in LockRow
    BY <1>1 DEF Tick, Free, TypeOK
  <2>2. row'[j] = [row[j] EXCEPT !.left = row[j].left - 1]
    BY <1>1, <2>1 DEF Tick, Free
  <2>3. row'[j] \in LockRow
    BY <2>1, <2>2 DEF LockRow
  <2>4. QED
    BY <2>3, JobLocksAssumption
<1>2. ASSUME NEW v \in Workers, Acquire(v)
      PROVE  At(row[j].owner, "releasing") /\ proc[row[j].owner].job = j
  <2>1. proc[v].job \in Jobs
    BY <1>2, ProcessType DEF Acquire, At
  <2>2. [owner |-> v, left |-> Ttl(proc[v].job)] # None
    BY <2>1, TtlType, JobLocksAssumption DEF LockRow
  <2>3. QED
    BY <1>2, <2>2 DEF Acquire, TypeOK
<1>3. ASSUME NEW v \in Workers, Release(v)
      PROVE  At(row[j].owner, "releasing") /\ proc[row[j].owner].job = j
  <2>1. j = proc[v].job /\ row[j].owner = v
    BY <1>3 DEF Release, TypeOK
  <2>2. QED
    BY <1>3, <2>1 DEF Release
<1>4. CASE row' = row
  BY <1>4
<1>5. QED
  BY <1>1, <1>2, <1>3, <1>4 DEF Next, Start, LogSkip, Finish, Log, Crash, vars

\* A late or lost release takes away no other process's lock.
THEOREM OwnRelease == Spec => ReleasesOwnLock
<1>1. TypeOK /\ [Next]_vars =>
        [\A j \in Jobs : row[j] # None /\ row'[j] = None
            => At(row[j].owner, "releasing") /\ proc[row[j].owner].job = j]_vars
  BY NextRelease
<1>2. QED
  BY <1>1, TypeCorrect, PTL DEF Spec, ReleasesOwnLock
=============================================================================
