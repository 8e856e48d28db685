---------------------------- MODULE StorageWriter ----------------------------
(***************************************************************************)
(* storage_handoff's StorageWriter: the connection of one process, its     *)
(* prepared statements and its throttled reconnection.  Every public       *)
(* method holds mutex_ from beginning to end, so a call is one action.     *)
(*                                                                         *)
(* The clock counts 64-bit nanoseconds: times and their differences wrap   *)
(* at +-HalfRange.                                                         *)
(***************************************************************************)
EXTENDS Integers

CONSTANTS
    Statements,  (* the prepared statements of the process                  *)
    Refused,     (* those whose SQL the server does not accept              *)
    Interval,    (* five seconds                                            *)
    HalfRange,   (* 2^63                                                    *)
    MaxClock,    (* bound: ticks                                            *)
    MaxCalls     (* bound: calls                                            *)

ASSUME StorageWriterAssumption ==
    /\ Interval \in Nat /\ HalfRange \in Nat /\ MaxCalls \in Nat
    /\ MaxClock \in Nat /\ MaxClock < HalfRange

VARIABLES
    server,      (* is PostgreSQL reachable                                 *)
    clock,       (* steady_clock                                            *)
    connection,  (* conn_: null, open, broken (not noticed yet) or closed   *)
    ready,       (* the statements prepared on the connection               *)
    registered,  (* prepared_queries_                                       *)
    last,        (* last_reconnect_attempt_                                 *)
    calls,       (* number of calls made                                    *)
    attempts,    (* history: when ensure_connection tried to connect        *)
    stored,      (* history: the calls whose transaction was committed      *)
    reported     (* history: the calls that returned true or a result       *)

callVars == <<calls, stored, reported>>
vars == <<server, clock, connection, ready, registered, last, attempts, callVars>>

TimeMin == -HalfRange

\* What is left in 64 bits of the difference of two times.
Wrap(n) ==
    IF n >= HalfRange THEN n - 2 * HalfRange
    ELSE IF n < -HalfRange THEN n + 2 * HalfRange ELSE n

\* is_open() notices a lost connection only when it is used.
LooksOpen(c) == c \in {"open", "broken"}

\* connect(): a new connection with the registered statements, or no change.
Connected(c, r) ==
    {[c |-> c, r |-> r]}
    \cup (IF server = "up" THEN {[c |-> "open", r |-> registered \ Refused]} ELSE {})

Init ==
    /\ server \in {"up", "down"} /\ clock = 0
    /\ registered = {} /\ last = TimeMin
    /\ calls = 0 /\ stored = {} /\ reported = {} /\ attempts = {}
    /\ \E o \in Connected("null", {}) : connection = o.c /\ ready = o.r

-----------------------------------------------------------------------------
Tick ==
    /\ clock < MaxClock /\ clock' = clock + 1
    /\ UNCHANGED <<server, connection, ready, registered, last, attempts, callVars>>

\* The server restarts or the link fails: the connection is gone.
Lose ==
    /\ server' \in {"up", "down"}
    /\ connection' = IF connection = "open" THEN "broken" ELSE connection
    /\ UNCHANGED <<clock, ready, registered, last, attempts, callVars>>

Recover ==
    /\ server = "down" /\ server' = "up"
    /\ UNCHANGED <<clock, connection, ready, registered, last, attempts, callVars>>

\* prepare(): a failure is logged; the statement stays registered.
Prepare(s) ==
    /\ registered' = registered \cup {s}
    /\ ready' = IF connection = "open" /\ s \notin Refused THEN ready \cup {s} ELSE ready
    /\ connection' = IF connection = "broken" THEN "closed" ELSE connection
    /\ UNCHANGED <<server, clock, last, attempts, callVars>>

\* ensure_connection(): what connection and statements a call goes on with.
Due == Wrap(clock - last) >= Interval
Ensured ==
    IF LooksOpen(connection) \/ ~Due THEN {[c |-> connection, r |-> ready]}
    ELSE Connected(connection, ready)
EnsureConnection ==
    IF LooksOpen(connection) \/ ~Due THEN UNCHANGED <<last, attempts>>
    ELSE last' = clock /\ attempts' = attempts \cup {clock}

\* Mutant: reported when executed, before the commit.
Transaction_ReportFirst(e, s) ==
    IF e.c = "open" /\ s \in e.r
    THEN {[done |-> d, told |-> TRUE, c |-> "open"] : d \in BOOLEAN}
    ELSE {[done |-> FALSE, told |-> FALSE, c |-> e.c]}

\* The transaction of a call: committed and reported, and what is left of the
\* connection.  It may be lost before or after the commit.
Failed(done, c) == [done |-> done, told |-> FALSE, c |-> c]
Transaction(e, s) ==
    CASE e.c = "open" /\ s \in e.r ->
            {[done |-> TRUE, told |-> TRUE, c |-> "open"],
             Failed(FALSE, "open"), Failed(FALSE, "closed"), Failed(TRUE, "closed")}
      [] e.c = "broken" -> {Failed(FALSE, "closed")}
      [] OTHER          -> {Failed(FALSE, e.c)}

\* execute_prepared and the query_ methods: ensure, execute, commit.  Any
\* failure is reported as false, zero or an empty result.
Call(s) ==
    /\ calls < MaxCalls /\ calls' = calls + 1
    /\ EnsureConnection
    /\ \E e \in Ensured :
         \E o \in Transaction(e, s) :
            /\ connection' = o.c /\ ready' = e.r
            /\ stored' = IF o.done THEN stored \cup {calls'} ELSE stored
            /\ reported' = IF o.told THEN reported \cup {calls'} ELSE reported
    /\ UNCHANGED <<server, clock, registered>>

\* set_session_timezone: the same without a prepared statement; nothing is
\* stored, and no caller looks at the result.
SetTimezone ==
    /\ EnsureConnection
    /\ \E e \in Ensured :
         /\ connection' \in IF LooksOpen(e.c) THEN {e.c, "closed"} \ {"broken"} ELSE {e.c}
         /\ ready' = e.r
    /\ UNCHANGED <<server, clock, registered, callVars>>

Next ==
    \/ Tick \/ Lose \/ Recover \/ SetTimezone
    \/ \E s \in Statements : Prepare(s) \/ Call(s)

Spec == Init /\ [][Next]_vars

-----------------------------------------------------------------------------
(* Properties. *)

TypeOK ==
    /\ server \in {"up", "down"} /\ clock \in 0 .. MaxClock
    /\ connection \in {"null", "open", "broken", "closed"}
    /\ ready \subseteq registered \ Refused /\ registered \subseteq Statements
    /\ last \in TimeMin .. MaxClock
    /\ calls \in 0 .. MaxCalls /\ attempts \subseteq 0 .. MaxClock
    /\ stored \subseteq 1 .. calls /\ reported \subseteq 1 .. calls

\* What a call reports as done is in the database; what it reports as failed
\* may be there as well (a commit whose reply was lost).
ReportedStored == reported \subseteq stored

\* What a process can use: on a live connection every registered statement
\* that the server accepts is prepared.
StatementsReady == connection = "open" => ready = registered \ Refused

\* "or we will retry during insert", "Throttle to 1 attempt every 5 seconds": a
\* call without a connection tries to get one if nobody did for five seconds, the
\* constructor (at 0) included.
RetriesWhenDue ==
    [][(/\ calls' # calls /\ ~LooksOpen(connection)
        /\ \A t \in attempts \cup {0} : clock - t >= Interval) => clock \in attempts']_vars
=============================================================================
