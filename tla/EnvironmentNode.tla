--------------------------- MODULE EnvironmentNode ---------------------------
(***************************************************************************)
(* environment_condition_node on top of its StorageWriter: the main loop   *)
(* records the last temperature, humidity and light every few seconds, the *)
(* subscriber thread stores readings and logs when one leaves its comfort  *)
(* range, the estimator thread guesses the light from camera frames.  Each *)
(* row is a call of the storage client, and its result is not looked at.   *)
(*                                                                         *)
(* A value is inside or outside its range, a light level bright or dark.   *)
(* The process' memory is that of one life: a restart begins with NodeInit.*)
(***************************************************************************)
EXTENDS StorageWriter, Sequences, FiniteSets, Functions

CONSTANTS
    Order,       (* the sensors, in the order tick records them             *)
    Insert,      (* the statement of emit_signal                            *)
    Every,       (* tick_interval_ms                                        *)
    Nothing,     (* an optional without a value                             *)
    MaxHeard     (* bound: readings                                         *)

Sensors == {Order[i] : i \in DOMAIN Order}
Values == {"inside", "outside"}
Lights == {"bright", "dark"}

ASSUME EnvironmentAssumption ==
    /\ Order \in Seq(Sensors) /\ Insert \in Statements
    /\ Every \in Nat /\ MaxHeard \in Nat
    /\ Nothing \notin Values /\ Nothing \notin Lights

VARIABLES
    latest,      (* latest_temp_, latest_hum_ with their observed times     *)
    crossed,     (* temp_crossed_, hum_crossed_                             *)
    sub,         (* the subscriber thread: its place in an update_ method,  *)
                 (* which holds data_mutex_, and its arguments              *)
    lux,         (* the estimator's latest_lux_                             *)
    tick,        (* the main thread: its place in tick, and tick's locals   *)
    lastWrite,   (* last_write_time_ms_                                     *)
    heard,       (* history: the readings of each sensor                    *)
    rows         (* history: the rows emit_signal was called for            *)

nodeVars == <<latest, crossed, sub, lux, tick, lastWrite, heard, rows>>
storage  == <<clock, server, connection, ready, registered, last, attempts, callVars>>
allVars  == <<storage, nodeVars>>

Idle  == [at |-> "idle"]
Unset == [value |-> Nothing, at |-> 0]

\* system_clock; 0 stands for "never written".
Time == clock + 1

NodeInit ==
    /\ Init
    /\ latest = [s \in Sensors |-> Unset] /\ crossed = [s \in Sensors |-> FALSE]
    /\ sub = Idle /\ tick = Idle
    /\ lux = Nothing /\ lastWrite = 0
    /\ heard = [s \in Sensors |-> <<>>] /\ rows = {}

-----------------------------------------------------------------------------
\* emit_signal: one call of the storage client.
Emit(kind, sensor, value, at) ==
    /\ Call(Insert)
    /\ rows' = rows \cup {[call |-> calls', kind |-> kind, sensor |-> sensor,
                           value |-> value, at |-> at]}

\* main: the statement is prepared before any thread is started.
Running == Insert \in registered
Prepared == ~Running /\ Prepare(Insert) /\ UNCHANGED nodeVars

World == (Tick \/ Lose \/ Recover) /\ UNCHANGED nodeVars

-----------------------------------------------------------------------------
(* The subscriber thread.  data_mutex_ is locked from the first assignment  *)
(* of an update_ method to the end of its insert.                           *)

Readings == FoldFunction(LAMBDA q, n : n + Len(q), 0, heard)

\* A message carries its publisher's time, or is stamped when it arrives.
Stamps == {clock, Time}

Hear(s) ==
    /\ Running /\ sub = Idle /\ Readings < MaxHeard
    /\ \E v \in Values, t \in Stamps :
        /\ latest' = [latest EXCEPT ![s].value = v]
        /\ sub' = [at |-> "time", sensor |-> s, value |-> v, time |-> t]
        /\ heard' = [heard EXCEPT ![s] = Append(@, [value |-> v, at |-> t])]
    /\ UNCHANGED <<storage, crossed, lux, tick, lastWrite, rows>>

Stamp ==
    /\ sub.at = "time"
    /\ latest' = [latest EXCEPT ![sub.sensor].at = sub.time]
    /\ sub' = [sub EXCEPT !.at = "cross"]
    /\ UNCHANGED <<storage, crossed, lux, tick, lastWrite, heard, rows>>

\* Logged when the value was inside before; the flag is set, whatever becomes
\* of the insert.
Leaves_Again(s, v) == v = "outside"             \* mutant: the flag is not tested
Leaves(s, v) == v = "outside" /\ ~crossed[s]
Cross ==
    /\ sub.at = "cross"
    /\ crossed' = [crossed EXCEPT ![sub.sensor] = sub.value = "outside"]
    /\ IF Leaves(sub.sensor, sub.value)
       THEN Emit("crossing", sub.sensor, sub.value, sub.time)
       ELSE UNCHANGED <<storage, rows>>
    /\ sub' = Idle
    /\ UNCHANGED <<latest, lux, tick, lastWrite, heard>>

\* update_light_level: no lock, no memory.
HearLight ==
    /\ Running /\ sub = Idle
    /\ \E v \in Lights, t \in Stamps : Emit("light", Nothing, v, t)
    /\ UNCHANGED <<latest, crossed, sub, lux, tick, lastWrite, heard>>

\* The estimator thread, with a frame it accepts.  A level is never unset.
Estimate(v) ==
    /\ Running /\ lux' = v
    /\ UNCHANGED <<storage, latest, crossed, sub, tick, lastWrite, heard, rows>>

-----------------------------------------------------------------------------
(* The main loop: tick.                                                     *)

Unlocked_Always == TRUE                         \* mutant: no lock_guard in tick
Unlocked == sub = Idle

Begin ==
    /\ Running /\ tick = Idle /\ Unlocked
    /\ lastWrite = 0 \/ Time >= lastWrite + Every
    /\ tick' = [at |-> 1, now |-> Time, seen |-> latest, wrote |-> FALSE]
    /\ UNCHANGED <<storage, latest, crossed, sub, lux, lastWrite, heard, rows>>

Recording == tick # Idle /\ tick.at <= Len(Order)
Seen == tick.seen[Order[tick.at]]

\* A sensor that is silent is recorded again and again, with its old time.
Record ==
    /\ Recording
    /\ IF Seen.value = Nothing
       THEN /\ tick' = [tick EXCEPT !.at = @ + 1]
            /\ UNCHANGED <<storage, rows>>
       ELSE /\ Emit("reading", Order[tick.at], Seen.value, Seen.at)
            /\ tick' = [tick EXCEPT !.at = @ + 1, !.wrote = TRUE]
    /\ UNCHANGED <<latest, crossed, sub, lux, lastWrite, heard>>

Done(wrote) == tick' = Idle /\ lastWrite' = IF wrote THEN tick.now ELSE lastWrite

NoLight ==
    /\ tick # Idle /\ tick.at = Len(Order) + 1 /\ lux = Nothing
    /\ Done(tick.wrote)
    /\ UNCHANGED <<storage, latest, crossed, sub, lux, heard, rows>>

\* The estimate, however old, with the time of this tick; then light_threshold
\* if it is dark.
Light ==
    /\ tick # Idle /\ tick.at = Len(Order) + 1 /\ lux # Nothing
    /\ Emit("light", Nothing, lux, tick.now)
    /\ IF lux = "dark"
       THEN tick' = [tick EXCEPT !.at = @ + 1] /\ UNCHANGED lastWrite
       ELSE Done(TRUE)
    /\ UNCHANGED <<latest, crossed, sub, lux, heard>>
Dark ==
    /\ tick # Idle /\ tick.at = Len(Order) + 2
    /\ Emit("threshold", Nothing, "dark", tick.now)
    /\ Done(TRUE)
    /\ UNCHANGED <<latest, crossed, sub, lux, heard>>

NodeNext ==
    \/ World \/ Prepared
    \/ \E s \in Sensors : Hear(s)
    \/ Stamp \/ Cross \/ HearLight
    \/ \E v \in Lights : Estimate(v)
    \/ Begin \/ Record \/ NoLight \/ Light \/ Dark

NodeSpec == NodeInit /\ [][NodeNext]_allVars

-----------------------------------------------------------------------------
\* Every temperature or humidity the node records is one it heard, with the time
\* of that very reading, although the subscriber replaces both while the main
\* loop records them; and what it logs as a crossing was outside.
RecordedAsHeard ==
    \A r \in rows :
        /\ r.kind \in {"reading", "crossing"} =>
            \E i \in DOMAIN heard[r.sensor] : heard[r.sensor][i] = [value |-> r.value, at |-> r.at]
        /\ r.kind = "crossing" => r.value = "outside"

\* Each time a sensor leaves its range the node inserts one crossing: none is
\* missed between two ticks, and none is repeated for a reading that is outside
\* as well, for a tick, or after an insert that failed.
Excursions(q) ==
    Cardinality({i \in DOMAIN q : q[i].value = "outside" /\ (i = 1 \/ q[i - 1].value = "inside")})
Crossings(s) == {r \in rows : r.kind = "crossing" /\ r.sensor = s}
CrossingsLogged ==
    sub = Idle => \A s \in Sensors : Cardinality(Crossings(s)) = Excursions(heard[s])
=============================================================================
