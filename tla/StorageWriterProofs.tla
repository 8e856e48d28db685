------------------------ MODULE StorageWriterProofs ------------------------
(* Theorems about StorageWriter for all statements, intervals and clocks, and *)
(* about the environment node that calls it.                                 *)
EXTENDS EnvironmentNode, FiniteSetTheorems, TLAPS

\* The strengthening behind all of it: the time of the last attempt is still
\* the value the constructor gave it.
NeverTried == last = TimeMin /\ attempts = {}

\* now - time_point::min() wraps to a negative duration.
LEMMA OverflowNeverDue == ASSUME TypeOK, last = TimeMin PROVE ~Due
<1>1. clock \in Nat /\ clock <= MaxClock /\ clock - last = clock + HalfRange
  BY StorageWriterAssumption DEF TypeOK, TimeMin
<1>2. Wrap(clock - last) = clock - HalfRange
  BY <1>1, StorageWriterAssumption DEF Wrap
<1>3. QED
  BY <1>1, <1>2, StorageWriterAssumption DEF Due

\* So a call goes on with the connection it finds.
LEMMA EnsuredAsFound ==
    ASSUME TypeOK, NeverTried, EnsureConnection
    PROVE  /\ Ensured = {[c |-> connection, r |-> ready]}
           /\ UNCHANGED <<last, attempts>>
  BY OverflowNeverDue DEF Ensured, EnsureConnection, NeverTried

\* What a transaction can leave behind.
LEMMA TransactionEffect ==
    ASSUME NEW c \in {"null", "open", "broken", "closed"}, NEW r, NEW s,
           NEW o \in Transaction([c |-> c, r |-> r], s)
    PROVE  /\ o.done \in BOOLEAN /\ o.told \in BOOLEAN /\ (o.told => o.done)
           /\ o.c \in {"null", "open", "broken", "closed"}
           /\ o.c = "open" => c = "open"
           /\ ~LooksOpen(c) => o.c = c
<1>1. \/ o = [done |-> TRUE, told |-> TRUE, c |-> "open"] /\ c = "open"
      \/ o = Failed(FALSE, "open") /\ c = "open"
      \/ o \in {Failed(FALSE, "closed"), Failed(TRUE, "closed")} /\ LooksOpen(c)
      \/ o = Failed(FALSE, c) /\ c # "broken"
  BY DEF Transaction, LooksOpen
<1>2. ASSUME NEW done \in BOOLEAN, NEW d, o = Failed(done, d)
      PROVE  o.done = done /\ o.told = FALSE /\ o.c = d
  BY <1>2 DEF Failed
<1>3. CASE o = [done |-> TRUE, told |-> TRUE, c |-> "open"] /\ c = "open"
  BY <1>3
<1>4. CASE \/ o = Failed(FALSE, "open") /\ c = "open"
           \/ o = Failed(FALSE, c) /\ c # "broken"
  <2>1. o.done = FALSE /\ o.told = FALSE /\ o.c = c
    BY <1>2, <1>4
  <2>2. QED
    BY <2>1
<1>5. CASE o \in {Failed(FALSE, "closed"), Failed(TRUE, "closed")} /\ LooksOpen(c)
  <2>1. PICK d \in BOOLEAN : o = Failed(d, "closed")
    BY <1>5
  <2>2. o.done = d /\ o.told = FALSE /\ o.c = "closed"
    BY <1>2, <2>1
  <2>3. QED
    BY <1>5, <2>2
<1>6. QED
  BY <1>1, <1>3, <1>4, <1>5

-----------------------------------------------------------------------------
Inv == TypeOK /\ NeverTried /\ ReportedStored /\ StatementsReady

LEMMA InitInv == Init => Inv
<1> SUFFICES ASSUME Init PROVE Inv
  OBVIOUS
<1>1. PICK o \in Connected("null", {}) : connection = o.c /\ ready = o.r
  BY DEF Init
<1>2. \/ connection = "null" /\ ready = {}
      \/ connection = "open" /\ ready = registered \ Refused
  BY <1>1 DEF Connected
<1>3. QED
  BY <1>2, StorageWriterAssumption
  DEF Init, Inv, TypeOK, NeverTried, ReportedStored, StatementsReady, TimeMin

\* A call changes the connection and the histories as its transaction says.
LEMMA CallEffect ==
    ASSUME TypeOK, NeverTried, NEW s \in Statements, Call(s)
    PROVE  \E o \in Transaction([c |-> connection, r |-> ready], s) :
             /\ connection' = o.c /\ ready' = ready
             /\ stored' = IF o.done THEN stored \cup {calls'} ELSE stored
             /\ reported' = IF o.told THEN reported \cup {calls'} ELSE reported
             /\ UNCHANGED <<last, attempts, server, clock, registered>>
<1>1. Ensured = {[c |-> connection, r |-> ready]} /\ UNCHANGED <<last, attempts>>
  BY EnsuredAsFound DEF Call
<1>2. PICK e \in Ensured : \E o \in Transaction(e, s) :
            /\ connection' = o.c /\ ready' = e.r
            /\ stored' = IF o.done THEN stored \cup {calls'} ELSE stored
            /\ reported' = IF o.told THEN reported \cup {calls'} ELSE reported
  BY DEF Call
<1>3. e = [c |-> connection, r |-> ready] /\ e.r = ready
  BY <1>1, <1>2
<1>4. QED
  BY <1>1, <1>2, <1>3 DEF Call

\* Setting the time zone can only find out that the connection is lost.
LEMMA TimezoneEffect ==
    ASSUME TypeOK, NeverTried, SetTimezone
    PROVE  /\ connection' \in {connection, "closed"} /\ ready' = ready
           /\ ~LooksOpen(connection) => connection' = connection
           /\ UNCHANGED <<last, attempts, server, clock, registered, callVars>>
<1>1. Ensured = {[c |-> connection, r |-> ready]} /\ UNCHANGED <<last, attempts>>
  BY EnsuredAsFound DEF SetTimezone
<1>2. /\ connection' \in IF LooksOpen(connection)
                         THEN {connection, "closed"} \ {"broken"} ELSE {connection}
      /\ ready' = ready
  BY <1>1 DEF SetTimezone
<1>3. QED
  BY <1>1, <1>2 DEF SetTimezone

LEMMA CallInv == ASSUME Inv, NEW s \in Statements, Call(s) PROVE Inv'
<1>1. PICK o \in Transaction([c |-> connection, r |-> ready], s) :
             /\ connection' = o.c /\ ready' = ready
             /\ stored' = IF o.done THEN stored \cup {calls'} ELSE stored
             /\ reported' = IF o.told THEN reported \cup {calls'} ELSE reported
             /\ UNCHANGED <<last, attempts, server, clock, registered>>
  BY CallEffect DEF Inv
<1>2. /\ o.done \in BOOLEAN /\ o.told \in BOOLEAN /\ (o.told => o.done)
      /\ o.c \in {"null", "open", "broken", "closed"}
      /\ o.c = "open" => connection = "open"
  BY TransactionEffect DEF Inv, TypeOK
<1>3. calls' = calls + 1 /\ calls' \in 0 .. MaxCalls /\ calls' \in 1 .. calls'
  BY StorageWriterAssumption DEF Call, Inv, TypeOK
<1>4. stored' \subseteq 1 .. calls' /\ reported' \subseteq 1 .. calls'
  BY <1>1, <1>3, StorageWriterAssumption DEF Inv, TypeOK
<1>5. reported' \subseteq stored'
  BY <1>1, <1>2 DEF Inv, ReportedStored
<1>6. QED
  BY <1>1, <1>2, <1>3, <1>4, <1>5
  DEF Inv, TypeOK, NeverTried, ReportedStored, StatementsReady

LEMMA NextInv == Inv /\ [Next]_vars => Inv'
<1> SUFFICES ASSUME Inv, [Next]_vars PROVE Inv'
  OBVIOUS
<1> USE DEF callVars
<1>1. CASE Tick
  BY <1>1, StorageWriterAssumption
  DEF Tick, Inv, TypeOK, NeverTried, ReportedStored, StatementsReady
<1>2. CASE Lose
  BY <1>2 DEF Lose, Inv, TypeOK, NeverTried, ReportedStored, StatementsReady
<1>3. CASE Recover
  BY <1>3 DEF Recover, Inv, TypeOK, NeverTried, ReportedStored, StatementsReady
<1>4. ASSUME NEW s \in Statements, Prepare(s) PROVE Inv'
  <2>1. ready' \subseteq registered' \ Refused /\ registered' \subseteq Statements
    BY <1>4 DEF Prepare, Inv, TypeOK
  <2>2. connection' = "open" => ready' = registered' \ Refused
    BY <1>4 DEF Prepare, Inv, StatementsReady
  <2>3. QED
    BY <1>4, <2>1, <2>2 DEF Prepare, Inv, TypeOK, NeverTried, ReportedStored, StatementsReady
<1>5. ASSUME NEW s \in Statements, Call(s) PROVE Inv'
  BY <1>5, CallInv
<1>6. CASE SetTimezone
  <2>1. /\ connection' \in {connection, "closed"} /\ ready' = ready
        /\ UNCHANGED <<last, attempts, server, clock, registered, callVars>>
    BY <1>6, TimezoneEffect DEF Inv
  <2>2. QED
    BY <2>1 DEF Inv, TypeOK, NeverTried, ReportedStored, StatementsReady
<1>7. CASE UNCHANGED vars
  BY <1>7 DEF vars, Inv, TypeOK, NeverTried, ReportedStored, StatementsReady
<1>8. QED
  BY <1>1, <1>2, <1>3, <1>4, <1>5, <1>6, <1>7 DEF Next

\* The invariant: well-typed states, no attempt ever made, nothing reported
\* that is not stored, every accepted statement prepared on a live connection.
THEOREM Invariance == Spec => []Inv
  BY InitInv, NextInv, PTL DEF Spec

\* Every reachable state is well typed.
THEOREM TypeCorrect == Spec => []TypeOK
<1>1. Inv => TypeOK
  BY DEF Inv
<1>2. QED
  BY <1>1, Invariance, PTL

\* What a call reports as done is in the database.
THEOREM ReportsTrue == Spec => []ReportedStored
<1>1. Inv => ReportedStored
  BY DEF Inv
<1>2. QED
  BY <1>1, Invariance, PTL

\* A live connection has every registered statement.
THEOREM StatementsPrepared == Spec => []StatementsReady
<1>1. Inv => StatementsReady
  BY DEF Inv
<1>2. QED
  BY <1>1, Invariance, PTL

LostStaysLost == [][~LooksOpen(connection) => connection' = connection]_vars

\* The retry the comments of storage_handoff.cpp speak of never comes, and no
\* lost connection is ever reopened: the overflow makes the reconnection code
\* unreachable, whatever the interval and however long the process runs.
THEOREM NoReconnect == Spec => LostStaysLost
<1>1. Inv /\ [Next]_vars => [~LooksOpen(connection) => connection' = connection]_vars
  <2> SUFFICES ASSUME Inv, [Next]_vars, ~LooksOpen(connection)
               PROVE  connection' = connection
    OBVIOUS
  <2>1. ASSUME NEW s \in Statements, Call(s) PROVE connection' = connection
    <3>1. PICK o \in Transaction([c |-> connection, r |-> ready], s) : connection' = o.c
      BY <2>1, CallEffect DEF Inv
    <3>2. o.c = connection
      BY TransactionEffect DEF Inv, TypeOK
    <3>3. QED
      BY <3>1, <3>2
  <2>2. QED
    BY <2>1, TimezoneEffect
    DEF Inv, Next, vars, Tick, Lose, Recover, Prepare, LooksOpen
<1>2. QED
  BY <1>1, Invariance, PTL DEF Spec, LostStaysLost

-----------------------------------------------------------------------------
(* The environment node.                                                      *)

\* Every step of the node is a step of its storage client or leaves it alone.
LEMMA NodeStep == NodeNext => [Next]_vars
<1> SUFFICES ASSUME NodeNext PROVE [Next]_vars
  OBVIOUS
<1> USE EnvironmentAssumption
<1>1. ASSUME NEW kind, NEW sensor, NEW value, NEW at, Emit(kind, sensor, value, at) PROVE Next
  BY <1>1 DEF Emit, Next
<1>2. ASSUME UNCHANGED storage PROVE UNCHANGED vars
  BY <1>2 DEF storage, vars
<1>3. CASE World \/ Prepared
  BY <1>3 DEF World, Prepared, Next
<1>4. CASE \E s \in Sensors : Hear(s)
  BY <1>2, <1>4 DEF Hear
<1>5. CASE Stamp
  BY <1>2, <1>5 DEF Stamp
<1>6. CASE Cross
  BY <1>1, <1>2, <1>6 DEF Cross
<1>7. CASE HearLight
  BY <1>1, <1>7 DEF HearLight
<1>8. CASE \E v \in Lights : Estimate(v)
  BY <1>2, <1>8 DEF Estimate
<1>9. CASE Begin
  BY <1>2, <1>9 DEF Begin
<1>10. CASE Record
  BY <1>1, <1>2, <1>10 DEF Record
<1>11. CASE NoLight
  BY <1>2, <1>11 DEF NoLight
<1>12. CASE Light \/ Dark
  BY <1>1, <1>12 DEF Light, Dark
<1>13. QED
  BY <1>3, <1>4, <1>5, <1>6, <1>7, <1>8, <1>9, <1>10, <1>11, <1>12 DEF NodeNext

\* The node is one of the callers the storage client was modelled for: what
\* holds of its calls under any caller holds of the node's.
THEOREM NodeIsACaller == NodeSpec => Spec
<1>1. NodeInit => Init
  BY DEF NodeInit
<1>2. [NodeNext]_allVars => [Next]_vars
  <2>1. UNCHANGED allVars => UNCHANGED vars
    BY DEF allVars, storage, vars
  <2>2. QED
    BY <2>1, NodeStep
<1>3. QED
  BY <1>1, <1>2, PTL DEF NodeSpec, Spec

\* A value and a time that were heard together, of the same sensor.
Known(h, s, value, at) ==
    s \in Sensors /\ \E i \in DOMAIN h[s] : h[s][i] = [value |-> value, at |-> at]

Pairs == [value : Values \cup {Nothing}, at : Int]
Subs == [at : {"time", "cross"}, sensor : Sensors, value : Values, time : Int]
Ticks == [at : Nat \ {0}, now : Int, seen : [Sensors -> Pairs], wrote : BOOLEAN]

NodeTyped ==
    /\ latest \in [Sensors -> Pairs]
    /\ heard \in [Sensors -> Seq([value : Values, at : Int])]
    /\ sub # Idle => sub \in Subs
    /\ tick # Idle => tick \in Ticks

\* The pair in memory was heard, but for a value whose time is not stored yet;
\* then the subscriber holds the lock and the main loop cannot copy it.
LatestHeard ==
    \A s \in Sensors : latest[s].value # Nothing =>
        IF sub.at = "time" /\ sub.sensor = s THEN latest[s].value = sub.value
        ELSE Known(heard, s, latest[s].value, latest[s].at)
SubHeard == sub # Idle => Known(heard, sub.sensor, sub.value, sub.time)
SeenHeard ==
    tick # Idle => \A s \in Sensors : tick.seen[s].value # Nothing =>
                                     Known(heard, s, tick.seen[s].value, tick.seen[s].at)
RowHeard(h, r) ==
    /\ r.kind \in {"reading", "crossing"} => Known(h, r.sensor, r.value, r.at)
    /\ r.kind = "crossing" => r.value = "outside"

NodeInv ==
    /\ NodeTyped /\ LatestHeard /\ SubHeard /\ SeenHeard
    /\ \A r \in rows : RowHeard(heard, r)

LEMMA NodeInitInv == NodeInit => NodeInv
  BY EnvironmentAssumption
  DEF NodeInit, NodeInv, NodeTyped, LatestHeard, SubHeard, SeenHeard, Idle, Unset, Pairs

\* What was heard stays heard, and the next reading is heard too.
LEMMA AppendHears ==
    ASSUME NodeTyped, NEW t \in Sensors, NEW p \in [value : Values, at : Int],
           heard' = [heard EXCEPT ![t] = Append(@, p)]
    PROVE  /\ heard' \in [Sensors -> Seq([value : Values, at : Int])]
           /\ \A s \in Sensors : \A v, a : Known(heard, s, v, a) => Known(heard', s, v, a)
           /\ Known(heard', t, p.value, p.at)
<1>1. heard \in [Sensors -> Seq([value : Values, at : Int])]
  BY DEF NodeTyped
<1>2. \A s \in Sensors : \A i \in DOMAIN heard[s] :
        i \in DOMAIN heard'[s] /\ heard'[s][i] = heard[s][i]
  <2> SUFFICES ASSUME NEW s \in Sensors, NEW i \in DOMAIN heard[s]
               PROVE  i \in DOMAIN heard'[s] /\ heard'[s][i] = heard[s][i]
    OBVIOUS
  <2>1. heard[s] \in Seq([value : Values, at : Int])
    BY <1>1
  <2>2. CASE s = t
    BY <2>1, <2>2, <1>1
  <2>3. CASE s # t
    BY <2>3, <1>1
  <2>4. QED
    BY <2>2, <2>3
<1>3. /\ heard[t] \in Seq([value : Values, at : Int])
      /\ heard'[t] = Append(heard[t], p)
  BY <1>1
<1>4. LET n == Len(heard[t]) + 1 IN n \in DOMAIN heard'[t] /\ heard'[t][n] = p
  BY <1>3
<1>5. p = [value |-> p.value, at |-> p.at]
  OBVIOUS
<1>6. heard' \in [Sensors -> Seq([value : Values, at : Int])]
  <2>1. Append(heard[t], p) \in Seq([value : Values, at : Int])
    BY <1>3
  <2>2. QED
    BY <1>1, <2>1
<1>7. QED
  BY <1>2, <1>4, <1>5, <1>6 DEF Known

\* A step that leaves memory and thread alone, and whose rows, if any, were heard.
LEMMA RowsGrow ==
    ASSUME NodeInv, NEW kind, NEW sensor, NEW value, NEW at, UNCHANGED heard,
           Emit(kind, sensor, value, at) \/ UNCHANGED rows,
           kind \in {"reading", "crossing"} => Known(heard, sensor, value, at),
           kind = "crossing" => value = "outside"
    PROVE  \A r \in rows' : RowHeard(heard', r)
<1>1. \A s, v, a : Known(heard, s, v, a) => Known(heard', s, v, a)
  BY DEF Known
<1>2. \A r \in rows : RowHeard(heard', r)
  BY <1>1 DEF NodeInv, RowHeard
<1>3. CASE UNCHANGED rows
  BY <1>2, <1>3
<1>4. CASE Emit(kind, sensor, value, at)
  <2> DEFINE new == [call |-> calls', kind |-> kind, sensor |-> sensor, value |-> value, at |-> at]
  <2>1. rows' = rows \cup {new}
    BY <1>4 DEF Emit
  <2>2. RowHeard(heard', new)
    BY <1>1 DEF RowHeard
  <2> HIDE DEF new
  <2>3. QED
    BY <1>2, <2>1, <2>2
<1>5. QED
  BY <1>3, <1>4

LEMMA NodeNextInv == TypeOK /\ NodeInv /\ [NodeNext]_allVars => NodeInv'
<1> SUFFICES ASSUME TypeOK, NodeInv, [NodeNext]_allVars PROVE NodeInv'
  OBVIOUS
<1> USE EnvironmentAssumption
<1> DEFINE Memory == LatestHeard /\ SubHeard /\ SeenHeard
<1>0. /\ NodeTyped /\ LatestHeard /\ SubHeard /\ SeenHeard
      /\ \A r \in rows : RowHeard(heard, r)
      /\ clock \in Nat
  BY StorageWriterAssumption DEF NodeInv, TypeOK
<1>1. ASSUME UNCHANGED heard PROVE \A s, v, a : Known(heard, s, v, a) => Known(heard', s, v, a)
  BY <1>1 DEF Known
<1>2. ASSUME UNCHANGED <<latest, sub, tick, heard>> PROVE NodeTyped' /\ Memory'
  BY <1>0, <1>1, <1>2 DEF NodeTyped, LatestHeard, SubHeard, SeenHeard
<1>3. ASSUME UNCHANGED <<rows, heard>> PROVE \A r \in rows' : RowHeard(heard', r)
  BY <1>0, <1>1, <1>3 DEF RowHeard
<1>4. CASE World \/ Prepared \/ (\E v \in Lights : Estimate(v)) \/ UNCHANGED allVars
  <2>1. UNCHANGED <<latest, sub, tick, heard, rows>>
    BY <1>4 DEF World, Prepared, Estimate, allVars, nodeVars
  <2>2. QED
    BY <1>2, <1>3, <2>1 DEF NodeInv
<1>5. ASSUME NEW s \in Sensors, Hear(s) PROVE NodeInv'
  <2>1. PICK v \in Values, t \in Stamps :
            /\ latest' = [latest EXCEPT ![s].value = v]
            /\ sub' = [at |-> "time", sensor |-> s, value |-> v, time |-> t]
            /\ heard' = [heard EXCEPT ![s] = Append(@, [value |-> v, at |-> t])]
    BY <1>5 DEF Hear
  <2>2. sub = Idle /\ UNCHANGED <<tick, rows>> /\ t \in Int
    BY <1>0, <1>5 DEF Hear, Stamps, Time
  <2>3. /\ heard' \in [Sensors -> Seq([value : Values, at : Int])]
        /\ \A u \in Sensors : \A w, a : Known(heard, u, w, a) => Known(heard', u, w, a)
        /\ Known(heard', s, v, t)
    <3> DEFINE p == [value |-> v, at |-> t]
    <3>1. p \in [value : Values, at : Int] /\ p.value = v /\ p.at = t
      BY <2>2
    <3>2. heard' = [heard EXCEPT ![s] = Append(@, p)]
      BY <2>1
    <3> HIDE DEF p
    <3>3. QED
      BY <1>0, <3>1, <3>2, AppendHears
  <2>4. NodeTyped'
    BY <1>0, <2>1, <2>2, <2>3 DEF NodeTyped, Pairs, Subs
  <2>5. LatestHeard'
    <3> SUFFICES ASSUME NEW u \in Sensors, latest'[u].value # Nothing
                 PROVE  IF sub'.at = "time" /\ sub'.sensor = u THEN latest'[u].value = sub'.value
                        ELSE Known(heard', u, latest'[u].value, latest'[u].at)
      BY DEF LatestHeard
    <3>1. CASE u = s
      BY <1>0, <2>1, <3>1 DEF NodeTyped, Pairs
    <3>2. CASE u # s
      <4>1. latest'[u] = latest[u] /\ sub'.sensor # u
        BY <1>0, <2>1, <3>2 DEF NodeTyped
      <4>2. Known(heard, u, latest[u].value, latest[u].at)
        BY <1>0, <2>2, <4>1 DEF LatestHeard, Idle
      <4>3. QED
        BY <2>3, <4>1, <4>2
    <3>3. QED
      BY <3>1, <3>2
  <2>6. SubHeard'
    BY <2>1, <2>3 DEF SubHeard
  <2>7. SeenHeard'
    BY <1>0, <2>2, <2>3 DEF SeenHeard
  <2>8. \A r \in rows' : RowHeard(heard', r)
    <3>1. \A u, w, a : Known(heard, u, w, a) => u \in Sensors
      BY DEF Known
    <3>2. QED
      BY <1>0, <2>2, <2>3, <3>1 DEF RowHeard
  <2>9. QED
    BY <2>4, <2>5, <2>6, <2>7, <2>8 DEF NodeInv
<1>6. CASE Stamp
  <2>1. /\ sub.at = "time" /\ sub # Idle
        /\ latest' = [latest EXCEPT ![sub.sensor].at = sub.time]
        /\ sub' = [sub EXCEPT !.at = "cross"]
        /\ UNCHANGED <<tick, heard, rows>>
    BY <1>6 DEF Stamp, Idle
  <2>2. sub \in Subs
    BY <1>0, <2>1 DEF NodeTyped
  <2>3. NodeTyped'
    <3>1. sub' \in Subs
      BY <2>1, <2>2 DEF Subs
    <3>2. latest' \in [Sensors -> Pairs]
      <4>1. [latest[sub.sensor] EXCEPT !.at = sub.time] \in Pairs
        BY <1>0, <2>2 DEF NodeTyped, Pairs, Subs
      <4>2. latest' = [latest EXCEPT ![sub.sensor] = [latest[sub.sensor] EXCEPT !.at = sub.time]]
        BY <1>0, <2>1 DEF NodeTyped
      <4>3. QED
        BY <1>0, <4>1, <4>2 DEF NodeTyped
    <3>3. QED
      BY <1>0, <2>1, <3>1, <3>2 DEF NodeTyped
  <2>4. LatestHeard'
    <3> SUFFICES ASSUME NEW u \in Sensors, latest'[u].value # Nothing
                 PROVE  Known(heard', u, latest'[u].value, latest'[u].at)
      BY <2>1, <2>2 DEF LatestHeard
    <3>1. CASE u = sub.sensor
      <4>1. latest'[u].value = latest[u].value /\ latest'[u].at = sub.time
        BY <1>0, <2>1, <2>2, <3>1 DEF NodeTyped, Pairs
      <4>2. latest[u].value = sub.value
        BY <1>0, <2>1, <3>1, <4>1 DEF LatestHeard
      <4>3. Known(heard, u, sub.value, sub.time)
        BY <1>0, <2>1, <3>1 DEF SubHeard
      <4>4. QED
        BY <1>1, <2>1, <4>1, <4>2, <4>3
    <3>2. CASE u # sub.sensor
      <4>1. latest'[u] = latest[u]
        BY <1>0, <2>1, <3>2 DEF NodeTyped
      <4>2. QED
        BY <1>0, <1>1, <2>1, <3>2, <4>1 DEF LatestHeard
    <3>3. QED
      BY <3>1, <3>2
  <2>5. SubHeard' /\ SeenHeard'
    BY <1>0, <1>1, <2>1, <2>2 DEF SubHeard, SeenHeard
  <2>6. QED
    BY <1>3, <2>1, <2>3, <2>4, <2>5 DEF NodeInv
<1>7. CASE Cross
  <2>1. /\ sub.at = "cross" /\ sub # Idle /\ sub' = Idle
        /\ UNCHANGED <<latest, tick, heard>>
        /\ \/ Leaves(sub.sensor, sub.value) /\ Emit("crossing", sub.sensor, sub.value, sub.time)
           \/ UNCHANGED rows
    BY <1>7 DEF Cross, Idle
  <2>2. NodeTyped' /\ Memory'
    BY <1>0, <1>1, <2>1 DEF NodeTyped, LatestHeard, SubHeard, SeenHeard, Idle
  <2>3. Known(heard, sub.sensor, sub.value, sub.time)
    BY <1>0, <2>1 DEF SubHeard
  <2>4. \A r \in rows' : RowHeard(heard', r)
    <3>1. CASE UNCHANGED rows
      BY <1>3, <2>1, <3>1
    <3>2. CASE Leaves(sub.sensor, sub.value) /\ Emit("crossing", sub.sensor, sub.value, sub.time)
      BY <2>1, <2>3, <3>2, RowsGrow DEF Leaves
    <3>3. QED
      BY <2>1, <3>1, <3>2
  <2>5. QED
    BY <2>2, <2>4 DEF NodeInv
<1>8. CASE HearLight
  <2>1. PICK v, t : Emit("light", Nothing, v, t)
    BY <1>8 DEF HearLight
  <2>2. UNCHANGED <<latest, sub, tick, heard>>
    BY <1>8 DEF HearLight
  <2>3. \A r \in rows' : RowHeard(heard', r)
    BY <2>1, <2>2, RowsGrow
  <2>4. QED
    BY <1>2, <2>2, <2>3 DEF NodeInv
<1>9. CASE Begin
  <2>1. /\ sub = Idle /\ UNCHANGED <<latest, sub, heard, rows>>
        /\ tick' = [at |-> 1, now |-> Time, seen |-> latest, wrote |-> FALSE]
    BY <1>9 DEF Begin, Unlocked
  <2>2. NodeTyped'
    <3>1. tick' \in Ticks
      BY <1>0, <2>1 DEF NodeTyped, Time, Ticks
    <3>2. QED
      BY <1>0, <2>1, <3>1 DEF NodeTyped
  <2>3. LatestHeard' /\ SubHeard'
    BY <1>0, <1>1, <2>1 DEF LatestHeard, SubHeard
  <2>4. SeenHeard'
    BY <1>0, <1>1, <2>1 DEF LatestHeard, SeenHeard, Idle
  <2>5. QED
    BY <1>3, <2>1, <2>2, <2>3, <2>4 DEF NodeInv
<1>10. CASE Record
  <2>1. /\ Recording /\ UNCHANGED <<latest, sub, heard>>
        /\ \/ Seen.value = Nothing /\ UNCHANGED rows /\ tick' = [tick EXCEPT !.at = @ + 1]
           \/ /\ Seen.value # Nothing
              /\ Emit("reading", Order[tick.at], Seen.value, Seen.at)
              /\ tick' = [tick EXCEPT !.at = @ + 1, !.wrote = TRUE]
    BY <1>10 DEF Record
  <2>2. tick # Idle
        /\ tick \in Ticks
    BY <1>0, <2>1 DEF Recording, NodeTyped
  <2>3. Order[tick.at] \in Sensors
    BY <2>1, <2>2 DEF Recording, Sensors, Ticks
  <2>4. NodeTyped'
    <3>1. /\ tick.at + 1 \in Nat \ {0} /\ tick.now \in Int
          /\ tick.seen \in [Sensors -> Pairs] /\ tick.wrote \in BOOLEAN
      BY <2>2 DEF Ticks
    <3>2. \E w \in BOOLEAN :
            tick' = [at |-> tick.at + 1, now |-> tick.now, seen |-> tick.seen, wrote |-> w]
      <4>1. tick' = [tick EXCEPT !.at = @ + 1] \/ tick' = [tick EXCEPT !.at = @ + 1, !.wrote = TRUE]
        BY <2>1
      <4>2. QED
        BY <2>2, <3>1, <4>1 DEF Ticks
    <3>3. tick' \in Ticks
      BY <3>1, <3>2 DEF Ticks
    <3>4. QED
      BY <1>0, <2>1, <3>3 DEF NodeTyped
  <2>5. tick'.seen = tick.seen
    BY <2>1, <2>2 DEF Ticks
  <2>6. Memory'
    BY <1>0, <1>1, <2>1, <2>2, <2>5 DEF LatestHeard, SubHeard, SeenHeard
  <2>7. \A r \in rows' : RowHeard(heard', r)
    <3>1. Seen.value # Nothing => Known(heard, Order[tick.at], Seen.value, Seen.at)
      BY <1>0, <2>2, <2>3 DEF SeenHeard, Seen
    <3>2. CASE UNCHANGED rows
      BY <1>3, <2>1, <3>2
    <3>3. CASE Seen.value # Nothing /\ Emit("reading", Order[tick.at], Seen.value, Seen.at)
      BY <2>1, <3>1, <3>3, RowsGrow
    <3>4. QED
      BY <2>1, <3>2, <3>3
  <2>8. QED
    BY <2>4, <2>6, <2>7 DEF NodeInv
<1>11. CASE NoLight \/ Light \/ Dark
  <2>1. /\ UNCHANGED <<latest, sub, heard>> /\ tick # Idle
        /\ tick' = Idle \/ tick' = [tick EXCEPT !.at = @ + 1]
    BY <1>11 DEF NoLight, Light, Dark, Done
  <2>2. tick \in Ticks
    BY <1>0, <2>1 DEF NodeTyped
  <2>3. NodeTyped'
    <3>1. tick' = Idle \/ tick' \in Ticks
      BY <2>1, <2>2 DEF Ticks
    <3>2. QED
      BY <1>0, <2>1, <3>1 DEF NodeTyped
  <2>4. tick' = Idle \/ tick'.seen = tick.seen
    BY <2>1, <2>2 DEF Ticks
  <2>5. Memory'
    BY <1>0, <1>1, <2>1, <2>4 DEF LatestHeard, SubHeard, SeenHeard
  <2>6. \A r \in rows' : RowHeard(heard', r)
    <3>1. CASE NoLight
      BY <1>3, <2>1, <3>1 DEF NoLight
    <3>2. CASE Light
      BY <2>1, <3>2, RowsGrow DEF Light
    <3>3. CASE Dark
      BY <2>1, <3>3, RowsGrow DEF Dark
    <3>4. QED
      BY <1>11, <3>1, <3>2, <3>3
  <2>7. QED
    BY <2>3, <2>5, <2>6 DEF NodeInv
<1>12. QED
  BY <1>4, <1>5, <1>6, <1>7, <1>8, <1>9, <1>10, <1>11 DEF NodeNext

\* Every reading the node records is a pair of value and time that it heard.
THEOREM ReadingsTrue == NodeSpec => []RecordedAsHeard
<1>1. NodeInv => RecordedAsHeard
  BY DEF NodeInv, RowHeard, Known, RecordedAsHeard
<1>2. NodeSpec => []TypeOK
  BY NodeIsACaller, TypeCorrect, PTL
<1>3. QED
  BY <1>1, <1>2, NodeInitInv, NodeNextInv, PTL DEF NodeSpec

-----------------------------------------------------------------------------
(* The crossings.                                                             *)

Starts(q) == {i \in DOMAIN q : q[i].value = "outside" /\ (i = 1 \/ q[i - 1].value = "inside")}
LastOutside(q) == q # <<>> /\ q[Len(q)].value = "outside"

LEMMA ElementTyped ==
    ASSUME NEW S, NEW q \in Seq(S), NEW i \in 1 .. Len(q)
    PROVE  q[i] \in S
  OBVIOUS

\* One more reading is one more excursion, or none.
LEMMA ExcursionsAppend ==
    ASSUME NEW q \in Seq([value : Values, at : Int]), NEW p \in [value : Values, at : Int]
    PROVE  /\ Excursions(q) \in Nat
           /\ Excursions(Append(q, p)) = IF p.value = "outside" /\ ~LastOutside(q)
                                         THEN Excursions(q) + 1 ELSE Excursions(q)
<1> DEFINE n == Len(q) + 1
<1>1. /\ Len(q) \in Nat /\ DOMAIN q = 1 .. Len(q) /\ DOMAIN Append(q, p) = 1 .. n
      /\ Append(q, p)[n] = p /\ \A i \in 1 .. Len(q) : Append(q, p)[i] = q[i]
  OBVIOUS
<1>2. IsFiniteSet(Starts(q)) /\ n \notin Starts(q)
  <2>1. IsFiniteSet(1 .. Len(q)) /\ Starts(q) \subseteq 1 .. Len(q)
    BY <1>1, FS_Interval DEF Starts
  <2>2. QED
    BY <1>1, <2>1, FS_Subset
<1>3. ASSUME p.value = "outside", ~LastOutside(q) PROVE Starts(Append(q, p)) = Starts(q) \cup {n}
  <2>1. n = 1 \/ q[n - 1].value = "inside"
    <3>1. CASE q = <<>>
      BY <3>1
    <3>2. CASE q # <<>>
      <4>1. Len(q) \in 1 .. Len(q) /\ n - 1 = Len(q)
        BY <3>2, <1>1
      <4>2. q[Len(q)] \in [value : Values, at : Int]
        BY <4>1, ElementTyped
      <4>3. QED
        BY <1>3, <3>2, <4>1, <4>2 DEF LastOutside, Values
    <3>3. QED
      BY <3>1, <3>2
  <2>2. QED
    BY <1>1, <1>3, <2>1 DEF Starts
<1>4. ASSUME ~(p.value = "outside" /\ ~LastOutside(q)) PROVE Starts(Append(q, p)) = Starts(q)
  <2>1. ~(p.value = "outside" /\ (n = 1 \/ q[n - 1].value = "inside"))
    BY <1>1, <1>4 DEF LastOutside
  <2>2. QED
    BY <1>1, <2>1 DEF Starts
<1>5. \A u : Excursions(u) = Cardinality(Starts(u))
  BY DEF Excursions, Starts
<1>6. Cardinality(Starts(q)) \in Nat /\ Cardinality(Starts(q) \cup {n}) = Cardinality(Starts(q)) + 1
  BY <1>2, FS_CardinalityType, FS_AddElement
<1>7. QED
  BY <1>3, <1>4, <1>5, <1>6

\* What crossed[s] and the rows say of the readings of s, once its reading in
\* hand, if there is one, has been dealt with.
Settled(s) ==
    /\ crossed[s] = LastOutside(heard[s])
    /\ Cardinality(Crossings(s)) = Excursions(heard[s])
InHand(s) == sub # Idle /\ sub.sensor = s
Owing(s) ==
    /\ LastOutside(heard[s]) = (sub.value = "outside")
    /\ IF Leaves(s, sub.value) THEN Cardinality(Crossings(s)) + 1 = Excursions(heard[s])
       ELSE Cardinality(Crossings(s)) = Excursions(heard[s])

CountInv ==
    /\ crossed \in [Sensors -> BOOLEAN]
    /\ IsFiniteSet(rows) /\ \A r \in rows : r.call \in 1 .. calls
    /\ \A s \in Sensors : IF InHand(s) THEN Owing(s) ELSE Settled(s)

LEMMA CountInit == NodeInit => CountInv
<1> SUFFICES ASSUME NodeInit PROVE CountInv
  OBVIOUS
<1>1. IsFiniteSet({}) /\ Cardinality({}) = 0
  BY FS_EmptySet
<1>2. rows = {} /\ sub = Idle /\ \A s \in Sensors : heard[s] = <<>> /\ crossed[s] = FALSE
  BY DEF NodeInit
<1>3. \A s \in Sensors : Crossings(s) = {} /\ {i \in DOMAIN heard[s] :
          heard[s][i].value = "outside" /\ (i = 1 \/ heard[s][i - 1].value = "inside")} = {}
  BY <1>2 DEF Crossings
<1>4. \A s \in Sensors : Settled(s)
  BY <1>1, <1>2, <1>3 DEF Settled, LastOutside, Excursions
<1>5. QED
  BY <1>1, <1>2, <1>4 DEF CountInv, NodeInit, InHand

\* A row has the number of its call, so it is a new one.
LEMMA NewRow ==
    ASSUME TypeOK, CountInv, NEW kind, NEW sensor, NEW value, NEW at,
           Emit(kind, sensor, value, at)
    PROVE  /\ IsFiniteSet(rows') /\ \A r \in rows' : r.call \in 1 .. calls'
           /\ \A s \in Sensors :
                IF kind = "crossing" /\ sensor = s
                THEN Cardinality(Crossings(s)') = Cardinality(Crossings(s)) + 1
                ELSE Crossings(s)' = Crossings(s)
<1> DEFINE c == calls'
           new == [call |-> c, kind |-> kind, sensor |-> sensor, value |-> value, at |-> at]
<1>1. rows' = rows \cup {new} /\ calls' = calls + 1 /\ calls \in Nat
  BY StorageWriterAssumption DEF Emit, Call, TypeOK
<1>2. IsFiniteSet(rows) /\ (\A r \in rows : r.call \in 1 .. calls) /\ new \notin rows
  BY <1>1 DEF CountInv
<1>3. IsFiniteSet(rows') /\ \A r \in rows' : r.call \in 1 .. calls'
  <2>1. new.call = calls'
    OBVIOUS
  <2> HIDE DEF new
  <2>2. QED
    BY <1>1, <1>2, <2>1, FS_AddElement
<1>4. ASSUME NEW s \in Sensors
      PROVE  IF kind = "crossing" /\ sensor = s
             THEN Cardinality(Crossings(s)') = Cardinality(Crossings(s)) + 1
             ELSE Crossings(s)' = Crossings(s)
  <2>1. new.kind = kind /\ new.sensor = sensor
    OBVIOUS
  <2> HIDE DEF new
  <2>2. CASE kind = "crossing" /\ sensor = s
    <3>1. Crossings(s)' = Crossings(s) \cup {new} /\ new \notin Crossings(s)
      BY <1>1, <1>2, <2>1, <2>2 DEF Crossings
    <3>2. IsFiniteSet(Crossings(s))
      <4>1. Crossings(s) \subseteq rows
        BY DEF Crossings
      <4>2. QED
        BY <1>2, <4>1, FS_Subset
    <3>3. QED
      BY <2>2, <3>1, <3>2, FS_AddElement
  <2>3. CASE ~(kind = "crossing" /\ sensor = s)
    <3>1. Crossings(s)' = Crossings(s)
      BY <1>1, <2>1, <2>3 DEF Crossings
    <3>2. QED
      BY <2>3, <3>1
  <2>4. QED
    BY <2>2, <2>3
<1>5. QED
  BY <1>3, <1>4

\* A step that leaves the subscriber alone and inserts no crossing.
LEMMA CountKept ==
    ASSUME TypeOK, CountInv, UNCHANGED <<crossed, sub, heard>>,
           \/ UNCHANGED <<calls, rows>>
           \/ \E kind, sensor, value, at : kind # "crossing" /\ Emit(kind, sensor, value, at)
    PROVE  CountInv'
<1>1. /\ IsFiniteSet(rows') /\ \A r \in rows' : r.call \in 1 .. calls'
      /\ \A s \in Sensors : Crossings(s)' = Crossings(s)
  <2>1. CASE UNCHANGED <<calls, rows>>
    BY <2>1 DEF CountInv, Crossings
  <2>2. ASSUME NEW kind, NEW sensor, NEW value, NEW at,
               kind # "crossing", Emit(kind, sensor, value, at)
        PROVE  /\ IsFiniteSet(rows') /\ \A r \in rows' : r.call \in 1 .. calls'
               /\ \A s \in Sensors : Crossings(s)' = Crossings(s)
    BY <2>2, NewRow
  <2>3. QED
    BY <2>1, <2>2
<1>2. QED
  BY <1>1 DEF CountInv, InHand, Owing, Settled, Leaves

LEMMA CountNext == TypeOK /\ NodeInv /\ CountInv /\ [NodeNext]_allVars => CountInv'
<1> SUFFICES ASSUME TypeOK, NodeInv, CountInv, [NodeNext]_allVars PROVE CountInv'
  OBVIOUS
<1>0. /\ heard \in [Sensors -> Seq([value : Values, at : Int])] /\ crossed \in [Sensors -> BOOLEAN]
      /\ sub # Idle => sub \in Subs
      /\ clock \in Nat
  <2>1. clock \in Nat
    BY StorageWriterAssumption DEF TypeOK
  <2>2. QED
    BY <2>1 DEF NodeInv, NodeTyped, CountInv
<1>1. CASE World \/ Prepared \/ UNCHANGED allVars
  <2>1. UNCHANGED <<crossed, sub, heard, rows, calls>>
    BY <1>1 DEF World, Prepared, allVars, nodeVars, storage, callVars, Tick, Lose, Recover, Prepare
  <2>2. QED
    BY <2>1, CountKept
<1>2. CASE (\E v \in Lights : Estimate(v)) \/ Begin \/ NoLight
  BY <1>2, CountKept DEF Estimate, Begin, NoLight, storage, callVars
<1>3. CASE HearLight
  <2>1. PICK v, t : Emit("light", Nothing, v, t)
    BY <1>3 DEF HearLight
  <2>2. UNCHANGED <<crossed, sub, heard>>
    BY <1>3 DEF HearLight
  <2>3. QED
    BY <2>1, <2>2, CountKept
<1>4. CASE Record
  <2>1. UNCHANGED <<crossed, sub, heard>>
    BY <1>4 DEF Record
  <2>2. \/ Emit("reading", Order[tick.at], Seen.value, Seen.at)
        \/ UNCHANGED <<calls, rows>>
    BY <1>4 DEF Record, storage, callVars
  <2>3. QED
    BY <2>1, <2>2, CountKept
<1>5. CASE Light \/ Dark
  <2>1. UNCHANGED <<crossed, sub, heard>>
    BY <1>5 DEF Light, Dark
  <2>2. Emit("light", Nothing, lux, tick.now) \/ Emit("threshold", Nothing, "dark", tick.now)
    BY <1>5 DEF Light, Dark
  <2>3. QED
    BY <2>1, <2>2, CountKept
<1>6. ASSUME NEW s \in Sensors, Hear(s) PROVE CountInv'
  <2>1. PICK v \in Values, t \in Stamps :
            /\ sub' = [at |-> "time", sensor |-> s, value |-> v, time |-> t]
            /\ heard' = [heard EXCEPT ![s] = Append(@, [value |-> v, at |-> t])]
    BY <1>6 DEF Hear
  <2>2. /\ sub = Idle /\ sub' # Idle /\ sub'.sensor = s /\ sub'.value = v
        /\ UNCHANGED <<crossed, rows, calls>> /\ t \in Int
    BY <1>0, <1>6, <2>1 DEF Hear, Idle, storage, callVars, Stamps, Time
  <2>3. \A u \in Sensors : Settled(u) /\ Crossings(u)' = Crossings(u)
    BY <2>2 DEF CountInv, InHand, Crossings
  <2>4. Owing(s)'
    <3> DEFINE p == [value |-> v, at |-> t]
               q == heard[s]
    <3>1. q \in Seq([value : Values, at : Int]) /\ p \in [value : Values, at : Int]
      BY <1>0, <2>2
    <3>2. heard'[s] = Append(q, p) /\ p.value = v
      BY <1>0, <2>1
    <3>3. LastOutside(Append(q, p)) = (v = "outside")
      BY <3>1, <3>2 DEF LastOutside
    <3>4. Excursions(Append(q, p)) = IF v = "outside" /\ ~LastOutside(q)
                                     THEN Excursions(q) + 1 ELSE Excursions(q)
      BY <3>1, <3>2, ExcursionsAppend
    <3>5. Leaves(s, v)' <=> v = "outside" /\ ~LastOutside(q)
      BY <2>2, <2>3 DEF Leaves, Settled
    <3>6. Cardinality(Crossings(s)') = Excursions(q)
      BY <2>3 DEF Settled
    <3> HIDE DEF p, q
    <3>7. LastOutside(heard[s])' = (sub'.value = "outside")
      BY <2>2, <3>2, <3>3
    <3>8. IF Leaves(s, v)' THEN Cardinality(Crossings(s)') + 1 = Excursions(heard'[s])
          ELSE Cardinality(Crossings(s)') = Excursions(heard'[s])
      BY <3>2, <3>4, <3>5, <3>6
    <3>9. QED
      BY <2>2, <3>7, <3>8 DEF Owing
  <2>5. ASSUME NEW u \in Sensors, u # s PROVE Settled(u)'
    BY <1>0, <2>1, <2>2, <2>3, <2>5 DEF Settled
  <2>6. QED
    BY <2>2, <2>4, <2>5 DEF CountInv, InHand
<1>7. CASE Stamp
  <2>1. /\ sub # Idle /\ sub' = [sub EXCEPT !.at = "cross"]
        /\ UNCHANGED <<crossed, heard, rows, calls>>
    BY <1>7 DEF Stamp, Idle, storage, callVars
  <2>2. sub'.value = sub.value /\ sub'.sensor = sub.sensor /\ sub' # Idle
    BY <1>0, <2>1 DEF Subs, Idle
  <2>3. QED
    BY <2>1, <2>2 DEF CountInv, InHand, Owing, Settled, Leaves, Crossings
<1>8. CASE Cross
  <2>1. /\ sub # Idle /\ sub' = Idle /\ UNCHANGED heard
        /\ crossed' = [crossed EXCEPT ![sub.sensor] = sub.value = "outside"]
        /\ IF Leaves(sub.sensor, sub.value)
           THEN Emit("crossing", sub.sensor, sub.value, sub.time)
           ELSE UNCHANGED <<calls, rows>>
    BY <1>8 DEF Cross, Idle, storage, callVars
  <2>2. sub.sensor \in Sensors
    BY <1>0, <2>1 DEF Subs
  <2>3. /\ IsFiniteSet(rows') /\ \A r \in rows' : r.call \in 1 .. calls'
        /\ \A s \in Sensors :
             IF s = sub.sensor /\ Leaves(s, sub.value)
             THEN Cardinality(Crossings(s)') = Cardinality(Crossings(s)) + 1
             ELSE Crossings(s)' = Crossings(s)
    <3>1. CASE Leaves(sub.sensor, sub.value)
      BY <2>1, <3>1, NewRow
    <3>2. CASE ~Leaves(sub.sensor, sub.value)
      BY <2>1, <3>2 DEF CountInv, Crossings
    <3>3. QED
      BY <3>1, <3>2
  <2>4. crossed' \in [Sensors -> BOOLEAN]
    BY <1>0, <2>1, <2>2
  <2>5. ASSUME NEW s \in Sensors PROVE Settled(s)'
    <3>1. CASE s = sub.sensor
      <4>1. Owing(s)
        BY <2>1, <3>1 DEF CountInv, InHand
      <4>2. crossed'[s] = (sub.value = "outside")
        BY <1>0, <2>1, <3>1
      <4>3. crossed'[s] = LastOutside(heard'[s])
        BY <2>1, <4>1, <4>2 DEF Owing
      <4>4. Cardinality(Crossings(s)') = Excursions(heard'[s])
        BY <2>1, <2>3, <3>1, <4>1 DEF Owing
      <4>5. QED
        BY <4>3, <4>4 DEF Settled
    <3>2. CASE s # sub.sensor
      <4>1. Settled(s)
        BY <3>2 DEF CountInv, InHand
      <4>2. crossed'[s] = crossed[s] /\ Crossings(s)' = Crossings(s)
        BY <1>0, <2>1, <2>3, <3>2
      <4>3. QED
        BY <2>1, <4>1, <4>2 DEF Settled
    <3>3. QED
      BY <3>1, <3>2
  <2>6. QED
    BY <2>1, <2>3, <2>4, <2>5 DEF CountInv, InHand
<1>9. QED
  BY <1>1, <1>2, <1>3, <1>4, <1>5, <1>6, <1>7, <1>8 DEF NodeNext

\* Each excursion of a sensor is logged by one insert, and by one only.
THEOREM OnePerExcursion == NodeSpec => []CrossingsLogged
<1>1. CountInv => CrossingsLogged
  BY DEF CountInv, CrossingsLogged, InHand, Settled
<1>2. NodeSpec => []TypeOK
  BY NodeIsACaller, TypeCorrect, PTL
<1>3. QED
  BY <1>1, <1>2, NodeInitInv, NodeNextInv, CountInit, CountNext, PTL DEF NodeSpec
=============================================================================
