----------------------- MODULE CommandPipelineProofs -----------------------
(* Theorems about CommandPipeline for every set of messages and every bound. *)
EXTENDS CommandPipelineRefinement, SequenceTheorems, TLAPS

Entry == [uid : Nat, msg : WireMessage]

-----------------------------------------------------------------------------
(* Typing of the operators the actions are built from. *)

\* Narrowing to 16 bits.
LEMMA NarrowType == ASSUME NEW n \in Int PROVE n % 65536 \in U16
  BY DEF U16

\* A parsed message is a command, whatever 32-bit signal id it carries.
LEMMA ParseType ==
    ASSUME NEW e \in Entry, clock \in Nat
    PROVE  /\ Parse(e) \in Command
           /\ Parse(e).uid = e.uid /\ Parse(e).from = "ingress"
<1> DEFINE sig == e.msg.sig % 65536
<1>1. e.msg \in WireMessage /\ e.msg.sig \in Int /\ e.uid \in Nat
  BY DEF Entry, WireMessage
<1>2. sig \in U16
  BY <1>1, NarrowType
<1>3. <<"CMD", sig, clock>> \in {"CMD", "hw_evt"} \X U16 \X Nat
  BY <1>2
<1>4. (IF e.msg.id = Absent THEN <<"CMD", sig, clock>> ELSE e.msg.id) \in CommandId
  BY <1>1, <1>3 DEF WireMessage, CommandId
<1>5. QED
  BY <1>1, <1>2, <1>4 DEF Parse, Command, Origin, Status

\* Taking the head of the queue or of the inbox.
LEMMA TakeType ==
    ASSUME NEW S, NEW q \in Seq(S), q # <<>>
    PROVE  Head(q) \in S /\ Tail(q) \in Seq(S)
  BY HeadTailProperties

\* What is left of the PULL socket's messages after the process is gone.
LEMMA SuffixType ==
    ASSUME NEW S, NEW q \in Seq(S), NEW k \in Nat
    PROVE  SubSeq(q, k + 1, Len(q)) \in Seq(S)
<1>1. Len(q) \in Nat /\ \A i \in 1 .. Len(q) : q[i] \in S
  BY ElementOfSeq, LenProperties
<1>2. \A i \in k + 1 .. Len(q) : q[i] \in S
  BY <1>1
<1>3. QED
  BY <1>1, <1>2, SubSeqProperties

LEMMA NoCommandType == NoCommand \in Command
  BY DEF NoCommand, Command, U16, CommandId, Origin, Status

LEMMA RowType ==
    ASSUME NEW c \in Command, NEW sig \in Nat, NEW reply \in {"COMPLETED", "FAILED"}
    PROVE  Row(c, sig, reply) \in [uid : Nat, signal : Nat, status : Status \cup {"NONE"}]
  BY DEF Row, Command, Status

LEMMA LogSignalsType ==
    ASSUME NEW sig \in U16
    PROVE  LogSignals(sig) \subseteq Nat
<1>1. SideRows(sig) \subseteq Nat
  BY DEF SideRows
<1>2. {sig} \subseteq Nat
  BY DEF U16
<1>3. QED
  BY <1>1, <1>2 DEF LogSignals

\* What one thread, or the two at once, can put on the result socket.
LEMMA EmitSends ==
    ASSUME NEW c, Emit(c)
    PROVE  results' = results \/ results' = results \cup {Result(c)}
  BY DEF Emit

LEMMA EmitType ==
    ASSUME TypeOK, NEW c \in Command, Emit(c)
    PROVE  results' \subseteq [uid : Nat, status : Status] /\ unsent' \subseteq Nat
<1>1. Result(c) \in [uid : Nat, status : Status] /\ c.uid \in Nat
  BY DEF Result, Command
<1>2. QED
  BY <1>1 DEF Emit, TypeOK

LEMMA RaceSends ==
    ASSUME SocketRace
    PROVE  \E sent \in SUBSET {Result(mainCmd), Result(current)} : results' = results \cup sent
<1>1. PICK lost \in SUBSET {mainCmd, current} :
          results' = results \cup {Result(c) : c \in {mainCmd, current} \ lost}
  BY DEF SocketRace
<1> DEFINE sent == {Result(c) : c \in {mainCmd, current} \ lost}
<1>2. sent \in SUBSET {Result(mainCmd), Result(current)}
  OBVIOUS
<1>3. QED
  BY <1>1, <1>2

-----------------------------------------------------------------------------
(* Type correctness. *)

LEMMA InitType == Init => TypeOK
  BY ConstantAssumption, NoCommandType
     DEF Init, TypeOK, Lids, Never

LEMMA DieType ==
    ASSUME TypeOK, NEW n \in Nat, Die(n)
    PROVE  TypeOK'
<1>1. PICK k \in n .. Len(inbox) : inbox' = SubSeq(inbox, k + 1, Len(inbox))
  BY DEF Die
<1>2. k \in Nat
  BY LenProperties DEF TypeOK
<1>3. inbox' \in Seq([uid : Nat, msg : WireMessage])
  BY <1>1, <1>2, SuffixType DEF TypeOK
<1>4. queue' \in Seq(Command)
  BY DEF Die
<1>5. QED
  BY <1>3, <1>4, NoCommandType DEF Die, TypeOK, Lids, Never, sentVars

LEMMA NextType == TypeOK /\ [Next]_vars => TypeOK'
<1> SUFFICES ASSUME TypeOK, [Next]_vars PROVE TypeOK'
  OBVIOUS
<1> USE DEF envVars, mainVars, workerVars, outVars, sentVars
<1>1. CASE Tick
  BY <1>1 DEF Tick, TypeOK
<1>2. ASSUME NEW m \in Messages, Send(m) PROVE TypeOK'
  <2>1. [uid |-> nextUid, msg |-> m] \in [uid : Nat, msg : WireMessage]
    BY ConstantAssumption DEF TypeOK
  <2>2. inbox' \in Seq([uid : Nat, msg : WireMessage])
    BY <1>2, <2>1, AppendProperties DEF Send, TypeOK
  <2>3. QED
    BY <1>2, <2>2 DEF Send, TypeOK
<1>3. CASE DropUnparsable
  BY <1>3, TakeType DEF DropUnparsable, MainReady, TypeOK
<1>4. CASE ReceiveCommand
  <2> DEFINE cmd == Parse(Head(inbox))
  <2>1. inbox # <<>> /\ inbox' = Tail(inbox)
    BY <1>4 DEF ReceiveCommand, MainReady
  <2>2. Head(inbox) \in Entry /\ Tail(inbox) \in Seq([uid : Nat, msg : WireMessage])
    BY <2>1, TakeType DEF TypeOK, Entry
  <2>3. cmd \in Command
    BY <2>2, ParseType DEF TypeOK
  <2>4. cmd.id \in CommandId
    BY <2>3 DEF Command
  <2>5. /\ [cmd EXCEPT !.status = "QUEUED"] \in Command
        /\ [cmd EXCEPT !.status = "REJECTED"] \in Command
    BY <2>3 DEF Command, Status
  <2> HIDE DEF cmd
  <2>6. /\ main' \in {"queueing", "refusing"}
        /\ mainCmd' \in Command
        /\ activeIds' \subseteq CommandId
    BY <1>4, <2>4, <2>5 DEF ReceiveCommand, cmd, TypeOK
  <2>7. UNCHANGED <<envVars, phase, queue, workerVars, outVars>>
    BY <1>4 DEF ReceiveCommand
  <2>8. QED
    BY <2>1, <2>2, <2>6, <2>7 DEF TypeOK
<1>5. CASE Enqueue
  <2>1. queue' \in Seq(Command)
    BY <1>5, AppendProperties DEF Enqueue, TypeOK
  <2>2. QED
    BY <1>5, <2>1, NoCommandType DEF Enqueue, MainDone, TypeOK
<1>6. CASE Refuse
  <2>1. results' \subseteq [uid : Nat, status : Status] /\ unsent' \subseteq Nat
    BY <1>6, EmitType DEF Refuse, TypeOK
  <2>2. QED
    BY <1>6, <2>1, NoCommandType DEF Refuse, MainDone, TypeOK
<1>7. ASSUME NEW lid \in Lids, NEW sig \in {84, 123}, HardwareEvent(lid, sig) PROVE TypeOK'
  <2> DEFINE c == [uid |-> nextUid, sig |-> sig, id |-> <<"hw_evt", sig, clock>>,
                   from |-> "status_subscriber", status |-> "RECEIVED"]
  <2>1. sig \in U16
    BY DEF U16
  <2>2. <<"hw_evt", sig, clock>> \in CommandId
    BY <2>1 DEF CommandId, TypeOK
  <2>3. c \in Command
    BY <2>1, <2>2 DEF Command, Origin, Status, TypeOK
  <2>4. queue' \in Seq(Command)
    BY <1>7, <2>3, AppendProperties DEF HardwareEvent, TypeOK
  <2>5. QED
    BY <1>7, <2>4 DEF HardwareEvent, TypeOK
<1>8. CASE Pop
  <2>1. Head(queue) \in Command /\ Tail(queue) \in Seq(Command)
    BY <1>8, TakeType DEF Pop, TypeOK
  <2>2. current' \in Command
    BY <1>8, <2>1 DEF Pop, Command, Status
  <2>3. QED
    BY <1>8, <2>1, <2>2 DEF Pop, TypeOK
<1>9. CASE PopTimeout
  BY <1>9 DEF PopTimeout, TypeOK
<1>10. CASE Handle
  <2>1. current' \in Command
    <3>1. PICK st \in {"COMPLETED", "FAILED"} : current' = [current EXCEPT !.status = st]
      BY <1>10 DEF Handle
    <3>2. st \in Status /\ current \in Command
      BY DEF Status, TypeOK
    <3>3. QED
      BY <3>1, <3>2 DEF Command
  <2>2. Execution(current) \in [uid : Nat, id : CommandId, from : Origin, life : Nat]
    <3>1. current.uid \in Nat /\ current.id \in CommandId /\ current.from \in Origin
      BY DEF TypeOK, Command
    <3>2. life \in Nat
      BY DEF TypeOK
    <3> QED
      BY <3>1, <3>2 DEF Execution
  <2>3. QED
    BY <1>10, <2>1, <2>2 DEF Handle, TypeOK
<1>11. CASE Answer
  <2>1. results' \subseteq [uid : Nat, status : Status] /\ unsent' \subseteq Nat
    BY <1>11, EmitType DEF Answer, TypeOK
  <2>2. QED
    BY <1>11, <2>1 DEF Answer, TypeOK
<1>12. CASE SocketRace
  <2>1. {Result(mainCmd), Result(current)} \subseteq [uid : Nat, status : Status]
    BY DEF Result, TypeOK, Command
  <2>2. results' \subseteq [uid : Nat, status : Status]
    BY <1>12, <2>1, RaceSends DEF TypeOK
  <2>3. unsent' \subseteq Nat
    BY <1>12 DEF SocketRace, TypeOK, Command
  <2>4. QED
    BY <1>12, <2>2, <2>3, NoCommandType DEF SocketRace, MainDone, TypeOK
<1>13. CASE Log
  <2>1. LogSignals(current.sig) \subseteq Nat
    BY LogSignalsType DEF TypeOK, Command
  <2>2. ASSUME NEW reply \in {"COMPLETED", "FAILED"}
        PROVE  {Row(current, s, reply) : s \in LogSignals(current.sig)}
                   \subseteq [uid : Nat, signal : Nat, status : Status \cup {"NONE"}]
    <3>1. current \in Command
      BY DEF TypeOK
    <3>2. \A s \in LogSignals(current.sig) :
              Row(current, s, reply) \in [uid : Nat, signal : Nat, status : Status \cup {"NONE"}]
      BY <2>1, <3>1, RowType
    <3>3. QED
      BY <3>2
  <2>3. rows' \subseteq [uid : Nat, signal : Nat, status : Status \cup {"NONE"}]
    BY <1>13, <2>2 DEF Log, TypeOK
  <2>4. confirming' \subseteq Command
    BY <1>13 DEF Log, TypeOK
  <2>5. QED
    BY <1>13, <2>3, <2>4, NoCommandType DEF Log, TypeOK
<1>14. ASSUME NEW c \in confirming, ConfirmTreat(c) PROVE TypeOK'
  <2>1. Row(c, TreatConfirmation, c.status)
            \in [uid : Nat, signal : Nat, status : Status \cup {"NONE"}]
    BY DEF TypeOK, TreatConfirmation, Row, Command
  <2>2. QED
    BY <1>14, <2>1 DEF ConfirmTreat, TypeOK
<1>15. CASE Shutdown
  BY <1>15 DEF Shutdown, TypeOK
<1>16. CASE JoinWorker
  BY <1>16 DEF JoinWorker, TypeOK
<1>17. CASE Exit
  BY <1>17, DieType DEF Exit
<1>18. CASE Crash
  BY <1>18, DieType DEF Crash
<1>19. CASE DieOnMistyped
  BY <1>19, DieType DEF DieOnMistyped
<1>20. CASE Start
  BY <1>20 DEF Start, TypeOK
<1>21. ASSUME NEW thread \in {"main", "worker"}, WaitForEver(thread) PROVE TypeOK'
  BY <1>21 DEF WaitForEver, TypeOK
<1>22. CASE UNCHANGED vars
  BY <1>22 DEF vars, TypeOK
<1>23. QED
  BY <1>1, <1>2, <1>3, <1>4, <1>5, <1>6, <1>7, <1>8, <1>9, <1>10, <1>11, <1>12,
     <1>13, <1>14, <1>15, <1>16, <1>17, <1>18, <1>19, <1>20, <1>21, <1>22 DEF Next

\* Every reachable state of the service is well typed; in particular signal
\* ids stay in 16 bits although the wire carries wider numbers.
THEOREM TypeCorrect == Spec => []TypeOK
  BY InitType, NextType, PTL DEF Spec

-----------------------------------------------------------------------------
(* How the wire ids of a sequence change at its ends. *)

LEMMA AppendWire ==
    ASSUME NEW q \in Seq(Command), NEW c \in Command
    PROVE  /\ WireIds(Append(q, c)) =
                WireIds(q) \cup (IF c.from = "ingress" THEN {c.id} ELSE {})
           /\ NoTwin(q) /\ (c.from = "ingress" => c.id \notin WireIds(q))
                => NoTwin(Append(q, c))
<1> DEFINE p == Append(q, c)
<1>1. /\ DOMAIN q = 1 .. Len(q) /\ Len(q) \in Nat
      /\ DOMAIN p = 1 .. Len(q) + 1
      /\ \A i \in 1 .. Len(q) : p[i] = q[i]
      /\ p[Len(q) + 1] = c
  BY AppendProperties, LenProperties
<1> HIDE DEF p
<1>2. WireIds(p) = WireIds(q) \cup (IF c.from = "ingress" THEN {c.id} ELSE {})
  BY <1>1 DEF WireIds
<1>3. ASSUME NoTwin(q), c.from = "ingress" => c.id \notin WireIds(q)
      PROVE  NoTwin(p)
  BY <1>1, <1>3 DEF NoTwin, WireIds
<1>4. QED
  BY <1>2, <1>3 DEF p

\* A hardware event adds no wire id.
LEMMA AppendHardware ==
    ASSUME NEW q \in Seq(Command), NEW c \in Command, c.from # "ingress", NoTwin(q)
    PROVE  WireIds(Append(q, c)) = WireIds(q) /\ NoTwin(Append(q, c))
<1>1. WireIds(Append(q, c)) = WireIds(q) \cup {}
  BY AppendWire
<1>2. NoTwin(Append(q, c))
  BY AppendWire
<1>3. QED
  BY <1>1, <1>2

LEMMA TailWire ==
    ASSUME NEW q \in Seq(Command), q # <<>>
    PROVE  /\ WireIds(q) = WireIds(Tail(q)) \cup
                (IF Head(q).from = "ingress" THEN {Head(q).id} ELSE {})
           /\ NoTwin(q) => /\ NoTwin(Tail(q))
                           /\ Head(q).from = "ingress" => Head(q).id \notin WireIds(Tail(q))
<1> DEFINE t == Tail(q)
<1>1. /\ DOMAIN q = 1 .. Len(q) /\ Len(q) \in Nat \ {0}
      /\ DOMAIN t = 1 .. Len(q) - 1
      /\ \A i \in 1 .. Len(q) - 1 : t[i] = q[i + 1]
      /\ Head(q) = q[1]
  BY HeadTailProperties, LenProperties, EmptySeq
<1> HIDE DEF t
<1>2. WireIds(q) = WireIds(t) \cup (IF Head(q).from = "ingress" THEN {Head(q).id} ELSE {})
  <2>1. ASSUME NEW x \in WireIds(q)
        PROVE  x \in WireIds(t) \/ (Head(q).from = "ingress" /\ x = Head(q).id)
    <3>1. PICK i \in DOMAIN q : q[i].from = "ingress" /\ q[i].id = x
      BY DEF WireIds
    <3>2. CASE i = 1
      BY <1>1, <3>1, <3>2
    <3>3. CASE i # 1
      <4>1. i - 1 \in DOMAIN t /\ t[i - 1] = q[i]
        BY <1>1, <3>3
      <4>2. QED
        BY <3>1, <4>1 DEF WireIds
    <3>4. QED
      BY <3>2, <3>3
  <2>2. ASSUME NEW x \in WireIds(t) PROVE x \in WireIds(q)
    <3>1. PICK i \in DOMAIN t : t[i].from = "ingress" /\ t[i].id = x
      BY DEF WireIds
    <3>2. i + 1 \in DOMAIN q /\ q[i + 1] = t[i]
      BY <1>1
    <3>3. QED
      BY <3>1, <3>2 DEF WireIds
  <2>3. Head(q).from = "ingress" => Head(q).id \in WireIds(q)
    BY <1>1 DEF WireIds
  <2>4. QED
    BY <2>1, <2>2, <2>3
<1>3. ASSUME NoTwin(q) PROVE NoTwin(t)
  <2> SUFFICES ASSUME NEW i \in DOMAIN t, NEW j \in DOMAIN t, t[i].from = "ingress",
                      t[j].from = "ingress", t[i].id = t[j].id
               PROVE  i = j
    BY DEF NoTwin
  <2>1. /\ i + 1 \in DOMAIN q /\ q[i + 1] = t[i]
        /\ j + 1 \in DOMAIN q /\ q[j + 1] = t[j]
    BY <1>1
  <2>2. i + 1 = j + 1
    BY <1>3, <2>1 DEF NoTwin
  <2>3. QED
    BY <1>1, <2>2
<1>4. ASSUME NoTwin(q), Head(q).from = "ingress", Head(q).id \in WireIds(t)
      PROVE  FALSE
  <2>1. PICK i \in DOMAIN t : t[i].from = "ingress" /\ t[i].id = Head(q).id
    BY <1>4 DEF WireIds
  <2>2. i + 1 \in DOMAIN q /\ q[i + 1] = t[i] /\ 1 \in DOMAIN q /\ i + 1 # 1
    BY <1>1
  <2>3. QED
    BY <1>1, <1>4, <2>1, <2>2 DEF NoTwin
<1>5. QED
  BY <1>2, <1>3, <1>4 DEF t

LEMMA EmptyWire == WireIds(<<>>) = {} /\ NoTwin(<<>>)
  BY DEF WireIds, NoTwin

-----------------------------------------------------------------------------
(* Accepted ids are accounted for. *)

LEMMA InitAccounted == Init => AcceptedIdsAccounted
  BY EmptyWire DEF Init, AcceptedIdsAccounted, MainIds, BusyIds, ServedIds, ServedNow,
                   ExecutedOncePerLife

\* A step that leaves these variables alone cannot disturb the accounting.
LEMMA AccountedFrame ==
    ASSUME AcceptedIdsAccounted,
           UNCHANGED <<phase, main, mainCmd, activeIds, queue, served, life>>,
           BusyIds' = BusyIds, (worker = "exited") = (worker' = "exited")
    PROVE  AcceptedIdsAccounted'
  BY DEF AcceptedIdsAccounted, MainIds, WireIds, NoTwin, ServedIds, ServedNow,
         ExecutedOncePerLife

LEMMA DieAccounted ==
    ASSUME AcceptedIdsAccounted, NEW n, Die(n)
    PROVE  AcceptedIdsAccounted'
<1>1. /\ queue' = <<>> /\ MainIds' = {} /\ BusyIds' = {}
      /\ WireIds(queue)' = {} /\ NoTwin(queue)'
  BY EmptyWire DEF Die, MainIds, BusyIds
<1>2. QED
  BY <1>1 DEF Die, AcceptedIdsAccounted, ExecutedOncePerLife

LEMMA NextAccounted == TypeOK /\ AcceptedIdsAccounted /\ [Next]_vars => AcceptedIdsAccounted'
<1> SUFFICES ASSUME TypeOK, AcceptedIdsAccounted, [Next]_vars PROVE AcceptedIdsAccounted'
  OBVIOUS
<1> USE DEF envVars, mainVars, workerVars, outVars, sentVars
<1>1. CASE Tick
  BY <1>1, AccountedFrame DEF Tick, BusyIds
<1>2. ASSUME NEW m \in Messages, Send(m) PROVE AcceptedIdsAccounted'
  BY <1>2, AccountedFrame DEF Send, BusyIds
<1>3. CASE DropUnparsable
  BY <1>3, AccountedFrame DEF DropUnparsable, BusyIds
<1>4. CASE ReceiveCommand
  <2> DEFINE cmd == Parse(Head(inbox))
  <2>1. /\ phase = "up" /\ main = "recv"
        /\ UNCHANGED <<phase, queue, worker, current, served, life>>
    BY <1>4 DEF ReceiveCommand, MainReady
  <2>2. cmd.from = "ingress"
    BY DEF Parse
  <2> HIDE DEF cmd
  <2>3. /\ WireIds(queue)' = WireIds(queue) /\ NoTwin(queue)' = NoTwin(queue)
        /\ BusyIds' = BusyIds /\ ServedIds' = ServedIds /\ MainIds = {}
    BY <2>1 DEF WireIds, NoTwin, BusyIds, ServedIds, ServedNow, MainIds
  <2>4. CASE Valid(cmd, Head(inbox).msg.issuer)
    <3>1. /\ main' = "queueing" /\ mainCmd' = [cmd EXCEPT !.status = "QUEUED"]
          /\ activeIds' = activeIds \cup {cmd.id} /\ cmd.id \notin activeIds
      BY <1>4, <2>4 DEF ReceiveCommand, Valid, cmd
    <3>2. mainCmd'.id = cmd.id /\ mainCmd'.from = "ingress"
      BY <3>1, <2>2 DEF cmd, Parse
    <3>3. MainIds' = {cmd.id}
      BY <3>1, <3>2 DEF MainIds
    <3>4. QED
      BY <2>1, <2>3, <3>1, <3>2, <3>3 DEF AcceptedIdsAccounted, ExecutedOncePerLife
  <2>5. CASE ~Valid(cmd, Head(inbox).msg.issuer)
    <3>1. /\ main' = "refusing" /\ mainCmd' = [cmd EXCEPT !.status = "REJECTED"]
          /\ activeIds' = activeIds
      BY <1>4, <2>5 DEF ReceiveCommand, cmd
    <3>2. mainCmd'.from = "ingress" /\ MainIds' = {}
      BY <3>1, <2>2 DEF cmd, Parse, MainIds
    <3>3. QED
      BY <2>1, <2>3, <3>1, <3>2 DEF AcceptedIdsAccounted, ExecutedOncePerLife
  <2>6. QED
    BY <2>4, <2>5
<1>5. CASE Enqueue
  <2>1. /\ main = "queueing" /\ main' = "recv" /\ queue' = Append(queue, mainCmd)
        /\ UNCHANGED <<phase, activeIds, worker, current, served, life>>
    BY <1>5 DEF Enqueue, MainDone
  <2>2. phase # "down" /\ mainCmd.from = "ingress" /\ MainIds = {mainCmd.id} /\ MainIds' = {}
    BY <2>1 DEF AcceptedIdsAccounted, MainIds
  <2>3. WireIds(queue)' = WireIds(queue) \cup {mainCmd.id} /\ NoTwin(queue)'
    BY <2>1, <2>2, AppendWire DEF AcceptedIdsAccounted, TypeOK
  <2>4. BusyIds' = BusyIds /\ ServedIds' = ServedIds
    BY <2>1 DEF BusyIds, ServedIds, ServedNow
  <2>5. QED
    BY <2>1, <2>2, <2>3, <2>4 DEF AcceptedIdsAccounted, ExecutedOncePerLife
<1>6. CASE Refuse
  <2>1. /\ main = "refusing" /\ main' = "recv"
        /\ UNCHANGED <<phase, activeIds, queue, worker, current, served, life>>
    BY <1>6 DEF Refuse, MainDone
  <2>2. /\ WireIds(queue)' = WireIds(queue) /\ NoTwin(queue)' = NoTwin(queue)
        /\ BusyIds' = BusyIds /\ ServedIds' = ServedIds /\ MainIds = {} /\ MainIds' = {}
    BY <2>1 DEF WireIds, NoTwin, BusyIds, ServedIds, ServedNow, MainIds
  <2>3. /\ activeIds' = activeIds /\ phase' = phase /\ main' # "queueing" /\ served' = served
        /\ life' = life
    BY <2>1
  <2>4. ExecutedOncePerLife'
    BY <2>3 DEF AcceptedIdsAccounted, ExecutedOncePerLife
  <2>5. QED
    BY <2>1, <2>2, <2>3, <2>4 DEF AcceptedIdsAccounted
<1>7. ASSUME NEW lid \in Lids, NEW sig \in {84, 123}, HardwareEvent(lid, sig)
      PROVE  AcceptedIdsAccounted'
  <2> DEFINE c == [uid |-> nextUid, sig |-> sig, id |-> <<"hw_evt", sig, clock>>,
                   from |-> "status_subscriber", status |-> "RECEIVED"]
  <2>1. /\ phase # "down" /\ queue' = Append(queue, c)
        /\ UNCHANGED <<phase, main, mainCmd, activeIds, worker, current, served, life>>
    BY <1>7 DEF HardwareEvent
  <2>2. sig \in U16
    BY DEF U16
  <2>3. c \in Command
    <3>1. nextUid \in Nat /\ clock \in Nat
      BY DEF TypeOK
    <3>2. <<"hw_evt", sig, clock>> \in CommandId
      BY <2>2, <3>1 DEF CommandId
    <3> QED
      BY <2>2, <3>1, <3>2 DEF Command, Origin, Status
  <2>4. c.from # "ingress"
    OBVIOUS
  <2> HIDE DEF c
  <2>5. WireIds(queue)' = WireIds(queue) /\ NoTwin(queue)'
    <3>1. queue \in Seq(Command) /\ NoTwin(queue)
      BY DEF AcceptedIdsAccounted, TypeOK
    <3>2. WireIds(Append(queue, c)) = WireIds(queue) /\ NoTwin(Append(queue, c))
      BY <2>3, <2>4, <3>1, AppendHardware
    <3>3. QED
      BY <2>1, <3>2
  <2>6. MainIds' = MainIds /\ BusyIds' = BusyIds /\ ServedIds' = ServedIds
    BY <2>1 DEF MainIds, BusyIds, ServedIds, ServedNow
  <2>7. QED
    BY <2>1, <2>5, <2>6 DEF AcceptedIdsAccounted, ExecutedOncePerLife
<1>8. CASE Pop
  <2>1. /\ worker = "pop" /\ queue # <<>> /\ queue' = Tail(queue) /\ worker' = "dispatching"
        /\ current' = [Head(queue) EXCEPT !.status = "DISPATCHING"]
        /\ UNCHANGED <<phase, main, mainCmd, activeIds, served, life>>
    BY <1>8 DEF Pop
  <2>2. Head(queue) \in Command
    BY <2>1, TakeType DEF TypeOK
  <2>3. current'.id = Head(queue).id /\ current'.from = Head(queue).from
    BY <2>1, <2>2 DEF Command
  <2>4. BusyIds = {} /\ BusyIds' = IF Head(queue).from = "ingress" THEN {Head(queue).id} ELSE {}
    BY <2>1, <2>3 DEF BusyIds
  <2>5. /\ WireIds(queue) = WireIds(queue)' \cup BusyIds'
        /\ NoTwin(queue)' /\ WireIds(queue)' \cap BusyIds' = {}
    BY <2>1, <2>4, TailWire DEF AcceptedIdsAccounted, TypeOK
  <2>6. MainIds' = MainIds /\ ServedIds' = ServedIds /\ phase # "down"
    BY <2>1 DEF MainIds, ServedIds, ServedNow, AcceptedIdsAccounted
  <2>7. QED
    BY <2>1, <2>4, <2>5, <2>6 DEF AcceptedIdsAccounted, ExecutedOncePerLife
<1>9. CASE PopTimeout
  <2>1. /\ worker = "pop" /\ queue = <<>> /\ worker' = "exited"
        /\ UNCHANGED <<phase, main, mainCmd, activeIds, queue, current, served, life>>
    BY <1>9 DEF PopTimeout
  <2>2. /\ WireIds(queue)' = WireIds(queue) /\ NoTwin(queue)' = NoTwin(queue)
        /\ BusyIds' = BusyIds /\ ServedIds' = ServedIds /\ MainIds' = MainIds
    BY <2>1 DEF WireIds, NoTwin, BusyIds, ServedIds, ServedNow, MainIds
  <2>3. QED
    BY <2>1, <2>2 DEF AcceptedIdsAccounted, ExecutedOncePerLife
<1>10. CASE Handle
  <2>1. /\ worker = "dispatching" /\ worker' = "answering"
        /\ served' = served \cup {Execution(current)}
        /\ UNCHANGED <<phase, main, mainCmd, activeIds, queue, life>>
    BY <1>10 DEF Handle
  <2>2. BusyIds' = {} /\ MainIds' = MainIds
    BY <2>1 DEF BusyIds, MainIds
  <2>3. WireIds(queue)' = WireIds(queue) /\ NoTwin(queue)' = NoTwin(queue)
    BY <2>1 DEF WireIds, NoTwin
  <2>4. ServedIds' = ServedIds \cup BusyIds
    <3>1. ServedNow' = ServedNow \cup
              (IF current.from = "ingress" THEN {Execution(current)} ELSE {})
      BY <2>1 DEF ServedNow, Execution
    <3>2. Execution(current).id = current.id
      BY DEF Execution
    <3>3. QED
      BY <2>1, <3>1, <3>2 DEF ServedIds, BusyIds
  <2>5. \A c \in served' : c.life <= life'
    BY <2>1 DEF Execution, AcceptedIdsAccounted, TypeOK
  <2>6. ExecutedOncePerLife'
    <3> SUFFICES ASSUME NEW c \in served', NEW d \in served', c.from = "ingress",
                        d.from = "ingress", c.life = d.life, c.id = d.id
                 PROVE  c.uid = d.uid
      BY DEF ExecutedOncePerLife
    <3>1. ASSUME NEW x \in served, x.from = "ingress", current.from = "ingress",
                 x.life = life, x.id = current.id
          PROVE  FALSE
      <4>1. x.id \in ServedIds /\ x.id \in BusyIds
        BY <2>1, <3>1 DEF ServedIds, ServedNow, BusyIds
      <4>2. QED
        BY <4>1 DEF AcceptedIdsAccounted
    <3>2. /\ Execution(current).from = current.from /\ Execution(current).life = life
          /\ Execution(current).id = current.id
      BY DEF Execution
    <3>3. CASE c \in served /\ d \in served
      BY <3>3 DEF AcceptedIdsAccounted, ExecutedOncePerLife
    <3>4. CASE c = Execution(current) /\ d = Execution(current)
      BY <3>4
    <3>5. CASE c \in served /\ d = Execution(current)
      BY <3>1, <3>2, <3>5
    <3>6. CASE c = Execution(current) /\ d \in served
      BY <3>1, <3>2, <3>6
    <3>7. QED
      BY <2>1, <3>3, <3>4, <3>5, <3>6
  <2>7. phase # "down"
    BY <2>1 DEF AcceptedIdsAccounted
  <2>8. QED
    BY <2>1, <2>2, <2>3, <2>4, <2>5, <2>6, <2>7 DEF AcceptedIdsAccounted
<1>11. CASE Answer
  BY <1>11, AccountedFrame DEF Answer, BusyIds
<1>12. CASE SocketRace
  <2>1. /\ main = "refusing" /\ main' = "recv" /\ worker = "answering" /\ worker' = "logging"
        /\ UNCHANGED <<phase, activeIds, queue, served, life>>
    BY <1>12 DEF SocketRace, MainDone
  <2>2. /\ WireIds(queue)' = WireIds(queue) /\ NoTwin(queue)' = NoTwin(queue)
        /\ BusyIds' = BusyIds /\ ServedIds' = ServedIds /\ MainIds = {} /\ MainIds' = {}
    BY <2>1 DEF WireIds, NoTwin, BusyIds, ServedIds, ServedNow, MainIds
  <2>3. QED
    BY <2>1, <2>2 DEF AcceptedIdsAccounted, ExecutedOncePerLife
<1>13. CASE Log
  <2>1. /\ worker = "logging" /\ worker' \in {"pop", "exited"}
        /\ UNCHANGED <<phase, main, mainCmd, activeIds, queue, served, life>>
    BY <1>13 DEF Log
  <2>2. /\ WireIds(queue)' = WireIds(queue) /\ NoTwin(queue)' = NoTwin(queue)
        /\ BusyIds' = BusyIds /\ ServedIds' = ServedIds /\ MainIds' = MainIds
    BY <2>1 DEF WireIds, NoTwin, BusyIds, ServedIds, ServedNow, MainIds
  <2>3. phase # "down"
    BY <2>1 DEF AcceptedIdsAccounted
  <2>4. QED
    BY <2>1, <2>2, <2>3 DEF AcceptedIdsAccounted, ExecutedOncePerLife
<1>14. ASSUME NEW c \in confirming, ConfirmTreat(c) PROVE AcceptedIdsAccounted'
  BY <1>14, AccountedFrame DEF ConfirmTreat, BusyIds
<1>15. ASSUME phase' # "down", phase # "down",
              UNCHANGED <<main, mainCmd, activeIds, queue, worker, current, served, life>>
       PROVE  AcceptedIdsAccounted'
  <2>1. /\ WireIds(queue)' = WireIds(queue) /\ NoTwin(queue)' = NoTwin(queue)
        /\ BusyIds' = BusyIds /\ ServedIds' = ServedIds /\ MainIds' = MainIds
    BY <1>15 DEF WireIds, NoTwin, BusyIds, ServedIds, ServedNow, MainIds
  <2>2. QED
    BY <1>15, <2>1 DEF AcceptedIdsAccounted, ExecutedOncePerLife
<1>16. CASE Shutdown
  BY <1>15, <1>16 DEF Shutdown
<1>17. CASE JoinWorker
  BY <1>15, <1>17 DEF JoinWorker
<1>18. CASE Exit
  BY <1>18, DieAccounted DEF Exit
<1>19. CASE Crash
  BY <1>19, DieAccounted DEF Crash
<1>20. CASE DieOnMistyped
  BY <1>20, DieAccounted DEF DieOnMistyped
<1>21. CASE Start
  <2>1. /\ phase = "down" /\ phase' = "up" /\ life' = life + 1 /\ worker' = "pop"
        /\ UNCHANGED <<main, mainCmd, activeIds, queue, current, served>>
    BY <1>21 DEF Start
  <2>2. main = "recv" /\ queue = <<>> /\ activeIds = {} /\ \A c \in served : c.life <= life
    BY <2>1 DEF AcceptedIdsAccounted
  <2>3. ServedNow' = {}
    BY <2>1, <2>2 DEF ServedNow, TypeOK
  <2>4. ServedIds' = {} /\ MainIds' = {} /\ BusyIds' = {}
    BY <2>1, <2>2, <2>3 DEF ServedIds, MainIds, BusyIds
  <2>5. WireIds(queue)' = {} /\ NoTwin(queue)'
    BY <2>1, <2>2, EmptyWire
  <2>6. \A c \in served' : c.life <= life'
    BY <2>1, <2>2 DEF TypeOK
  <2>7. QED
    BY <2>1, <2>2, <2>4, <2>5, <2>6 DEF AcceptedIdsAccounted, ExecutedOncePerLife
<1>22. ASSUME NEW thread \in {"main", "worker"}, WaitForEver(thread) PROVE AcceptedIdsAccounted'
  BY <1>22, AccountedFrame DEF WaitForEver, BusyIds
<1>23. CASE UNCHANGED vars
  BY <1>23, AccountedFrame DEF vars, BusyIds
<1>24. QED
  BY <1>1, <1>2, <1>3, <1>4, <1>5, <1>6, <1>7, <1>8, <1>9, <1>10, <1>11, <1>12, <1>13,
     <1>14, <1>16, <1>17, <1>18, <1>19, <1>20, <1>21, <1>22, <1>23 DEF Next

\* Each id the dispatcher accepted is in exactly one place of the pipeline.
THEOREM AccountedAlways == Spec => []AcceptedIdsAccounted
  BY TypeCorrect, InitAccounted, NextAccounted, PTL DEF Spec

\* No command of the ingress runs twice in one life of the service, for any
\* number of messages, whatever main, worker, sensor thread and crashes do.
THEOREM ExecutedOnce == Spec => []ExecutedOncePerLife
<1>1. AcceptedIdsAccounted => ExecutedOncePerLife
  BY DEF AcceptedIdsAccounted
<1>2. QED
  BY <1>1, AccountedAlways, PTL

\* No accepted command is lost between the threads while the service lives.
THEOREM NothingLost == Spec => []AcceptedNotLost
<1>1. TypeOK /\ AcceptedIdsAccounted => AcceptedNotLost
  BY DEF AcceptedIdsAccounted, AcceptedNotLost, MainIds, WireIds, BusyIds, ServedIds, ServedNow
<1>2. QED
  BY <1>1, TypeCorrect, AccountedAlways, PTL

-----------------------------------------------------------------------------
(* Where the numbers of the messages and events are.  AcceptedIdsAccounted    *)
(* speaks of command_ids, which senders repeat; answers and order need the    *)
(* numbers, which are given once.                                             *)

Uids(q) == {q[i].uid : i \in DOMAIN q}
WireUids(q) == {q[i].uid : i \in {j \in DOMAIN q : q[j].from = "ingress"}}
Distinct(q) == \A i, j \in DOMAIN q : q[i].uid = q[j].uid => i = j
Rising(q) ==
    \A i, j \in DOMAIN q :
        q[i].from = "ingress" /\ q[j].from = "ingress" /\ i < j => q[i].uid < q[j].uid
Increasing(q) == \A i, j \in DOMAIN q : i < j => q[i].uid < q[j].uid

MainUids == IF main # "recv" THEN {mainCmd.uid} ELSE {}
BusyUids == IF worker = "dispatching" THEN {current.uid} ELSE {}
BusyWire == IF worker = "dispatching" /\ current.from = "ingress" THEN {current.uid} ELSE {}
RanUids == {c.uid : c \in served}
RanWire == {c.uid : c \in {d \in served : d.from = "ingress"}}
RefusedUids == {r.uid : r \in {s \in results : s.status = "REJECTED"}}

\* I: inbox, M: main thread, Q: queue, B: worker, R: handler ran, X: refused.
Apart(I, M, Q, B, R, X) ==
    /\ I \cap (M \cup Q \cup B \cup R \cup X) = {}
    /\ M \cap (Q \cup B \cup R \cup X) = {}
    /\ Q \cap (B \cup R \cup X) = {}
    /\ B \cap (R \cup X) = {}
    /\ R \cap X = {}

\* Each number given so far is in at most one place.
UidsApart ==
    /\ nextUid <= MaxUid + 1
    /\ Uids(inbox) \cup MainUids \cup Uids(queue) \cup BusyUids \cup RanUids \cup RefusedUids
           \subseteq 1 .. nextUid - 1
    /\ Apart(Uids(inbox), MainUids, Uids(queue), BusyUids, RanUids, RefusedUids)
    /\ Distinct(queue)
    /\ Increasing(inbox)

Before(A, B) == \A a \in A, b \in B : a < b

\* The commands of the ingress stand in the order they were sent.
WireOrdered ==
    /\ Before(RanWire, BusyWire \cup WireUids(queue) \cup MainUids \cup Uids(inbox))
    /\ Before(BusyWire, WireUids(queue) \cup MainUids \cup Uids(inbox))
    /\ Before(WireUids(queue), MainUids \cup Uids(inbox))
    /\ Before(MainUids, Uids(inbox))
    /\ Rising(queue)

AnswersAgree(u, st) == \A r \in results : r.uid = u => r.status = st

NoFailureTold(u) == \A r \in results : r.uid = u => r.status # "FAILED"
RowHolds(w) ==
    /\ w.signal \in Reporting \ {65} => AnswersAgree(w.uid, w.status)
    /\ w.signal = 65 /\ w.status # "FAILED" => NoFailureTold(w.uid)

\* What the two threads know when they answer, log and confirm.
AnswersRight ==
    /\ \A r, s \in results : r.uid = s.uid => r = s
    /\ \A r \in results : r.status # "REJECTED" => r.uid \in RanUids
    /\ main = "refusing" => mainCmd.status = "REJECTED"
    /\ worker \in {"answering", "logging"} =>
           current.uid \in RanUids /\ current.status \in {"COMPLETED", "FAILED"}
    /\ worker = "answering" =>
           /\ \A r \in results : r.uid # current.uid
           /\ \A w \in rows : w.uid # current.uid
           /\ \A c \in confirming : c.uid # current.uid
    /\ worker = "logging" => AnswersAgree(current.uid, current.status)
    /\ \A w \in rows : w.uid \in RanUids /\ RowHolds(w)
    /\ \A c \in confirming : c.uid \in RanUids /\ AnswersAgree(c.uid, c.status)

-----------------------------------------------------------------------------
(* How the numbers in a sequence change at its ends. *)

LEMMA AppendUids ==
    ASSUME NEW S, NEW q \in Seq(S), NEW c \in S
    PROVE  /\ Uids(Append(q, c)) = Uids(q) \cup {c.uid}
           /\ Distinct(q) /\ c.uid \notin Uids(q) => Distinct(Append(q, c))
           /\ Increasing(q) /\ Before(Uids(q), {c.uid}) => Increasing(Append(q, c))
<1> DEFINE p == Append(q, c)
<1>1. /\ DOMAIN q = 1 .. Len(q) /\ Len(q) \in Nat
      /\ DOMAIN p = 1 .. Len(q) + 1
      /\ \A i \in 1 .. Len(q) : p[i] = q[i]
      /\ p[Len(q) + 1] = c
  BY AppendProperties, LenProperties
<1> HIDE DEF p
<1>2. Uids(p) = Uids(q) \cup {c.uid}
  BY <1>1 DEF Uids
<1>3. ASSUME Distinct(q), c.uid \notin Uids(q) PROVE Distinct(p)
  BY <1>1, <1>3 DEF Distinct, Uids
<1>4. ASSUME Increasing(q), Before(Uids(q), {c.uid}) PROVE Increasing(p)
  <2> SUFFICES ASSUME NEW i \in DOMAIN p, NEW j \in DOMAIN p, i < j
               PROVE  p[i].uid < p[j].uid
    BY DEF Increasing
  <2>1. CASE j = Len(q) + 1
    <3>1. i \in DOMAIN q /\ p[i].uid \in Uids(q) /\ p[j] = c
      BY <1>1, <2>1 DEF Uids
    <3>2. QED
      BY <1>4, <3>1 DEF Before
  <2>2. CASE j # Len(q) + 1
    BY <1>1, <1>4, <2>2 DEF Increasing
  <2>3. QED
    BY <2>1, <2>2
<1>5. QED
  BY <1>2, <1>3, <1>4 DEF p

LEMMA TailUids ==
    ASSUME NEW S, NEW q \in Seq(S), q # <<>>
    PROVE  /\ Uids(q) = {Head(q).uid} \cup Uids(Tail(q))
           /\ Distinct(q) => Distinct(Tail(q)) /\ Head(q).uid \notin Uids(Tail(q))
           /\ Increasing(q) => Increasing(Tail(q)) /\ Before({Head(q).uid}, Uids(Tail(q)))
<1> DEFINE t == Tail(q)
<1>1. /\ DOMAIN q = 1 .. Len(q) /\ Len(q) \in Nat \ {0}
      /\ DOMAIN t = 1 .. Len(q) - 1
      /\ \A i \in 1 .. Len(q) - 1 : t[i] = q[i + 1]
      /\ Head(q) = q[1]
  BY HeadTailProperties, LenProperties, EmptySeq
<1> HIDE DEF t
<1>2. 1 \in DOMAIN q /\ \A i \in DOMAIN t : i + 1 \in DOMAIN q /\ i + 1 # 1 /\ t[i] = q[i + 1]
  BY <1>1
<1>3. \A i \in DOMAIN q : i = 1 \/ (i - 1 \in DOMAIN t /\ t[i - 1] = q[i])
  BY <1>1
<1>4. Uids(q) = {Head(q).uid} \cup Uids(t)
  BY <1>1, <1>2, <1>3 DEF Uids
<1>5. ASSUME Distinct(q) PROVE Distinct(t) /\ Head(q).uid \notin Uids(t)
  <2>1. ASSUME NEW i \in DOMAIN t, NEW j \in DOMAIN t, t[i].uid = t[j].uid PROVE i = j
    <3>1. i + 1 = j + 1
      BY <1>2, <1>5, <2>1 DEF Distinct
    <3>2. QED
      BY <1>1, <3>1
  <2>2. ASSUME NEW i \in DOMAIN t, t[i].uid = Head(q).uid PROVE FALSE
    BY <1>1, <1>2, <1>5, <2>2 DEF Distinct
  <2>3. QED
    BY <2>1, <2>2 DEF Distinct, Uids
<1>6. ASSUME Increasing(q) PROVE Increasing(t) /\ Before({Head(q).uid}, Uids(t))
  <2>1. ASSUME NEW i \in DOMAIN t, NEW j \in DOMAIN t, i < j PROVE t[i].uid < t[j].uid
    <3>1. i + 1 < j + 1
      BY <1>1, <2>1
    <3>2. QED
      BY <1>2, <1>6, <3>1 DEF Increasing
  <2>2. ASSUME NEW i \in DOMAIN t PROVE Head(q).uid < t[i].uid
    <3>1. 1 < i + 1
      BY <1>1
    <3>2. QED
      BY <1>1, <1>2, <1>6, <3>1 DEF Increasing
  <2>3. QED
    BY <2>1, <2>2 DEF Increasing, Before, Uids
<1>7. QED
  BY <1>4, <1>5, <1>6 DEF t

LEMMA SuffixUids ==
    ASSUME NEW S, NEW q \in Seq(S), NEW k \in Nat, Increasing(q)
    PROVE  LET s == SubSeq(q, k + 1, Len(q))
           IN  Uids(s) \subseteq Uids(q) /\ Increasing(s)
<1> DEFINE s == SubSeq(q, k + 1, Len(q))
<1>1. DOMAIN q = 1 .. Len(q) /\ Len(q) \in Nat /\ \A i \in 1 .. Len(q) : q[i] \in S
  BY LenProperties, ElementOfSeq
<1>2. \A i \in k + 1 .. Len(q) : q[i] \in S
  BY <1>1
<1>3. /\ s \in Seq(S)
      /\ Len(s) = IF k + 1 <= Len(q) THEN Len(q) - k ELSE 0
      /\ \A i \in 1 .. Len(q) - k : s[i] = q[k + i]
  BY <1>1, <1>2, SubSeqProperties
<1> HIDE DEF s
<1>4. DOMAIN s = 1 .. Len(s)
  BY <1>3, LenProperties
<1>5. \A i \in DOMAIN s : k + i \in DOMAIN q /\ s[i] = q[k + i]
  <2> SUFFICES ASSUME NEW i \in DOMAIN s PROVE k + i \in DOMAIN q /\ s[i] = q[k + i]
    OBVIOUS
  <2>1. i \in 1 .. Len(q) - k
    <3>1. i \in 1 .. Len(s)
      BY <1>4
    <3>2. CASE k + 1 <= Len(q)
      BY <1>3, <3>1, <3>2
    <3>3. CASE ~(k + 1 <= Len(q))
      BY <1>3, <3>1, <3>3
    <3>4. QED
      BY <3>2, <3>3
  <2>2. k + i \in 1 .. Len(q)
    BY <1>1, <2>1
  <2>3. QED
    BY <1>1, <1>3, <2>1, <2>2
<1>6. ASSUME NEW i \in DOMAIN s, NEW j \in DOMAIN s, i < j PROVE s[i].uid < s[j].uid
  <2>1. k + i < k + j
    BY <1>3, <1>4, <1>6
  <2>2. QED
    BY <1>5, <2>1 DEF Increasing
<1>7. Uids(s) \subseteq Uids(q) /\ Increasing(s)
  BY <1>5, <1>6 DEF Uids, Increasing
<1>8. QED
  BY <1>7 DEF s

WireUid(c) == IF c.from = "ingress" THEN {c.uid} ELSE {}

LEMMA AppendRising ==
    ASSUME NEW q \in Seq(Command), NEW c \in Command
    PROVE  /\ WireUids(Append(q, c)) = WireUids(q) \cup WireUid(c)
           /\ Rising(q) /\ Before(WireUids(q), WireUid(c)) => Rising(Append(q, c))
<1> DEFINE p == Append(q, c)
<1>1. /\ DOMAIN q = 1 .. Len(q) /\ Len(q) \in Nat
      /\ DOMAIN p = 1 .. Len(q) + 1
      /\ \A i \in 1 .. Len(q) : p[i] = q[i]
      /\ p[Len(q) + 1] = c
  BY AppendProperties, LenProperties
<1> HIDE DEF p
<1>2. WireUids(p) = WireUids(q) \cup WireUid(c)
  BY <1>1 DEF WireUids, WireUid
<1>3. ASSUME Rising(q), Before(WireUids(q), WireUid(c)) PROVE Rising(p)
  <2> SUFFICES ASSUME NEW i \in DOMAIN p, NEW j \in DOMAIN p,
                      p[i].from = "ingress", p[j].from = "ingress", i < j
               PROVE  p[i].uid < p[j].uid
    BY DEF Rising
  <2>1. CASE j = Len(q) + 1
    <3>1. i \in DOMAIN q /\ p[i].uid \in WireUids(q) /\ p[j].uid \in WireUid(c)
      BY <1>1, <2>1 DEF WireUids, WireUid
    <3>2. QED
      BY <1>3, <3>1 DEF Before
  <2>2. CASE j # Len(q) + 1
    BY <1>1, <1>3, <2>2 DEF Rising
  <2>3. QED
    BY <2>1, <2>2
<1>4. QED
  BY <1>2, <1>3 DEF p

LEMMA TailRising ==
    ASSUME NEW q \in Seq(Command), q # <<>>
    PROVE  /\ WireUids(q) = WireUid(Head(q)) \cup WireUids(Tail(q))
           /\ Rising(q) => Rising(Tail(q)) /\ Before(WireUid(Head(q)), WireUids(Tail(q)))
<1> DEFINE t == Tail(q)
<1>1. /\ DOMAIN q = 1 .. Len(q) /\ Len(q) \in Nat \ {0}
      /\ DOMAIN t = 1 .. Len(q) - 1
      /\ \A i \in 1 .. Len(q) - 1 : t[i] = q[i + 1]
      /\ Head(q) = q[1]
  BY HeadTailProperties, LenProperties, EmptySeq
<1> HIDE DEF t
<1>2. 1 \in DOMAIN q /\ \A i \in DOMAIN t : i + 1 \in DOMAIN q /\ i + 1 # 1 /\ t[i] = q[i + 1]
  BY <1>1
<1>3. \A i \in DOMAIN q : i = 1 \/ (i - 1 \in DOMAIN t /\ t[i - 1] = q[i])
  BY <1>1
<1>4. WireUids(q) = WireUid(Head(q)) \cup WireUids(t)
  BY <1>1, <1>2, <1>3 DEF WireUids, WireUid
<1>5. ASSUME Rising(q) PROVE Rising(t) /\ Before(WireUid(Head(q)), WireUids(t))
  <2>1. ASSUME NEW i \in DOMAIN t, NEW j \in DOMAIN t,
               t[i].from = "ingress", t[j].from = "ingress", i < j
        PROVE  t[i].uid < t[j].uid
    <3>1. i + 1 < j + 1
      BY <1>1, <2>1
    <3>2. QED
      BY <1>2, <1>5, <2>1, <3>1 DEF Rising
  <2>2. ASSUME NEW i \in DOMAIN t, t[i].from = "ingress", Head(q).from = "ingress"
        PROVE  Head(q).uid < t[i].uid
    <3>1. 1 < i + 1
      BY <1>1
    <3>2. QED
      BY <1>1, <1>2, <1>5, <2>2, <3>1 DEF Rising
  <2>3. QED
    BY <2>1, <2>2 DEF Rising, Before, WireUids, WireUid
<1>6. QED
  BY <1>4, <1>5 DEF t

LEMMA EmptyUids ==
    /\ Uids(<<>>) = {} /\ WireUids(<<>>) = {}
    /\ Distinct(<<>>) /\ Increasing(<<>>) /\ Rising(<<>>)
  BY DEF Uids, WireUids, Distinct, Increasing, Rising

LEMMA WireAmong == ASSUME NEW q PROVE WireUids(q) \subseteq Uids(q)
  BY DEF WireUids, Uids

-----------------------------------------------------------------------------
(* Every number is in one place, and the ingress's commands keep their order. *)

Places == UidsApart /\ WireOrdered

LEMMA InitPlaces == Init => Places
<1> SUFFICES ASSUME Init PROVE Places
  OBVIOUS
<1>1. /\ Uids(inbox) = {} /\ Uids(queue) = {} /\ WireUids(queue) = {}
      /\ Distinct(queue) /\ Increasing(inbox) /\ Rising(queue)
  BY EmptyUids DEF Init
<1>2. /\ MainUids = {} /\ BusyUids = {} /\ BusyWire = {}
      /\ RanUids = {} /\ RanWire = {} /\ RefusedUids = {}
  BY DEF Init, MainUids, BusyUids, BusyWire, RanUids, RanWire, RefusedUids
<1>3. nextUid = 1 /\ MaxUid \in Nat
  BY ConstantAssumption DEF Init
<1>4. QED
  BY <1>1, <1>2, <1>3 DEF Places, UidsApart, Apart, WireOrdered, Before

\* Places may only lose numbers: nothing can get out of place.
LEMMA PlacesShrink ==
    ASSUME Places, nextUid' = nextUid,
           Uids(inbox)' \subseteq Uids(inbox), MainUids' \subseteq MainUids,
           Uids(queue)' \subseteq Uids(queue), WireUids(queue)' \subseteq WireUids(queue),
           BusyUids' \subseteq BusyUids, BusyWire' \subseteq BusyWire,
           RanUids' \subseteq RanUids, RanWire' \subseteq RanWire,
           RefusedUids' \subseteq RefusedUids,
           Distinct(queue)', Rising(queue)', Increasing(inbox)'
    PROVE  Places'
<1>1. UidsApart'
  <2>1. Apart(Uids(inbox), MainUids, Uids(queue), BusyUids, RanUids, RefusedUids)'
    BY DEF Places, UidsApart, Apart
  <2>2. QED
    BY <2>1 DEF Places, UidsApart
<1>2. WireOrdered'
  BY DEF Places, WireOrdered, Before
<1>3. QED
  BY <1>1, <1>2 DEF Places

\* A step that touches none of these variables.
LEMMA PlacesFrame ==
    ASSUME Places, UNCHANGED <<nextUid, inbox, main, mainCmd, queue, served, results>>,
           BusyUids' \subseteq BusyUids, BusyWire' \subseteq BusyWire
    PROVE  Places'
<1>1. /\ Uids(inbox)' = Uids(inbox) /\ Uids(queue)' = Uids(queue)
      /\ WireUids(queue)' = WireUids(queue)
  BY DEF Uids, WireUids
<1>2. MainUids' = MainUids /\ RanUids' = RanUids /\ RanWire' = RanWire /\ RefusedUids' = RefusedUids
  BY DEF MainUids, RanUids, RanWire, RefusedUids
<1>3. Distinct(queue)' /\ Rising(queue)' /\ Increasing(inbox)'
  BY DEF Places, UidsApart, WireOrdered, Distinct, Rising, Increasing
<1>4. QED
  BY <1>1, <1>2, <1>3, PlacesShrink

LEMMA DiePlaces ==
    ASSUME TypeOK, Places, NEW n \in Nat, Die(n)
    PROVE  Places'
<1>1. PICK k \in n .. Len(inbox) : inbox' = SubSeq(inbox, k + 1, Len(inbox))
  BY DEF Die
<1>2. k \in Nat /\ inbox \in Seq(Entry) /\ Increasing(inbox)
  BY LenProperties DEF TypeOK, Entry, Places, UidsApart
<1>3. Uids(inbox)' \subseteq Uids(inbox) /\ Increasing(inbox)'
  BY <1>1, <1>2, SuffixUids
<1>4. /\ Uids(queue)' = {} /\ WireUids(queue)' = {}
      /\ Distinct(queue)' /\ Rising(queue)'
  BY EmptyUids DEF Die
<1>5. /\ MainUids' = {} /\ BusyUids' = {} /\ BusyWire' = {} /\ nextUid' = nextUid
      /\ RanUids' = RanUids /\ RanWire' = RanWire /\ RefusedUids' = RefusedUids
  BY DEF Die, MainUids, BusyUids, BusyWire, RanUids, RanWire, RefusedUids, sentVars
<1>6. QED
  BY <1>3, <1>4, <1>5, PlacesShrink

\* The number of the message or event just given out is larger than all others.
LEMMA NextUidFresh ==
    ASSUME TypeOK, Places, nextUid <= MaxUid
    PROVE  /\ nextUid \in Nat /\ nextUid + 1 <= MaxUid + 1
           /\ \A u \in Uids(inbox) \cup MainUids \cup Uids(queue) \cup BusyUids \cup RanUids
                         \cup RefusedUids : u \in Nat /\ u < nextUid
           /\ 1 .. nextUid - 1 \subseteq 1 .. nextUid /\ nextUid \in 1 .. nextUid
  BY ConstantAssumption DEF TypeOK, Places, UidsApart

LEMMA SendPlaces ==
    ASSUME TypeOK, Places, NEW m \in Messages, Send(m)
    PROVE  Places'
<1> USE DEF mainVars, workerVars, outVars, sentVars
<1> DEFINE e == [uid |-> nextUid, msg |-> m]
<1>1. /\ nextUid <= MaxUid /\ nextUid' = nextUid + 1 /\ inbox' = Append(inbox, e)
      /\ UNCHANGED <<main, mainCmd, queue, worker, current, served, results>>
  BY DEF Send
<1>2. e \in Entry /\ e.uid = nextUid /\ inbox \in Seq(Entry)
  BY ConstantAssumption DEF Entry, TypeOK
<1> HIDE DEF e
<1>3. /\ nextUid \in Nat /\ nextUid' <= MaxUid + 1
      /\ \A u \in Uids(inbox) \cup MainUids \cup Uids(queue) \cup BusyUids \cup RanUids
                    \cup RefusedUids : u \in Nat /\ u < nextUid
  BY <1>1, NextUidFresh
<1>4. Before(Uids(inbox), {e.uid})
  BY <1>2, <1>3 DEF Before
<1>5. Uids(inbox)' = Uids(inbox) \cup {nextUid} /\ Increasing(inbox)'
  BY <1>1, <1>2, <1>4, AppendUids DEF Places, UidsApart
<1>6. /\ Uids(queue)' = Uids(queue) /\ WireUids(queue)' = WireUids(queue)
      /\ MainUids' = MainUids /\ BusyUids' = BusyUids /\ BusyWire' = BusyWire
      /\ RanUids' = RanUids /\ RanWire' = RanWire /\ RefusedUids' = RefusedUids
  BY <1>1 DEF Uids, WireUids, MainUids, BusyUids, BusyWire, RanUids, RanWire, RefusedUids
<1>7. Distinct(queue)' /\ Rising(queue)'
  BY <1>1 DEF Places, UidsApart, WireOrdered, Distinct, Rising
<1>8. UidsApart'
  <2>1. nextUid \notin MainUids \cup Uids(queue) \cup BusyUids \cup RanUids \cup RefusedUids
    BY <1>3
  <2>2. Apart(Uids(inbox), MainUids, Uids(queue), BusyUids, RanUids, RefusedUids)'
    BY <1>5, <1>6, <2>1 DEF Places, UidsApart, Apart
  <2>3. (Uids(inbox) \cup MainUids \cup Uids(queue) \cup BusyUids \cup RanUids
             \cup RefusedUids)' \subseteq 1 .. nextUid' - 1
    <3>1. nextUid' - 1 = nextUid
      BY <1>1, <1>3
    <3>2. 1 .. nextUid - 1 \subseteq 1 .. nextUid /\ nextUid \in 1 .. nextUid
      BY <1>1, NextUidFresh
    <3>3. Uids(inbox) \cup MainUids \cup Uids(queue) \cup BusyUids \cup RanUids \cup RefusedUids
              \subseteq 1 .. nextUid - 1
      BY DEF Places, UidsApart
    <3>4. QED
      BY <1>5, <1>6, <3>1, <3>2, <3>3
  <2>4. QED
    BY <1>3, <1>5, <1>7, <2>2, <2>3 DEF UidsApart
<1>9. WireOrdered'
  <2>1. /\ RanWire \subseteq RanUids /\ BusyWire \subseteq BusyUids
        /\ WireUids(queue) \subseteq Uids(queue)
    BY WireAmong DEF RanWire, RanUids, BusyWire, BusyUids
  <2>2. \A u \in RanWire \cup BusyWire \cup WireUids(queue) \cup MainUids : u < nextUid
    BY <1>3, <2>1
  <2>3. QED
    BY <1>5, <1>6, <1>7, <2>2 DEF Places, WireOrdered, Before
<1>10. QED
  BY <1>8, <1>9 DEF Places

LEMMA ReceivePlaces ==
    ASSUME TypeOK, Places, ReceiveCommand
    PROVE  Places'
<1> USE DEF envVars, workerVars, outVars, sentVars
<1> DEFINE h == Head(inbox)
<1>1. /\ inbox # <<>> /\ inbox' = Tail(inbox) /\ main = "recv" /\ main' # "recv"
      /\ mainCmd' \in {[Parse(h) EXCEPT !.status = "QUEUED"], [Parse(h) EXCEPT !.status = "REJECTED"]}
      /\ UNCHANGED <<nextUid, queue, worker, current, served, results>>
  BY DEF ReceiveCommand, MainReady
<1>2. h \in Entry /\ inbox \in Seq(Entry)
  BY <1>1, TakeType DEF TypeOK, Entry
<1>3. mainCmd'.uid = h.uid
  BY <1>1 DEF Parse
<1> HIDE DEF h
<1>4. /\ Uids(inbox) = {h.uid} \cup Uids(inbox)'
      /\ Increasing(inbox)' /\ Before({h.uid}, Uids(inbox)')
  BY <1>1, <1>2, TailUids DEF h, Places, UidsApart
<1>5. MainUids = {} /\ MainUids' = {h.uid}
  BY <1>1, <1>3 DEF MainUids
<1>6. /\ Uids(queue)' = Uids(queue) /\ WireUids(queue)' = WireUids(queue)
      /\ BusyUids' = BusyUids /\ BusyWire' = BusyWire
      /\ RanUids' = RanUids /\ RanWire' = RanWire /\ RefusedUids' = RefusedUids
  BY <1>1 DEF Uids, WireUids, BusyUids, BusyWire, RanUids, RanWire, RefusedUids
<1>7. Distinct(queue)' /\ Rising(queue)'
  BY <1>1 DEF Places, UidsApart, WireOrdered, Distinct, Rising
<1>8. h.uid \notin Uids(inbox)'
  BY <1>2, <1>4 DEF Before, Entry
<1>9. UidsApart'
  <2>1. Apart(Uids(inbox), MainUids, Uids(queue), BusyUids, RanUids, RefusedUids)'
    BY <1>4, <1>5, <1>6, <1>8 DEF Places, UidsApart, Apart
  <2>2. nextUid' = nextUid
    BY <1>1
  <2>3. QED
    BY <1>4, <1>5, <1>6, <1>7, <2>1, <2>2 DEF Places, UidsApart
<1>10. WireOrdered'
  BY <1>4, <1>5, <1>6, <1>7 DEF Places, WireOrdered, Before
<1>11. QED
  BY <1>9, <1>10 DEF Places

LEMMA EnqueuePlaces ==
    ASSUME TypeOK, Places, Enqueue
    PROVE  Places'
<1> USE DEF envVars, workerVars, outVars, sentVars
<1>1. /\ main = "queueing" /\ main' = "recv" /\ queue' = Append(queue, mainCmd)
      /\ UNCHANGED <<nextUid, inbox, worker, current, served, results>>
  BY DEF Enqueue, MainDone
<1>2. mainCmd \in Command /\ mainCmd.uid \in Nat /\ queue \in Seq(Command)
  BY DEF TypeOK, Command
<1>3. MainUids = {mainCmd.uid} /\ MainUids' = {}
  BY <1>1 DEF MainUids
<1>4. mainCmd.uid \notin Uids(queue) /\ WireUid(mainCmd) \subseteq MainUids
  BY <1>3 DEF Places, UidsApart, Apart, WireUid
<1>5. Before(WireUids(queue), WireUid(mainCmd))
  BY <1>4 DEF Places, WireOrdered, Before
<1>6. Uids(queue)' = Uids(queue) \cup MainUids /\ Distinct(queue)'
  BY <1>1, <1>2, <1>3, <1>4, AppendUids DEF Places, UidsApart
<1>7. WireUids(queue)' = WireUids(queue) \cup WireUid(mainCmd) /\ Rising(queue)'
  BY <1>1, <1>2, <1>5, AppendRising DEF Places, WireOrdered
<1>8. /\ Uids(inbox)' = Uids(inbox) /\ Increasing(inbox)'
      /\ BusyUids' = BusyUids /\ BusyWire' = BusyWire
      /\ RanUids' = RanUids /\ RanWire' = RanWire /\ RefusedUids' = RefusedUids
  BY <1>1 DEF Places, UidsApart, Increasing, Uids, BusyUids, BusyWire, RanUids, RanWire, RefusedUids
<1>9. UidsApart'
  <2>1. Apart(Uids(inbox), MainUids, Uids(queue), BusyUids, RanUids, RefusedUids)'
    BY <1>3, <1>6, <1>8 DEF Places, UidsApart, Apart
  <2>2. nextUid' = nextUid
    BY <1>1
  <2>3. QED
    BY <1>3, <1>6, <1>8, <2>1, <2>2 DEF Places, UidsApart
<1>10. WireOrdered'
  BY <1>3, <1>4, <1>7, <1>8 DEF Places, WireOrdered, Before
<1>11. QED
  BY <1>9, <1>10 DEF Places

\* A number that leaves the main thread with a refusal, sent or lost.
LEMMA RefusePlaces ==
    ASSUME Places, main = "refusing", main' = "recv",
           UNCHANGED <<nextUid, inbox, queue, served>>,
           BusyUids' = BusyUids, BusyWire' = BusyWire,
           RefusedUids' \subseteq RefusedUids \cup {mainCmd.uid}
    PROVE  Places'
<1>1. MainUids = {mainCmd.uid} /\ MainUids' = {}
  BY DEF MainUids
<1>2. /\ Uids(inbox)' = Uids(inbox) /\ Uids(queue)' = Uids(queue)
      /\ WireUids(queue)' = WireUids(queue)
      /\ RanUids' = RanUids /\ RanWire' = RanWire
  BY DEF Uids, WireUids, RanUids, RanWire
<1>3. Distinct(queue)' /\ Rising(queue)' /\ Increasing(inbox)'
  BY DEF Places, UidsApart, WireOrdered, Distinct, Rising, Increasing
<1>4. UidsApart'
  <2>1. Apart(Uids(inbox), MainUids, Uids(queue), BusyUids, RanUids, RefusedUids)'
    BY <1>1, <1>2 DEF Places, UidsApart, Apart
  <2>2. QED
    BY <1>1, <1>2, <1>3, <2>1 DEF Places, UidsApart
<1>5. WireOrdered'
  BY <1>1, <1>2, <1>3 DEF Places, WireOrdered, Before
<1>6. QED
  BY <1>4, <1>5 DEF Places

LEMMA AppendEvent ==
    ASSUME NEW q \in Seq(Command), NEW c \in Command, Distinct(q), Rising(q),
           c.uid \notin Uids(q), c.from # "ingress"
    PROVE  /\ Uids(Append(q, c)) = Uids(q) \cup {c.uid} /\ Distinct(Append(q, c))
           /\ WireUids(Append(q, c)) = WireUids(q) /\ Rising(Append(q, c))
<1>1. Uids(Append(q, c)) = Uids(q) \cup {c.uid} /\ Distinct(Append(q, c))
  BY AppendUids
<1>2. WireUid(c) = {} /\ Before(WireUids(q), WireUid(c))
  BY DEF WireUid, Before
<1>3. WireUids(Append(q, c)) = WireUids(q) \cup WireUid(c) /\ Rising(Append(q, c))
  BY <1>2, AppendRising
<1>4. QED
  BY <1>1, <1>2, <1>3

LEMMA HardwarePlaces ==
    ASSUME TypeOK, Places, NEW lid \in Lids, NEW sig \in {84, 123}, HardwareEvent(lid, sig)
    PROVE  Places'
<1> USE DEF mainVars, workerVars, outVars, sentVars
<1> DEFINE event == [uid |-> nextUid, sig |-> sig, id |-> <<"hw_evt", sig, clock>>,
                     from |-> "status_subscriber", status |-> "RECEIVED"]
<1>1. /\ nextUid <= MaxUid /\ nextUid' = nextUid + 1 /\ queue' = Append(queue, event)
      /\ UNCHANGED <<inbox, main, mainCmd, worker, current, served, results>>
  BY DEF HardwareEvent
<1>2. event \in Command /\ queue \in Seq(Command)
  <2>1. sig \in U16 /\ clock \in Nat /\ nextUid \in Nat
    BY DEF U16, TypeOK
  <2>2. <<"hw_evt", sig, clock>> \in CommandId
    BY <2>1 DEF CommandId
  <2>3. QED
    BY <2>1, <2>2 DEF Command, Origin, Status, TypeOK
<1>3. event.uid = nextUid /\ event.from # "ingress"
  OBVIOUS
<1> HIDE DEF event
<1>4. /\ nextUid \in Nat /\ nextUid' <= MaxUid + 1
      /\ \A u \in Uids(inbox) \cup MainUids \cup Uids(queue) \cup BusyUids \cup RanUids
                    \cup RefusedUids : u \in Nat /\ u < nextUid
  BY <1>1, NextUidFresh
<1>5. nextUid \notin Uids(inbox) \cup MainUids \cup Uids(queue) \cup BusyUids \cup RanUids
                     \cup RefusedUids
  BY <1>4
<1>6. /\ Uids(Append(queue, event)) = Uids(queue) \cup {event.uid} /\ Distinct(Append(queue, event))
      /\ WireUids(Append(queue, event)) = WireUids(queue) /\ Rising(Append(queue, event))
  <2>1. Distinct(queue) /\ Rising(queue) /\ event.uid \notin Uids(queue)
    BY <1>3, <1>5 DEF Places, UidsApart, WireOrdered
  <2>2. QED
    BY <1>2, <1>3, <2>1, AppendEvent
<1>7. /\ Uids(queue)' = Uids(queue) \cup {nextUid} /\ Distinct(queue)'
      /\ WireUids(queue)' = WireUids(queue) /\ Rising(queue)'
  BY <1>1, <1>3, <1>6
<1>8. /\ Uids(inbox)' = Uids(inbox) /\ Increasing(inbox)' /\ MainUids' = MainUids
      /\ BusyUids' = BusyUids /\ BusyWire' = BusyWire
      /\ RanUids' = RanUids /\ RanWire' = RanWire /\ RefusedUids' = RefusedUids
  BY <1>1 DEF Places, UidsApart, Increasing, Uids, MainUids, BusyUids, BusyWire, RanUids,
              RanWire, RefusedUids
<1>9. UidsApart'
  <2>1. Apart(Uids(inbox), MainUids, Uids(queue), BusyUids, RanUids, RefusedUids)'
    BY <1>5, <1>7, <1>8 DEF Places, UidsApart, Apart
  <2>2. (Uids(inbox) \cup MainUids \cup Uids(queue) \cup BusyUids \cup RanUids
             \cup RefusedUids)' \subseteq 1 .. nextUid' - 1
    <3>1. nextUid' - 1 = nextUid
      BY <1>1, <1>4
    <3>2. 1 .. nextUid - 1 \subseteq 1 .. nextUid /\ nextUid \in 1 .. nextUid
      BY <1>1, NextUidFresh
    <3>3. Uids(inbox) \cup MainUids \cup Uids(queue) \cup BusyUids \cup RanUids \cup RefusedUids
              \subseteq 1 .. nextUid - 1
      BY DEF Places, UidsApart
    <3>4. QED
      BY <1>7, <1>8, <3>1, <3>2, <3>3
  <2>3. QED
    BY <1>4, <1>7, <1>8, <2>1, <2>2 DEF UidsApart
<1>10. WireOrdered'
  BY <1>7, <1>8 DEF Places, WireOrdered, Before
<1>11. QED
  BY <1>9, <1>10 DEF Places

LEMMA PopPlaces ==
    ASSUME TypeOK, Places, Pop
    PROVE  Places'
<1> USE DEF envVars, mainVars, outVars, sentVars
<1> DEFINE h == Head(queue)
<1>1. /\ worker = "pop" /\ queue # <<>> /\ queue' = Tail(queue) /\ worker' = "dispatching"
      /\ current' = [h EXCEPT !.status = "DISPATCHING"]
      /\ UNCHANGED <<nextUid, inbox, main, mainCmd, served, results>>
  BY DEF Pop
<1>2. queue \in Seq(Command) /\ h \in Command
  BY <1>1, TakeType DEF TypeOK
<1>3. current'.uid = h.uid /\ current'.from = h.from
  BY <1>1, <1>2 DEF Command
<1>4. BusyUids = {} /\ BusyWire = {} /\ BusyUids' = {h.uid} /\ BusyWire' = WireUid(h)
  BY <1>1, <1>3 DEF BusyUids, BusyWire, WireUid
<1> HIDE DEF h
<1>5. /\ Uids(queue) = {h.uid} \cup Uids(queue)' /\ h.uid \notin Uids(queue)'
      /\ Distinct(queue)'
  BY <1>1, <1>2, TailUids DEF h, Places, UidsApart
<1>6. /\ WireUids(queue) = WireUid(h) \cup WireUids(queue)'
      /\ Rising(queue)' /\ Before(WireUid(h), WireUids(queue)')
  BY <1>1, <1>2, TailRising DEF h, Places, WireOrdered
<1>7. /\ Uids(inbox)' = Uids(inbox) /\ Increasing(inbox)' /\ MainUids' = MainUids
      /\ RanUids' = RanUids /\ RanWire' = RanWire /\ RefusedUids' = RefusedUids
  BY <1>1 DEF Places, UidsApart, Increasing, Uids, MainUids, RanUids, RanWire, RefusedUids
<1>8. UidsApart'
  <2>1. Apart(Uids(inbox), MainUids, Uids(queue), BusyUids, RanUids, RefusedUids)'
    BY <1>4, <1>5, <1>7 DEF Places, UidsApart, Apart
  <2>2. nextUid' = nextUid
    BY <1>1
  <2>3. QED
    BY <1>4, <1>5, <1>7, <2>1, <2>2 DEF Places, UidsApart
<1>9. WireOrdered'
  BY <1>4, <1>6, <1>7 DEF Places, WireOrdered, Before
<1>10. QED
  BY <1>8, <1>9 DEF Places

LEMMA HandlePlaces ==
    ASSUME Places, Handle
    PROVE  Places'
<1> USE DEF envVars, mainVars, sentVars
<1>1. /\ worker = "dispatching" /\ worker' = "answering"
      /\ served' = served \cup {Execution(current)}
      /\ UNCHANGED <<nextUid, inbox, queue, main, mainCmd, results>>
  BY DEF Handle, sentVars
<1>2. Execution(current).uid = current.uid /\ Execution(current).from = current.from
  BY DEF Execution
<1>3. /\ RanUids' = RanUids \cup BusyUids /\ BusyUids' = {}
      /\ RanWire' = RanWire \cup BusyWire /\ BusyWire' = {}
  BY <1>1, <1>2 DEF RanUids, RanWire, BusyUids, BusyWire
<1>4. /\ Uids(inbox)' = Uids(inbox) /\ Uids(queue)' = Uids(queue)
      /\ WireUids(queue)' = WireUids(queue)
      /\ MainUids' = MainUids /\ RefusedUids' = RefusedUids
  BY <1>1 DEF Uids, WireUids, MainUids, RefusedUids
<1>5. Distinct(queue)' /\ Rising(queue)' /\ Increasing(inbox)'
  BY <1>1 DEF Places, UidsApart, WireOrdered, Distinct, Rising, Increasing
<1>6. UidsApart'
  <2>1. Apart(Uids(inbox), MainUids, Uids(queue), BusyUids, RanUids, RefusedUids)'
    BY <1>3, <1>4 DEF Places, UidsApart, Apart
  <2>2. nextUid' = nextUid
    BY <1>1
  <2>3. QED
    BY <1>3, <1>4, <1>5, <2>1, <2>2 DEF Places, UidsApart
<1>7. WireOrdered'
  BY <1>3, <1>4, <1>5 DEF Places, WireOrdered, Before
<1>8. QED
  BY <1>6, <1>7 DEF Places

LEMMA NextPlaces == TypeOK /\ Places /\ AnswersRight /\ [Next]_vars => Places'
<1> SUFFICES ASSUME TypeOK, Places, AnswersRight, [Next]_vars PROVE Places'
  OBVIOUS
<1> USE DEF envVars, mainVars, workerVars, outVars, sentVars
<1>1. CASE Tick
  BY <1>1, PlacesFrame DEF Tick, BusyUids, BusyWire
<1>2. ASSUME NEW m \in Messages, Send(m) PROVE Places'
  BY <1>2, SendPlaces
<1>3. CASE DropUnparsable
  <2>1. /\ inbox # <<>> /\ inbox' = Tail(inbox) /\ inbox \in Seq(Entry)
        /\ UNCHANGED <<nextUid, queue, main, mainCmd, worker, current, served, results>>
    BY <1>3 DEF DropUnparsable, MainReady, TypeOK, Entry
  <2>2. Uids(inbox)' \subseteq Uids(inbox) /\ Increasing(inbox)'
    <3>1. Increasing(inbox)
      BY DEF Places, UidsApart
    <3>2. /\ Uids(inbox) = {Head(inbox).uid} \cup Uids(Tail(inbox))
          /\ Increasing(Tail(inbox))
      BY <2>1, <3>1, TailUids
    <3>3. QED
      BY <2>1, <3>2
  <2>3. /\ Uids(queue)' = Uids(queue) /\ WireUids(queue)' = WireUids(queue)
        /\ MainUids' = MainUids /\ BusyUids' = BusyUids /\ BusyWire' = BusyWire
        /\ RanUids' = RanUids /\ RanWire' = RanWire /\ RefusedUids' = RefusedUids
    BY <2>1 DEF Uids, WireUids, MainUids, BusyUids, BusyWire, RanUids, RanWire, RefusedUids
  <2>4. Distinct(queue)' /\ Rising(queue)'
    BY <2>1 DEF Places, UidsApart, WireOrdered, Distinct, Rising
  <2>5. QED
    BY <2>1, <2>2, <2>3, <2>4, PlacesShrink
<1>4. CASE ReceiveCommand
  BY <1>4, ReceivePlaces
<1>5. CASE Enqueue
  BY <1>5, EnqueuePlaces
<1>6. CASE Refuse
  <2>1. RefusedUids' \subseteq RefusedUids \cup {mainCmd.uid}
    BY <1>6, EmitSends DEF Refuse, RefusedUids, Result
  <2>2. QED
    BY <1>6, <2>1, RefusePlaces DEF Refuse, MainDone, BusyUids, BusyWire
<1>7. ASSUME NEW lid \in Lids, NEW sig \in {84, 123}, HardwareEvent(lid, sig) PROVE Places'
  BY <1>7, HardwarePlaces
<1>8. CASE Pop
  BY <1>8, PopPlaces
<1>9. CASE PopTimeout
  BY <1>9, PlacesFrame DEF PopTimeout, BusyUids, BusyWire
<1>10. CASE Handle
  BY <1>10, HandlePlaces
<1>11. CASE Answer
  <2>1. /\ worker = "answering" /\ worker' = "logging"
        /\ results' = results \/ results' = results \cup {Result(current)}
        /\ UNCHANGED <<nextUid, inbox, queue, main, mainCmd, current, served>>
    BY <1>11, EmitSends DEF Answer
  <2>2. RefusedUids' = RefusedUids
    <3>1. Result(current).status # "REJECTED"
      BY <2>1 DEF AnswersRight, Result
    <3>2. QED
      BY <2>1, <3>1 DEF RefusedUids
  <2>3. /\ Uids(inbox)' = Uids(inbox) /\ Uids(queue)' = Uids(queue)
        /\ WireUids(queue)' = WireUids(queue) /\ MainUids' = MainUids
        /\ BusyUids' = BusyUids /\ BusyWire' = BusyWire
        /\ RanUids' = RanUids /\ RanWire' = RanWire
    BY <2>1 DEF Uids, WireUids, MainUids, BusyUids, BusyWire, RanUids, RanWire
  <2>4. Distinct(queue)' /\ Rising(queue)' /\ Increasing(inbox)'
    BY <2>1 DEF Places, UidsApart, WireOrdered, Distinct, Rising, Increasing
  <2>5. QED
    BY <2>1, <2>2, <2>3, <2>4, PlacesShrink
<1>12. CASE SocketRace
  <2>1. /\ main = "refusing" /\ main' = "recv" /\ worker = "answering" /\ worker' = "logging"
        /\ results' \subseteq results \cup {Result(mainCmd), Result(current)}
        /\ UNCHANGED <<nextUid, inbox, queue, current, served>>
    BY <1>12, RaceSends DEF SocketRace, MainDone
  <2>2. RefusedUids' \subseteq RefusedUids \cup {mainCmd.uid}
    <3>1. Result(current).status # "REJECTED" /\ Result(mainCmd).uid = mainCmd.uid
      BY <2>1 DEF AnswersRight, Result
    <3>2. QED
      BY <2>1, <3>1 DEF RefusedUids
  <2>3. BusyUids' = BusyUids /\ BusyWire' = BusyWire
    BY <2>1 DEF BusyUids, BusyWire
  <2>4. QED
    BY <2>1, <2>2, <2>3, RefusePlaces
<1>13. CASE Log
  BY <1>13, PlacesFrame DEF Log, BusyUids, BusyWire
<1>14. ASSUME NEW c \in confirming, ConfirmTreat(c) PROVE Places'
  BY <1>14, PlacesFrame DEF ConfirmTreat, BusyUids, BusyWire
<1>15. CASE Shutdown
  BY <1>15, PlacesFrame DEF Shutdown, BusyUids, BusyWire
<1>16. CASE JoinWorker
  BY <1>16, PlacesFrame DEF JoinWorker, BusyUids, BusyWire
<1>17. CASE Exit
  BY <1>17, DiePlaces DEF Exit
<1>18. CASE Crash
  BY <1>18, DiePlaces DEF Crash
<1>19. CASE DieOnMistyped
  BY <1>19, DiePlaces DEF DieOnMistyped
<1>20. CASE Start
  BY <1>20, PlacesFrame DEF Start, BusyUids, BusyWire
<1>21. ASSUME NEW thread \in {"main", "worker"}, WaitForEver(thread) PROVE Places'
  BY <1>21, PlacesFrame DEF WaitForEver, BusyUids, BusyWire
<1>22. CASE UNCHANGED vars
  BY <1>22, PlacesFrame DEF vars, BusyUids, BusyWire
<1>23. QED
  BY <1>1, <1>2, <1>3, <1>4, <1>5, <1>6, <1>7, <1>8, <1>9, <1>10, <1>11, <1>12,
     <1>13, <1>14, <1>15, <1>16, <1>17, <1>18, <1>19, <1>20, <1>21, <1>22 DEF Next

-----------------------------------------------------------------------------
(* Answers, rows and pending confirmations tell what happened. *)

LEMMA InitAnswers == Init => AnswersRight
  BY DEF Init, AnswersRight

\* Nothing is known yet about a number that is still on its way.
LEMMA Untold ==
    ASSUME Places, AnswersRight,
           NEW u \in Uids(inbox) \cup MainUids \cup Uids(queue) \cup BusyUids
    PROVE  /\ u \notin RanUids /\ u \notin RefusedUids
           /\ \A r \in results : r.uid # u
           /\ \A w \in rows : w.uid # u
           /\ \A c \in confirming : c.uid # u
<1>1. u \notin RanUids /\ u \notin RefusedUids
  BY DEF Places, UidsApart, Apart
<1>2. \A r \in results : r.uid # u
  BY <1>1 DEF AnswersRight, RefusedUids
<1>3. QED
  BY <1>1, <1>2 DEF AnswersRight

\* A step that changes neither the answers nor what the worker knows.
LEMMA AnswersFrame ==
    ASSUME AnswersRight, UNCHANGED <<results, rows, served>>, confirming' \subseteq confirming,
           main' = "refusing" => mainCmd'.status = "REJECTED",
           \/ worker' \notin {"answering", "logging"}
           \/ UNCHANGED <<worker, current>>
    PROVE  AnswersRight'
<1>1. /\ RanUids' = RanUids /\ \A u, st : AnswersAgree(u, st)' = AnswersAgree(u, st)
      /\ \A w : RowHolds(w)' = RowHolds(w)
  BY DEF RanUids, AnswersAgree, RowHolds, NoFailureTold
<1>2. /\ \A r, s \in results' : r.uid = s.uid => r = s
      /\ \A r \in results' : r.status # "REJECTED" => r.uid \in RanUids'
      /\ \A w \in rows' : w.uid \in RanUids' /\ RowHolds(w)'
      /\ \A c \in confirming' : c.uid \in RanUids' /\ AnswersAgree(c.uid, c.status)
  BY <1>1 DEF AnswersRight
<1>3. CASE worker' \notin {"answering", "logging"}
  BY <1>1, <1>2, <1>3 DEF AnswersRight
<1>4. CASE UNCHANGED <<worker, current>>
  BY <1>1, <1>2, <1>4 DEF AnswersRight
<1>5. QED
  BY <1>3, <1>4

\* The main thread refuses the command it holds; the worker may be answering
\* another one at the same moment (then now = {Result(current)}).
LEMMA RefuseAnswers ==
    ASSUME Places, AnswersRight, main = "refusing", main' = "recv",
           UNCHANGED <<current, served, rows, confirming>>,
           \/ worker' = worker /\ results' \subseteq results \cup {Result(mainCmd)}
           \/ /\ worker = "answering" /\ worker' = "logging"
              /\ results' \subseteq results \cup {Result(mainCmd), Result(current)}
    PROVE  AnswersRight'
<1>1. mainCmd.uid \in MainUids /\ mainCmd.status = "REJECTED"
  BY DEF MainUids, AnswersRight
<1>2. /\ mainCmd.uid \notin RanUids
      /\ \A r \in results : r.uid # mainCmd.uid
  BY <1>1, Untold
<1>3. /\ Result(mainCmd).uid = mainCmd.uid /\ Result(mainCmd).status = "REJECTED"
      /\ Result(current).uid = current.uid /\ Result(current).status = current.status
  BY <1>1 DEF Result
<1>4. RanUids' = RanUids
  BY DEF RanUids
<1>5. \A r \in results' : r \in results \/ r = Result(mainCmd)
                          \/ (worker = "answering" /\ r = Result(current))
  OBVIOUS
<1>6. worker = "answering" =>
          /\ current.uid \in RanUids /\ current.uid # mainCmd.uid /\ current.status # "REJECTED"
          /\ \A r \in results : r.uid # current.uid
          /\ \A w \in rows : w.uid # current.uid
          /\ \A c \in confirming : c.uid # current.uid
  BY <1>2 DEF AnswersRight
<1>7. \A r, s \in results' : r.uid = s.uid => r = s
  BY <1>2, <1>3, <1>5, <1>6 DEF AnswersRight
<1>8. \A r \in results' : r.status # "REJECTED" => r.uid \in RanUids'
  BY <1>3, <1>4, <1>5, <1>6 DEF AnswersRight
<1>9. ASSUME NEW u \in RanUids, NEW st, AnswersAgree(u, st),
             worker = "answering" => u # current.uid
      PROVE  AnswersAgree(u, st)'
  BY <1>2, <1>3, <1>5, <1>9 DEF AnswersAgree
<1>10. \A w \in rows' : w.uid \in RanUids' /\ RowHolds(w)'
  <2> SUFFICES ASSUME NEW w \in rows PROVE w.uid \in RanUids' /\ RowHolds(w)'
    OBVIOUS
  <2>1. w.uid \in RanUids /\ RowHolds(w) /\ (worker = "answering" => w.uid # current.uid)
    BY <1>6 DEF AnswersRight
  <2>2. AnswersAgree(w.uid, w.status) => AnswersAgree(w.uid, w.status)'
    BY <1>9, <2>1
  <2>3. NoFailureTold(w.uid) => NoFailureTold(w.uid)'
    BY <1>2, <1>3, <1>5, <2>1 DEF NoFailureTold
  <2>4. QED
    BY <1>4, <2>1, <2>2, <2>3 DEF RowHolds
<1>11. \A c \in confirming' : c.uid \in RanUids' /\ AnswersAgree(c.uid, c.status)'
  BY <1>4, <1>6, <1>9 DEF AnswersRight
<1>12. worker' \in {"answering", "logging"} =>
           current'.uid \in RanUids' /\ current'.status \in {"COMPLETED", "FAILED"}
  BY <1>4 DEF AnswersRight
<1>13. worker' = "answering" =>
           /\ \A r \in results' : r.uid # current'.uid
           /\ \A w \in rows' : w.uid # current'.uid
           /\ \A c \in confirming' : c.uid # current'.uid
  BY <1>3, <1>6
<1>14. worker' = "logging" => \A r \in results' : r.uid = current'.uid => r.status = current'.status
  <2>1. CASE worker = "logging"
    <3>1. current.uid \in RanUids /\ AnswersAgree(current.uid, current.status)
      BY <2>1 DEF AnswersRight
    <3>2. QED
      BY <1>2, <1>3, <1>5, <2>1, <3>1 DEF AnswersAgree
  <2>2. CASE worker = "answering"
    BY <1>2, <1>3, <1>5, <1>6, <2>2
  <2>3. CASE worker \notin {"answering", "logging"}
    BY <2>3
  <2>4. QED
    BY <2>1, <2>2, <2>3
<1>15. QED
  BY <1>7, <1>8, <1>10, <1>11, <1>12, <1>13, <1>14 DEF AnswersRight, AnswersAgree

LEMMA HandleAnswers ==
    ASSUME TypeOK, Places, AnswersRight, Handle
    PROVE  AnswersRight'
<1> USE DEF envVars, mainVars, sentVars
<1>1. /\ worker = "dispatching" /\ worker' = "answering"
      /\ served' = served \cup {Execution(current)}
      /\ \E st \in {"COMPLETED", "FAILED"} : current' = [current EXCEPT !.status = st]
      /\ UNCHANGED <<main, mainCmd, results, rows, confirming>>
  BY DEF Handle, sentVars
<1>2. current'.uid = current.uid /\ current'.status \in {"COMPLETED", "FAILED"}
  BY <1>1 DEF TypeOK, Command
<1>3. RanUids' = RanUids \cup {current.uid}
  <2>1. Execution(current).uid = current.uid
    BY DEF Execution
  <2>2. served' = served \cup {Execution(current)}
    BY <1>1
  <2>3. QED
    BY <2>1, <2>2 DEF RanUids
<1>4. /\ \A r \in results : r.uid # current.uid
      /\ \A w \in rows : w.uid # current.uid
      /\ \A c \in confirming : c.uid # current.uid
  <2>1. current.uid \in BusyUids
    BY <1>1 DEF BusyUids
  <2>2. QED
    BY <2>1, Untold
<1>5. /\ \A u, st : AnswersAgree(u, st)' = AnswersAgree(u, st)
      /\ \A w : RowHolds(w)' = RowHolds(w)
  BY <1>1 DEF AnswersAgree, RowHolds, NoFailureTold
<1>6. QED
  BY <1>1, <1>2, <1>3, <1>4, <1>5 DEF AnswersRight

LEMMA AnswerAnswers ==
    ASSUME AnswersRight, Answer
    PROVE  AnswersRight'
<1> USE DEF envVars, mainVars
<1>1. /\ worker = "answering" /\ worker' = "logging"
      /\ results' \subseteq results \cup {Result(current)}
      /\ UNCHANGED <<main, mainCmd, current, served, rows, confirming>>
  BY EmitSends DEF Answer
<1>2. Result(current).uid = current.uid /\ Result(current).status = current.status
  BY DEF Result
<1>3. /\ current.uid \in RanUids /\ current.status \in {"COMPLETED", "FAILED"}
      /\ \A r \in results : r.uid # current.uid
      /\ \A w \in rows : w.uid # current.uid
      /\ \A c \in confirming : c.uid # current.uid
  BY <1>1 DEF AnswersRight
<1>4. RanUids' = RanUids
  BY <1>1 DEF RanUids
<1>5. ASSUME NEW u, NEW st, AnswersAgree(u, st), u # current.uid
      PROVE  AnswersAgree(u, st)'
  BY <1>1, <1>2, <1>5 DEF AnswersAgree
<1>6. \A r, s \in results' : r.uid = s.uid => r = s
  BY <1>1, <1>2, <1>3 DEF AnswersRight
<1>7. \A r \in results' : r.status # "REJECTED" => r.uid \in RanUids'
  BY <1>1, <1>2, <1>3, <1>4 DEF AnswersRight
<1>8. \A w \in rows' : w.uid \in RanUids' /\ RowHolds(w)'
  <2> SUFFICES ASSUME NEW w \in rows PROVE w.uid \in RanUids' /\ RowHolds(w)'
    BY <1>1
  <2>1. w.uid \in RanUids /\ RowHolds(w) /\ w.uid # current.uid
    BY <1>3 DEF AnswersRight
  <2>2. AnswersAgree(w.uid, w.status) => AnswersAgree(w.uid, w.status)'
    BY <1>5, <2>1
  <2>3. NoFailureTold(w.uid) => NoFailureTold(w.uid)'
    BY <1>1, <1>2, <2>1 DEF NoFailureTold
  <2>4. QED
    BY <1>4, <2>1, <2>2, <2>3 DEF RowHolds
<1>9. \A c \in confirming' : c.uid \in RanUids' /\ AnswersAgree(c.uid, c.status)'
  BY <1>1, <1>3, <1>4, <1>5 DEF AnswersRight
<1>10. \A r \in results' : r.uid = current'.uid => r.status = current'.status
  BY <1>1, <1>2, <1>3
<1>11. QED
  BY <1>1, <1>3, <1>4, <1>6, <1>7, <1>8, <1>9, <1>10 DEF AnswersRight, AnswersAgree

\* A row that is added reports the command that ran with the answer it got, or
\* what the MCU replied to a lid actuation that was answered with success.
LEMMA RowsAnswers ==
    ASSUME AnswersRight, NEW c, c.uid \in RanUids, AnswersAgree(c.uid, c.status),
           UNCHANGED <<main, mainCmd, served, results>>,
           \A w \in rows' : w \in rows \/ \E s, reply : w = Row(c, s, reply),
           confirming' \subseteq confirming \cup {c},
           worker' \in {"pop", "exited"} \/ (UNCHANGED <<worker, current>> /\ c \in confirming)
    PROVE  AnswersRight'
<1>1. RanUids' = RanUids
  BY DEF RanUids
<1>2. /\ \A u, st : AnswersAgree(u, st)' = AnswersAgree(u, st)
      /\ \A w : RowHolds(w)' = RowHolds(w)
  BY DEF AnswersAgree, RowHolds, NoFailureTold
<1>3. ASSUME NEW s, NEW reply
      PROVE  Row(c, s, reply).uid = c.uid /\ RowHolds(Row(c, s, reply))
  <2> DEFINE w == Row(c, s, reply)
  <2>1. w.uid = c.uid /\ w.signal = s
    BY DEF Row
  <2>2. s \in Reporting \ {65} => w.status = c.status
    BY DEF Row
  <2>3. s = 65 => w.status = c.status \/ c.status = "COMPLETED"
    BY DEF Row, Reporting
  <2>4. c.status # "FAILED" => NoFailureTold(c.uid)
    BY DEF AnswersAgree, NoFailureTold
  <2> HIDE DEF w
  <2>5. RowHolds(w)
    BY <2>1, <2>2, <2>3, <2>4 DEF RowHolds
  <2>6. QED
    BY <2>1, <2>5 DEF w
<1>4. \A w \in rows' : w.uid \in RanUids' /\ RowHolds(w)'
  <2> SUFFICES ASSUME NEW w \in rows' PROVE w.uid \in RanUids' /\ RowHolds(w)'
    OBVIOUS
  <2>1. CASE w \in rows
    BY <1>1, <1>2, <2>1 DEF AnswersRight
  <2>2. CASE \E s, reply : w = Row(c, s, reply)
    BY <1>1, <1>2, <1>3, <2>2
  <2>3. QED
    BY <2>1, <2>2
<1>5. \A x \in confirming' : x.uid \in RanUids' /\ AnswersAgree(x.uid, x.status)'
  BY <1>1, <1>2 DEF AnswersRight
<1>6. worker' = "answering" =>
           /\ worker = "answering" /\ current' = current
           /\ \A w \in rows' : w.uid # current'.uid
           /\ \A x \in confirming' : x.uid # current'.uid
  BY <1>3 DEF AnswersRight
<1>7. CASE worker' \in {"pop", "exited"}
  BY <1>1, <1>4, <1>5, <1>7 DEF AnswersRight
<1>8. CASE UNCHANGED <<worker, current>>
  BY <1>1, <1>2, <1>4, <1>5, <1>6, <1>8 DEF AnswersRight
<1>9. QED
  BY <1>7, <1>8

LEMMA NextAnswers == TypeOK /\ Places /\ AnswersRight /\ [Next]_vars => AnswersRight'
<1> SUFFICES ASSUME TypeOK, Places, AnswersRight, [Next]_vars PROVE AnswersRight'
  OBVIOUS
<1> USE DEF envVars, mainVars, workerVars, outVars, sentVars
<1>1. ASSUME UNCHANGED <<main, mainCmd, worker, current, served, results, rows, confirming>>
      PROVE  AnswersRight'
  BY <1>1, AnswersFrame DEF AnswersRight
<1>2. ASSUME NEW n \in Nat, Die(n) PROVE AnswersRight'
  BY <1>2, AnswersFrame DEF Die
<1>3. CASE Tick
  BY <1>1, <1>3 DEF Tick
<1>4. ASSUME NEW m \in Messages, Send(m) PROVE AnswersRight'
  BY <1>1, <1>4 DEF Send
<1>5. CASE DropUnparsable
  BY <1>1, <1>5 DEF DropUnparsable
<1>6. CASE ReceiveCommand
  <2>1. main' = "refusing" => mainCmd' = [Parse(Head(inbox)) EXCEPT !.status = "REJECTED"]
    BY <1>6 DEF ReceiveCommand
  <2>2. main' = "refusing" => mainCmd'.status = "REJECTED"
    BY <2>1 DEF Parse
  <2>3. QED
    BY <1>6, <2>2, AnswersFrame DEF ReceiveCommand
<1>7. CASE Enqueue
  BY <1>7, AnswersFrame DEF Enqueue, MainDone
<1>8. CASE Refuse
  BY <1>8, RefuseAnswers, EmitSends DEF Refuse, MainDone
<1>9. ASSUME NEW lid \in Lids, NEW sig \in {84, 123}, HardwareEvent(lid, sig) PROVE AnswersRight'
  BY <1>1, <1>9 DEF HardwareEvent
<1>10. CASE Pop
  BY <1>10, AnswersFrame DEF Pop, AnswersRight
<1>11. CASE PopTimeout
  BY <1>11, AnswersFrame DEF PopTimeout, AnswersRight
<1>12. CASE Handle
  BY <1>12, HandleAnswers
<1>13. CASE Answer
  BY <1>13, AnswerAnswers
<1>14. CASE SocketRace
  BY <1>14, RefuseAnswers, RaceSends DEF SocketRace, MainDone
<1>15. CASE Log
  <2>1. current.uid \in RanUids /\ AnswersAgree(current.uid, current.status)
    BY <1>15 DEF Log, AnswersRight
  <2>2. /\ UNCHANGED <<main, mainCmd, served, results>>
        /\ \A w \in rows' : w \in rows \/ \E s, reply : w = Row(current, s, reply)
        /\ confirming' \subseteq confirming \cup {current}
        /\ worker' \in {"pop", "exited"}
    BY <1>15 DEF Log
  <2>3. QED
    BY <2>1, <2>2, RowsAnswers
<1>16. ASSUME NEW c \in confirming, ConfirmTreat(c) PROVE AnswersRight'
  <2>1. c.uid \in RanUids /\ AnswersAgree(c.uid, c.status)
    BY DEF AnswersRight
  <2>2. /\ UNCHANGED <<main, mainCmd, served, results, worker, current>>
        /\ \A w \in rows' : w \in rows \/ \E s, reply : w = Row(c, s, reply)
        /\ confirming' \subseteq confirming \cup {c}
    BY <1>16 DEF ConfirmTreat
  <2>3. QED
    BY <2>1, <2>2, RowsAnswers
<1>17. CASE Shutdown
  BY <1>1, <1>17 DEF Shutdown
<1>18. CASE JoinWorker
  BY <1>1, <1>18 DEF JoinWorker
<1>19. CASE Exit
  BY <1>2, <1>19 DEF Exit
<1>20. CASE Crash
  BY <1>2, <1>20 DEF Crash
<1>21. CASE DieOnMistyped
  BY <1>2, <1>21 DEF DieOnMistyped
<1>22. CASE Start
  BY <1>22, AnswersFrame DEF Start, AnswersRight
<1>23. ASSUME NEW thread \in {"main", "worker"}, WaitForEver(thread) PROVE AnswersRight'
  BY <1>1, <1>23 DEF WaitForEver
<1>24. CASE UNCHANGED vars
  BY <1>1, <1>24 DEF vars
<1>25. QED
  BY <1>3, <1>4, <1>5, <1>6, <1>7, <1>8, <1>9, <1>10, <1>11, <1>12, <1>13, <1>14,
     <1>15, <1>16, <1>17, <1>18, <1>19, <1>20, <1>21, <1>22, <1>23, <1>24 DEF Next

\* Each number is in one place, commands of the ingress keep their order, and
\* what has been said about a number is what happened to it.
THEOREM PlacesAndAnswers == Spec => [](Places /\ AnswersRight)
<1>1. Init => Places /\ AnswersRight
  BY InitPlaces, InitAnswers
<1>2. TypeOK /\ (Places /\ AnswersRight) /\ [Next]_vars => (Places /\ AnswersRight)'
  BY NextPlaces, NextAnswers
<1>3. QED
  BY <1>1, <1>2, TypeCorrect, PTL DEF Spec

\* A command gets one final answer, and one other than REJECTED only if its
\* handler ran: for any number of messages, events, crashes and restarts, and
\* even if overlapping sends on the result socket lose one of two answers.
THEOREM AnswerIsTrue == Spec => []OneTrueAnswer
<1>1. Places /\ AnswersRight => OneTrueAnswer
  <2> SUFFICES ASSUME Places, AnswersRight PROVE OneTrueAnswer
    OBVIOUS
  <2>1. \A r \in results : r.status = "REJECTED" => r.uid \notin RanUids
    BY DEF Places, UidsApart, Apart, RefusedUids
  <2>2. \A r \in results : r.status # "REJECTED" <=> r.uid \in RanUids
    BY <2>1 DEF AnswersRight
  <2>3. \A u : u \in RanUids <=> \E c \in served : c.uid = u
    BY DEF RanUids
  <2>4. QED
    BY <2>2, <2>3 DEF AnswersRight, OneTrueAnswer
<1>2. QED
  BY <1>1, PlacesAndAnswers, PTL

\* Settings rows and treat confirmations say what the sender was told, also the
\* one the detached thread writes later; the result row of a lid actuation, which
\* holds the MCU's own words, never says more than "failed" of a failed command.
THEOREM RowsTellAnswers == Spec => []RowsAgreeWithAnswers
<1>1. AnswersRight => RowsAgreeWithAnswers
  <2> SUFFICES ASSUME AnswersRight, NEW w \in rows
               PROVE  /\ \E c \in served : c.uid = w.uid
                      /\ \A r \in results : r.uid = w.uid =>
                           /\ w.signal \in Reporting \ {65} => w.status = r.status
                           /\ w.signal = 65 /\ r.status = "FAILED" => w.status = "FAILED"
    BY DEF RowsAgreeWithAnswers
  <2>1. w.uid \in RanUids /\ RowHolds(w)
    BY DEF AnswersRight
  <2>2. QED
    BY <2>1 DEF RanUids, RowHolds, AnswersAgree, NoFailureTold
<1>2. QED
  BY <1>1, PlacesAndAnswers, PTL

\* Commands of the ingress run in the order it sent them: no step runs one
\* after another that was sent later, across crashes and hardware events.
THEOREM RunInOrder == Spec => IngressOrder
<1> DEFINE InOrder == \A c \in served' \ served, d \in served :
                          c.from = "ingress" /\ d.from = "ingress" => d.uid < c.uid
<1>1. WireOrdered /\ [Next]_vars => [InOrder]_served
  <2> SUFFICES ASSUME WireOrdered, [Next]_vars, served' # served
               PROVE  InOrder
    OBVIOUS
  <2>1. Handle
    BY DEF Next, vars, envVars, mainVars, workerVars, outVars, sentVars, Tick, Send, DropUnparsable,
           ReceiveCommand, Enqueue, Refuse, HardwareEvent, Pop, PopTimeout, Answer, SocketRace,
           Log, ConfirmTreat, WaitForEver, Emit, Shutdown, JoinWorker, Exit, Crash, DieOnMistyped, Die, Start
  <2>2. served' \ served \subseteq {Execution(current)} /\ worker = "dispatching"
    BY <2>1 DEF Handle
  <2>3. Execution(current).uid = current.uid /\ Execution(current).from = current.from
    BY DEF Execution
  <2>4. current.from = "ingress" => BusyWire = {current.uid}
    BY <2>2 DEF BusyWire
  <2>5. \A d \in served : d.from = "ingress" => d.uid \in RanWire
    BY DEF RanWire
  <2>6. QED
    BY <2>2, <2>3, <2>4, <2>5 DEF WireOrdered, Before
<1>2. Places => WireOrdered
  BY DEF Places
<1>3. QED
  BY <1>1, <1>2, PlacesAndAnswers, PTL DEF Spec, IngressOrder

-----------------------------------------------------------------------------
(* The threads implement the service. *)

UidSeq(q) == [i \in DOMAIN q |-> q[i].uid]
Front(w, c) == IF w \in {"dispatching", "answering"} THEN <<c.uid>> ELSE <<>>

LEMMA SameLength == ASSUME NEW m \in Nat, NEW n \in Nat, 1 .. m = 1 .. n PROVE m = n
<1>1. CASE m < n
  <2>1. n \in 1 .. n /\ n \notin 1 .. m
    BY <1>1
  <2>2. QED
    BY <2>1
<1>2. CASE n < m
  <2>1. m \in 1 .. m /\ m \notin 1 .. n
    BY <1>2
  <2>2. QED
    BY <2>1
<1>3. QED
  BY <1>1, <1>2

LEMMA ConsProperties ==
    ASSUME NEW a \in Nat, NEW u \in Seq(Nat)
    PROVE  /\ <<a>> \o u \in Seq(Nat) /\ <<a>> \o u # <<>>
           /\ Head(<<a>> \o u) = a /\ Tail(<<a>> \o u) = u
           /\ Len(<<a>> \o u) = Len(u) + 1
           /\ (<<a>> \o u)[1] = a
           /\ \A i \in 1 .. Len(u) : (<<a>> \o u)[i + 1] = u[i]
<1> DEFINE h == <<a>>
           t == h \o u
<1>1. h \in Seq(Nat) /\ Len(h) = 1 /\ h[1] = a /\ Len(u) \in Nat
  BY LenProperties
<1> HIDE DEF h
<1>2. /\ t \in Seq(Nat) /\ Len(t) = Len(h) + Len(u)
      /\ \A i \in 1 .. Len(h) + Len(u) : t[i] = IF i <= Len(h) THEN h[i] ELSE u[i - Len(h)]
  BY <1>1, ConcatProperties
<1> HIDE DEF t
<1>3. Len(t) = Len(u) + 1 /\ t[1] = a
  BY <1>1, <1>2
<1>4. ASSUME NEW i \in 1 .. Len(u) PROVE t[i + 1] = u[i]
  <2>1. i + 1 \in 1 .. Len(h) + Len(u) /\ ~(i + 1 <= Len(h)) /\ i + 1 - Len(h) = i
    BY <1>1
  <2>2. QED
    BY <1>2, <2>1
<1>5. t # <<>> /\ Head(t) = a
  BY <1>1, <1>2, <1>3, EmptySeq
<1>6. Tail(t) = u
  <2>1. /\ Tail(t) \in Seq(Nat) /\ Len(Tail(t)) = Len(u)
        /\ \A i \in 1 .. Len(u) : Tail(t)[i] = t[i + 1]
    BY <1>1, <1>2, <1>3, <1>5, HeadTailProperties
  <2>2. \A i \in 1 .. Len(Tail(t)) : Tail(t)[i] = u[i]
    BY <1>4, <2>1
  <2>3. QED
    BY <2>1, <2>2, SeqEqual
<1>7. QED
  BY <1>2, <1>3, <1>4, <1>5, <1>6 DEF t, h

LEMMA UidSeqType ==
    ASSUME NEW q \in Seq(Command)
    PROVE  /\ UidSeq(q) \in Seq(Nat) /\ Len(UidSeq(q)) = Len(q)
           /\ \A i \in 1 .. Len(q) : UidSeq(q)[i] = q[i].uid
<1>1. DOMAIN q = 1 .. Len(q) /\ Len(q) \in Nat /\ \A i \in 1 .. Len(q) : q[i].uid \in Nat
  <2>1. \A i \in 1 .. Len(q) : q[i] \in Command
    BY ElementOfSeq
  <2>2. \A c \in Command : c.uid \in Nat
    BY DEF Command
  <2>3. QED
    BY <2>1, <2>2, LenProperties
<1>2. UidSeq(q) \in [1 .. Len(q) -> Nat] /\ \A i \in 1 .. Len(q) : UidSeq(q)[i] = q[i].uid
  BY <1>1 DEF UidSeq
<1>3. UidSeq(q) \in Seq(Nat)
  BY <1>1, <1>2, SeqDef
<1>4. DOMAIN UidSeq(q) = 1 .. Len(UidSeq(q)) /\ DOMAIN UidSeq(q) = 1 .. Len(q)
      /\ Len(UidSeq(q)) \in Nat
  BY <1>2, <1>3, LenProperties
<1>5. Len(UidSeq(q)) = Len(q)
  BY <1>1, <1>4, SameLength
<1>6. QED
  BY <1>2, <1>3, <1>5

LEMMA UidSeqAppend ==
    ASSUME NEW q \in Seq(Command), NEW c \in Command
    PROVE  UidSeq(Append(q, c)) = Append(UidSeq(q), c.uid)
<1> DEFINE p == Append(q, c)
           s == UidSeq(p)
           t == Append(UidSeq(q), c.uid)
<1>1. c.uid \in Nat
  BY DEF Command
<1>2. /\ p \in Seq(Command) /\ Len(p) = Len(q) + 1 /\ Len(q) \in Nat
      /\ \A i \in 1 .. Len(q) : p[i] = q[i]
      /\ p[Len(q) + 1] = c
  BY AppendProperties, LenProperties
<1> HIDE DEF p
<1>3. s \in Seq(Nat) /\ Len(s) = Len(q) + 1 /\ \A i \in 1 .. Len(p) : s[i] = p[i].uid
  BY <1>2, UidSeqType
<1>4. /\ UidSeq(q) \in Seq(Nat) /\ Len(UidSeq(q)) = Len(q)
      /\ \A i \in 1 .. Len(q) : UidSeq(q)[i] = q[i].uid
  BY UidSeqType
<1>5. /\ t \in Seq(Nat) /\ Len(t) = Len(q) + 1
      /\ \A i \in 1 .. Len(q) : t[i] = q[i].uid
      /\ t[Len(q) + 1] = c.uid
  BY <1>1, <1>4, AppendProperties
<1> HIDE DEF s, t
<1>6. \A i \in 1 .. Len(s) : s[i] = t[i]
  <2> SUFFICES ASSUME NEW i \in 1 .. Len(q) + 1 PROVE s[i] = t[i]
    BY <1>3
  <2>1. s[i] = p[i].uid
    BY <1>2, <1>3
  <2>2. CASE i = Len(q) + 1
    BY <1>2, <1>5, <2>1, <2>2
  <2>3. CASE i # Len(q) + 1
    <3>1. i \in 1 .. Len(q)
      BY <1>2, <2>3
    <3>2. QED
      BY <1>2, <1>5, <2>1, <3>1
  <2>4. QED
    BY <2>2, <2>3
<1>7. s = t
  BY <1>3, <1>5, <1>6, SeqEqual
<1>8. QED
  BY <1>7 DEF s, t, p

LEMMA UidSeqTail ==
    ASSUME NEW q \in Seq(Command), q # <<>>
    PROVE  UidSeq(q) = <<Head(q).uid>> \o UidSeq(Tail(q))
<1> DEFINE r == Tail(q)
           a == Head(q).uid
           s == UidSeq(q)
           u == UidSeq(r)
           t == <<a>> \o u
<1>1. /\ r \in Seq(Command) /\ Len(r) = Len(q) - 1 /\ Len(q) \in Nat \ {0}
      /\ \A i \in 1 .. Len(r) : r[i] = q[i + 1]
      /\ Head(q) = q[1]
  BY HeadTailProperties, LenProperties, EmptySeq
<1>2. a \in Nat
  <2>1. Head(q) \in Command
    BY HeadTailProperties
  <2>2. QED
    BY <2>1 DEF Command
<1> HIDE DEF r
<1>3. s \in Seq(Nat) /\ Len(s) = Len(q) /\ \A i \in 1 .. Len(q) : s[i] = q[i].uid
  BY UidSeqType
<1>4. u \in Seq(Nat) /\ Len(u) = Len(r) /\ \A i \in 1 .. Len(r) : u[i] = r[i].uid
  BY <1>1, UidSeqType
<1>5. s[1] = a
  BY <1>1, <1>3
<1> HIDE DEF s, u, a
<1>6. /\ t \in Seq(Nat) /\ Len(t) = Len(u) + 1 /\ t[1] = a
      /\ \A i \in 1 .. Len(u) : t[i + 1] = u[i]
  BY <1>2, <1>4, ConsProperties
<1> HIDE DEF t
<1>7. Len(t) = Len(s)
  BY <1>1, <1>3, <1>4, <1>6
<1>8. \A i \in 1 .. Len(s) : s[i] = t[i]
  <2> SUFFICES ASSUME NEW i \in 1 .. Len(q), i # 1 PROVE s[i] = t[i]
    BY <1>3, <1>5, <1>6
  <2>1. i - 1 \in 1 .. Len(r) /\ (i - 1) + 1 = i
    BY <1>1
  <2>2. t[i] = r[i - 1].uid /\ r[i - 1] = q[i]
    <3>1. t[(i - 1) + 1] = u[i - 1] /\ u[i - 1] = r[i - 1].uid
      BY <1>4, <1>6, <2>1
    <3>2. r[i - 1] = q[(i - 1) + 1]
      BY <1>1, <2>1
    <3>3. QED
      BY <2>1, <3>1, <3>2
  <2>3. QED
    BY <1>3, <2>2
<1>9. s = t
  BY <1>3, <1>6, <1>7, <1>8, SeqEqual
<1>10. QED
  BY <1>9 DEF s, t, u, r, a

LEMMA UidSeqEmpty == UidSeq(<<>>) = <<>>
<1>1. <<>> \in Seq(Command) /\ Len(<<>>) = 0
  BY EmptySeq
<1>2. UidSeq(<<>>) \in Seq(Nat) /\ Len(UidSeq(<<>>)) = 0
  BY <1>1, UidSeqType
<1>3. QED
  BY <1>2, EmptySeq

LEMMA FrontType ==
    ASSUME NEW w, NEW c \in Command
    PROVE  Front(w, c) \in Seq(Nat)
<1>1. c.uid \in Nat
  BY DEF Command
<1>2. QED
  BY <1>1 DEF Front

\* Adding at the end of what follows is adding at the end.
LEMMA ConcatAppend ==
    ASSUME NEW s \in Seq(Nat), NEW t \in Seq(Nat), NEW e \in Nat
    PROVE  s \o Append(t, e) = Append(s \o t, e)
<1>1. <<e>> \in Seq(Nat) /\ s \o t \in Seq(Nat)
  BY ConcatProperties
<1>2. Append(t, e) = t \o <<e>> /\ Append(s \o t, e) = (s \o t) \o <<e>>
  BY <1>1, AppendIsConcat
<1>3. (s \o t) \o <<e>> = s \o (t \o <<e>>)
  BY <1>1, ConcatAssociative
<1>4. QED
  BY <1>2, <1>3

LEMMA WaitingParts == Waiting = Front(worker, current) \o UidSeq(queue)
  BY DEF Waiting, UnansweredCurrent, Front, UidSeq

LEMMA WaitingNext == Waiting' = Front(worker', current') \o UidSeq(queue')
  BY DEF Waiting, UnansweredCurrent, Front, UidSeq

LEMMA WaitingType == ASSUME TypeOK PROVE Waiting \in Seq(Nat)
<1>1. queue \in Seq(Command) /\ current \in Command
  BY DEF TypeOK
<1>2. Front(worker, current) \in Seq(Nat) /\ UidSeq(queue) \in Seq(Nat)
  BY <1>1, FrontType, UidSeqType
<1>3. QED
  BY <1>2, WaitingParts, ConcatProperties

\* A number that waits in no place and was never answered is not known to the
\* service: what stands in line is what the worker holds or the queue holds.
LEMMA UnknownToService ==
    ASSUME TypeOK, Places, AnswersRight, NEW u,
           u \notin Uids(queue) \cup BusyUids \cup RanUids,
           \A r \in results : r.uid # u
    PROVE  ~Service!Known(u)
<1> DEFINE f == Front(worker, current)
           s == UidSeq(queue)
<1>1. queue \in Seq(Command) /\ current \in Command
  BY DEF TypeOK
<1>2. f \in Seq(Nat) /\ s \in Seq(Nat) /\ Len(s) = Len(queue)
      /\ \A i \in 1 .. Len(queue) : s[i] = queue[i].uid
  BY <1>1, FrontType, UidSeqType
<1>3. \A i \in DOMAIN f : f[i] \in BusyUids \cup RanUids
  <2>1. CASE worker = "dispatching"
    BY <2>1 DEF Front, BusyUids
  <2>2. CASE worker = "answering"
    <3>1. current.uid \in RanUids
      BY <2>2 DEF AnswersRight
    <3>2. QED
      BY <2>2, <3>1 DEF Front
  <2>3. CASE worker \notin {"dispatching", "answering"}
    BY <2>3 DEF Front
  <2>4. QED
    BY <2>1, <2>2, <2>3
<1>4. \A i \in 1 .. Len(queue) : s[i] \in Uids(queue)
  BY <1>1, <1>2, LenProperties DEF Uids
<1> HIDE DEF f, s
<1>5. /\ Len(f) \in Nat /\ Len(s) \in Nat
      /\ DOMAIN f = 1 .. Len(f)
      /\ DOMAIN Waiting = 1 .. Len(f) + Len(s)
      /\ \A i \in 1 .. Len(f) + Len(s) :
             Waiting[i] = IF i <= Len(f) THEN f[i] ELSE s[i - Len(f)]
  <2>1. /\ f \o s \in Seq(Nat) /\ Len(f \o s) = Len(f) + Len(s)
        /\ \A i \in 1 .. Len(f) + Len(s) :
               (f \o s)[i] = IF i <= Len(f) THEN f[i] ELSE s[i - Len(f)]
    <3>1. f \in Seq(Nat) /\ s \in Seq(Nat)
      BY <1>2
    <3>2. QED
      BY <3>1, ConcatProperties
  <2>2. Waiting = f \o s
    BY WaitingParts DEF f, s
  <2>3. QED
    BY <1>2, <2>1, <2>2, LenProperties
<1>6. ASSUME NEW i \in DOMAIN Waiting PROVE Waiting[i] # u
  <2>1. CASE i <= Len(f)
    <3>1. i \in DOMAIN f /\ Waiting[i] = f[i]
      BY <1>5, <1>6, <2>1
    <3>2. QED
      BY <1>3, <3>1
  <2>2. CASE ~(i <= Len(f))
    <3>1. i - Len(f) \in 1 .. Len(queue) /\ Waiting[i] = s[i - Len(f)]
      BY <1>2, <1>5, <1>6, <2>2
    <3>2. QED
      BY <1>4, <3>1
  <2>3. QED
    BY <2>1, <2>2
<1>7. QED
  BY <1>6 DEF Service!Known

LEMMA InitService == Init => Service!ServiceInit
<1> SUFFICES ASSUME Init PROVE Service!ServiceInit
  OBVIOUS
<1>1. Front(worker, current) = <<>> /\ UidSeq(queue) = <<>>
  BY UidSeqEmpty DEF Init, Front
<1>2. <<>> \o <<>> = <<>>
  BY EmptySeq, ConcatEmptySeq
<1>3. QED
  BY <1>1, <1>2, WaitingParts DEF Init, Service!ServiceInit

\* One more command in line.
LEMMA AcceptStep ==
    ASSUME TypeOK, Places, AnswersRight, NEW c \in Command, c.uid \in 1 .. MaxUid,
           c.uid \notin Uids(queue) \cup BusyUids \cup RanUids,
           \A r \in results : r.uid # c.uid,
           queue' = Append(queue, c), UNCHANGED <<worker, current, results>>
    PROVE  Service!ServiceNext
<1>1. queue \in Seq(Command) /\ current \in Command /\ c.uid \in Nat
  BY DEF TypeOK, Command
<1>2. Front(worker, current) \in Seq(Nat) /\ UidSeq(queue) \in Seq(Nat)
  BY <1>1, FrontType, UidSeqType
<1>3. Waiting' = Front(worker, current) \o UidSeq(Append(queue, c))
  BY WaitingNext
<1>4. Waiting' = Append(Waiting, c.uid)
  <2>1. UidSeq(Append(queue, c)) = Append(UidSeq(queue), c.uid)
    BY <1>1, UidSeqAppend
  <2>2. Front(worker, current) \o Append(UidSeq(queue), c.uid)
            = Append(Front(worker, current) \o UidSeq(queue), c.uid)
    BY <1>1, <1>2, ConcatAppend
  <2>3. QED
    BY <1>3, <2>1, <2>2, WaitingParts
<1>5. ~Service!Known(c.uid)
  BY UnknownToService
<1>6. Service!Accept(c.uid)
  BY <1>4, <1>5 DEF Service!Accept
<1>7. QED
  BY <1>6 DEF Service!ServiceNext

\* The command at the head of the line is done.
LEMMA FinishStep ==
    ASSUME TypeOK, worker = "answering", worker' = "logging", queue' = queue
    PROVE  Waiting # <<>> /\ Head(Waiting) = current.uid /\ Waiting' = Tail(Waiting)
<1>1. queue \in Seq(Command) /\ current.uid \in Nat
  BY DEF TypeOK, Command
<1>2. UidSeq(queue) \in Seq(Nat)
  BY <1>1, UidSeqType
<1>3. Waiting = <<current.uid>> \o UidSeq(queue)
  BY WaitingParts DEF Front
<1>4. Waiting' = <<>> \o UidSeq(queue)
  BY WaitingNext DEF Front
<1>5. Waiting' = UidSeq(queue)
  BY <1>2, <1>4, ConcatEmptySeq
<1>6. QED
  BY <1>1, <1>2, <1>3, <1>5, ConsProperties

\* Nothing the service can see.
LEMMA Stutter ==
    ASSUME Front(worker', current') = Front(worker, current), queue' = queue, results' = results
    PROVE  UNCHANGED Service!serviceVars
  BY WaitingParts, WaitingNext DEF Service!serviceVars

LEMMA RestartStep == ASSUME NEW n, Die(n) PROVE Service!ServiceNext
<1>1. Front(worker', current') = <<>> /\ UidSeq(queue') = <<>> /\ results' = results
  BY UidSeqEmpty DEF Die, Front, sentVars
<1>2. <<>> \o <<>> = <<>>
  BY EmptySeq, ConcatEmptySeq
<1>3. QED
  BY <1>1, <1>2, WaitingNext DEF Service!ServiceNext, Service!Restart

LEMMA NextService ==
    TypeOK /\ AcceptedIdsAccounted /\ Places /\ AnswersRight /\ [Next]_vars
        => [Service!ServiceNext]_Service!serviceVars
<1> SUFFICES ASSUME TypeOK, AcceptedIdsAccounted, Places, AnswersRight, [Next]_vars
             PROVE  Service!ServiceNext \/ UNCHANGED Service!serviceVars
  OBVIOUS
<1> USE DEF envVars, mainVars, workerVars, outVars, sentVars
<1>1. \A u \in MainUids : u \in 1 .. MaxUid
  BY ConstantAssumption DEF Places, UidsApart, TypeOK
<1>2. ASSUME main # "recv"
      PROVE  /\ mainCmd.uid \in 1 .. MaxUid
             /\ mainCmd.uid \notin Uids(queue) \cup BusyUids \cup RanUids
             /\ \A r \in results : r.uid # mainCmd.uid
  <2>1. mainCmd.uid \in MainUids
    BY <1>2 DEF MainUids
  <2>2. \A r \in results : r.uid # mainCmd.uid
    BY <2>1, Untold
  <2>3. QED
    BY <1>1, <2>1, <2>2 DEF Places, UidsApart, Apart
<1>3. ASSUME UNCHANGED <<worker, current, queue, results>>
      PROVE  UNCHANGED Service!serviceVars
  BY <1>3, Stutter
<1>4. CASE Tick
  BY <1>3, <1>4 DEF Tick
<1>5. ASSUME NEW m \in Messages, Send(m) PROVE UNCHANGED Service!serviceVars
  BY <1>3, <1>5 DEF Send
<1>6. CASE DropUnparsable
  BY <1>3, <1>6 DEF DropUnparsable
<1>7. CASE ReceiveCommand
  BY <1>3, <1>7 DEF ReceiveCommand
<1>8. CASE Enqueue
  <2>1. /\ main = "queueing" /\ queue' = Append(queue, mainCmd)
        /\ UNCHANGED <<worker, current, results>> /\ mainCmd \in Command
    BY <1>8 DEF Enqueue, TypeOK
  <2>2. QED
    BY <1>2, <2>1, AcceptStep
<1>9. CASE Refuse
  <2>1. /\ main = "refusing" /\ UNCHANGED <<worker, current, queue>>
        /\ results' = results \/ results' = results \cup {Result(mainCmd)}
    BY <1>9, EmitSends DEF Refuse
  <2>2. CASE results' = results
    BY <1>3, <2>1, <2>2
  <2>3. CASE results' = results \cup {Result(mainCmd)}
    <3>1. Result(mainCmd) = [uid |-> mainCmd.uid, status |-> "REJECTED"]
      BY <2>1 DEF Result, AnswersRight
    <3>2. mainCmd.uid \in 1 .. MaxUid /\ ~Service!Known(mainCmd.uid)
      BY <1>2, <2>1, UnknownToService
    <3>3. Waiting' = Waiting
      BY <2>1, WaitingParts, WaitingNext
    <3>4. Service!RefuseOne(mainCmd.uid)
      BY <2>3, <3>1, <3>2, <3>3 DEF Service!RefuseOne, Service!Refusal
    <3>5. QED
      BY <3>2, <3>4 DEF Service!ServiceNext
  <2>4. QED
    BY <2>1, <2>2, <2>3
<1>10. ASSUME NEW lid \in Lids, NEW sig \in {84, 123}, HardwareEvent(lid, sig)
       PROVE  Service!ServiceNext
  <2> DEFINE event == [uid |-> nextUid, sig |-> sig, id |-> <<"hw_evt", sig, clock>>,
                       from |-> "status_subscriber", status |-> "RECEIVED"]
  <2>1. /\ nextUid <= MaxUid /\ queue' = Append(queue, event)
        /\ UNCHANGED <<worker, current, results>>
    BY <1>10 DEF HardwareEvent
  <2>2. event \in Command
    <3>1. sig \in U16 /\ clock \in Nat /\ nextUid \in Nat
      BY DEF U16, TypeOK
    <3>2. <<"hw_evt", sig, clock>> \in CommandId
      BY <3>1 DEF CommandId
    <3>3. QED
      BY <3>1, <3>2 DEF Command, Origin, Status
  <2>3. event.uid = nextUid
    OBVIOUS
  <2> HIDE DEF event
  <2>4. /\ \A u \in Uids(inbox) \cup MainUids \cup Uids(queue) \cup BusyUids \cup RanUids
                       \cup RefusedUids : u \in Nat /\ u < nextUid
        /\ nextUid \in 1 .. MaxUid
    BY <2>1, NextUidFresh, ConstantAssumption DEF TypeOK
  <2>5. nextUid \notin Uids(queue) \cup BusyUids \cup RanUids \cup RefusedUids
    BY <2>4
  <2>6. \A r \in results : r.uid # nextUid
    BY <2>5 DEF AnswersRight, RefusedUids
  <2>7. QED
    BY <2>1, <2>2, <2>3, <2>4, <2>5, <2>6, AcceptStep
<1>11. CASE Pop
  <2>1. /\ worker = "pop" /\ worker' = "dispatching" /\ queue # <<>> /\ queue' = Tail(queue)
        /\ current' = [Head(queue) EXCEPT !.status = "DISPATCHING"] /\ results' = results
        /\ queue \in Seq(Command)
    BY <1>11 DEF Pop, TypeOK
  <2>2. Head(queue) \in Command
    BY <2>1, TakeType
  <2>3. current'.uid = Head(queue).uid
    BY <2>1, <2>2 DEF Command
  <2>4. Front(worker, current) = <<>> /\ Front(worker', current') = <<Head(queue).uid>>
    BY <2>1, <2>3 DEF Front
  <2>5. <<>> \o UidSeq(queue) = UidSeq(queue)
    BY <2>1, UidSeqType, ConcatEmptySeq
  <2>6. Waiting' = Waiting
    BY <2>1, <2>4, <2>5, UidSeqTail, WaitingParts, WaitingNext
  <2>7. QED
    BY <2>1, <2>6 DEF Service!serviceVars
<1>12. CASE PopTimeout
  BY <1>12, Stutter DEF PopTimeout, Front
<1>13. CASE Handle
  <2>1. /\ worker = "dispatching" /\ worker' = "answering" /\ UNCHANGED <<queue, results>>
        /\ current' \in {[current EXCEPT !.status = st] : st \in {"COMPLETED", "FAILED"}}
    BY <1>13 DEF Handle
  <2>2. current'.uid = current.uid
    BY <2>1 DEF TypeOK, Command
  <2>3. QED
    BY <2>1, <2>2, Stutter DEF Front
<1>14. CASE Answer
  <2>1. /\ worker = "answering" /\ worker' = "logging" /\ queue' = queue
        /\ results' = results \/ results' = results \cup {Result(current)}
    BY <1>14, EmitSends DEF Answer
  <2>2. Waiting # <<>> /\ Head(Waiting) = current.uid /\ Waiting' = Tail(Waiting)
    BY <2>1, FinishStep
  <2>3. Result(current) = [uid |-> current.uid, status |-> current.status]
        /\ current.status \in {"COMPLETED", "FAILED"}
    BY <2>1 DEF Result, AnswersRight
  <2>4. Service!Finish
    BY <2>1, <2>2, <2>3 DEF Service!Finish, Service!Final
  <2>5. QED
    BY <2>4 DEF Service!ServiceNext
<1>15. CASE SocketRace
  <2>1. /\ main = "refusing" /\ worker = "answering" /\ worker' = "logging" /\ queue' = queue
        /\ \E sent \in SUBSET {Result(mainCmd), Result(current)} : results' = results \cup sent
    BY <1>15, RaceSends DEF SocketRace
  <2>2. Waiting # <<>> /\ Head(Waiting) = current.uid /\ Waiting' = Tail(Waiting)
    BY <2>1, FinishStep
  <2>3. /\ Result(current) = [uid |-> Head(Waiting), status |-> current.status]
        /\ current.status \in Service!Final
        /\ Result(mainCmd) = [uid |-> mainCmd.uid, status |-> "REJECTED"]
    BY <2>1, <2>2 DEF Result, AnswersRight, Service!Final
  <2>4. mainCmd.uid \in 1 .. MaxUid /\ ~Service!Known(mainCmd.uid)
    BY <1>2, <2>1, UnknownToService
  <2>5. \E refused, told \in BOOLEAN :
            results' = results
                \cup (IF refused THEN {Result(mainCmd)} ELSE {})
                \cup (IF told THEN {Result(current)} ELSE {})
    <3>1. PICK sent \in SUBSET {Result(mainCmd), Result(current)} : results' = results \cup sent
      BY <2>1
    <3> DEFINE refused == Result(mainCmd) \in sent
               told == Result(current) \in sent
    <3>2. sent = (IF refused THEN {Result(mainCmd)} ELSE {})
                     \cup (IF told THEN {Result(current)} ELSE {})
      OBVIOUS
    <3>3. refused \in BOOLEAN /\ told \in BOOLEAN
      OBVIOUS
    <3>4. results' = results
              \cup (IF refused THEN {Result(mainCmd)} ELSE {})
              \cup (IF told THEN {Result(current)} ELSE {})
      BY <3>1, <3>2
    <3> HIDE DEF refused, told
    <3>5. QED
      BY <3>3, <3>4
  <2>6. Service!FinishAndRefuse(mainCmd.uid)
    BY <2>2, <2>3, <2>4, <2>5 DEF Service!FinishAndRefuse
  <2>7. QED
    BY <2>4, <2>6 DEF Service!ServiceNext
<1>16. CASE Log
  BY <1>16, Stutter DEF Log, Front
<1>17. ASSUME NEW c \in confirming, ConfirmTreat(c) PROVE UNCHANGED Service!serviceVars
  BY <1>3, <1>17 DEF ConfirmTreat
<1>18. CASE Shutdown
  BY <1>3, <1>18 DEF Shutdown
<1>19. CASE JoinWorker
  BY <1>3, <1>19 DEF JoinWorker
<1>20. CASE Exit
  BY <1>20, RestartStep DEF Exit
<1>21. CASE Crash
  BY <1>21, RestartStep DEF Crash
<1>22. CASE DieOnMistyped
  BY <1>22, RestartStep DEF DieOnMistyped
<1>23. CASE Start
  BY <1>23, Stutter DEF Start, Front, AcceptedIdsAccounted
<1>24. ASSUME NEW thread \in {"main", "worker"}, WaitForEver(thread)
       PROVE  UNCHANGED Service!serviceVars
  BY <1>3, <1>24 DEF WaitForEver
<1>25. CASE UNCHANGED vars
  BY <1>3, <1>25 DEF vars
<1>26. QED
  BY <1>4, <1>5, <1>6, <1>7, <1>8, <1>9, <1>10, <1>11, <1>12, <1>13, <1>14, <1>15,
     <1>16, <1>17, <1>18, <1>19, <1>20, <1>21, <1>22, <1>23, <1>24, <1>25 DEF Next

\* The threads, sockets and crashes of the process implement the service that
\* answers, in the order it accepted them, the commands it accepted.
THEOREM ThreadsImplementService == Spec => ImplementsService
  BY InitService, NextService, TypeCorrect, AccountedAlways, PlacesAndAnswers,
     PTL DEF Spec, ImplementsService, Service!ServiceSpec
=============================================================================
