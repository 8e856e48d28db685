-------------------------- MODULE CommandPipeline --------------------------
(***************************************************************************)
(* The command_executor service: how a command travels from the PULL       *)
(* socket (main thread) or from a lid sensor (StatusSubscriber thread)     *)
(* through CommandDispatcher, CommandQueue and the CommandExecutor worker  *)
(* to the result socket and the signals table.                             *)
(*                                                                         *)
(* Threads: main (receive, parse, validate, refuse or enqueue), worker     *)
(* (pop, handle, answer, log), subscriber (hardware events), and one       *)
(* detached thread per dispensed treat.  Handlers are abstract: they       *)
(* return success or failure.  The process may die at any step and be      *)
(* started again; the signals table and the answers already sent survive.  *)
(***************************************************************************)
EXTENDS Integers, Sequences, FiniteSets

CONSTANTS
    GivenIds,     (* command ids that senders choose                        *)
    Absent,       (* the JSON key is missing                                *)
    Empty,        (* the JSON key is there, its value is ""                 *)
    Messages,     (* the wire messages the ingress node may push            *)
    Debounce,     (* emit_manual_event's 1000 ms window, in clock ticks     *)
    UnsafeSocket, (* TRUE: overlapping sends on push_socket may lose data   *)
    MaxUid,       (* bound: messages and hardware events in a behaviour     *)
    MaxClock,     (* bound: clock ticks                                     *)
    MaxLife       (* bound: starts of the process                           *)

U16 == {n \in Nat : n < 65536}
Lids == {1, 2}
Never == -1

\* What a PULL message can be.  "garbage" does not parse or has neither
\* "header" nor "signal_id"; "mistyped" has a field of the wrong JSON type.
WireMessage == [form   : {"command", "garbage", "mistyped"},
                sig    : Int,
                id     : GivenIds \cup {Absent, Empty},
                issuer : {"server", Absent, Empty}]

ASSUME ConstantAssumption ==
    /\ Absent \notin GivenIds /\ Empty \notin GivenIds /\ Absent # Empty
    /\ Messages \subseteq WireMessage
    /\ Debounce \in Nat
    /\ UnsafeSocket \in BOOLEAN
    /\ MaxUid \in Nat /\ MaxClock \in Nat /\ MaxLife \in Nat

CommandId == GivenIds \cup {Empty} \cup ({"CMD", "hw_evt"} \X U16 \X Nat)
Status == {"RECEIVED", "QUEUED", "DISPATCHING", "COMPLETED", "FAILED", "REJECTED"}
Origin == {"ingress", "status_subscriber"}
Command == [uid : Nat, sig : U16, id : CommandId, from : Origin, status : Status]

NoCommand == [uid |-> 0, sig |-> 0, id |-> Empty, from |-> "ingress", status |-> "RECEIVED"]

-----------------------------------------------------------------------------
(* The tables compiled into the service. *)

\* The registry is an array of 20 descriptors of which 19 are written down:
\* the last one is zero-initialised, that is, signal 0, INBOUND.
ZeroSlot == 0
Inbound == {84, 85, 123, 64, 91, 88, 98, 133, 134, 135, 137, 138, 139, 140} \cup {ZeroSlot}

\* The cases of the worker's switch.
Handled == {84, 123, 64, 85, 88, 91, 98, 133, 134, 135, 139, 137, 138, 140}

\* The rows SignalLogger::log inserts at once, and those that report the outcome.
LoggedSelf == {84, 85, 123, 64, 91, 88, 133, 98, 134, 135, 137, 138, 139, 136}
SideRows(sig) ==
    CASE sig = 64 -> {65} [] sig = 85 -> {125} [] sig = 91 -> {93} [] OTHER -> {}
LogSignals(sig) == ({sig} \cap LoggedSelf) \cup SideRows(sig)
TreatConfirmation == 126
Reporting == {98, 65, TreatConfirmation}

-----------------------------------------------------------------------------
VARIABLES
    clock,      (* system_clock::now() in ticks                             *)
    nextUid,    (* number of the next message or hardware event             *)
    life,       (* how often the process has been started                   *)
    phase,      (* "up", "stopping" (executor.stop() joins the worker),     *)
                (* "joining" (subscriber.stop()), "down"                    *)
    inbox,      (* PULL socket: messages waiting, each with its uid         *)
    main,       (* main thread: "recv", "queueing", "refusing"              *)
    mainCmd,    (* the command the main thread holds                        *)
    activeIds,  (* CommandDispatcher::active_command_ids_                   *)
    queue,      (* CommandQueue::queue_                                     *)
    worker,     (* worker thread: "pop", "dispatching", "answering",        *)
                (* "logging", "exited"                                      *)
    current,    (* the command the worker holds                             *)
    lastEvent,  (* StatusSubscriber::lid{1,2}_last_event_time_              *)
    confirming, (* treats whose detached confirmation thread is asleep      *)
    stuck,      (* threads in a call that never returns                     *)
    served,     (* history: commands whose handler ran                      *)
    results,    (* history: the answers the result socket has sent          *)
    unsent,     (* history: uids whose answer was lost on its way out       *)
    rows        (* oro_base_signals: the rows written by this service       *)

vars == <<clock, nextUid, life, phase, inbox, main, mainCmd, activeIds, queue,
          worker, current, lastEvent, confirming, stuck, served, results, unsent, rows>>

mainVars   == <<main, mainCmd, activeIds>>
workerVars == <<worker, current>>
sentVars   == <<results, unsent>>
outVars    == <<served, sentVars, rows, confirming>>
envVars    == <<clock, nextUid, life, lastEvent, stuck>>

Result(c) == [uid |-> c.uid, status |-> c.status]
Execution(c) == [uid |-> c.uid, id |-> c.id, from |-> c.from, life |-> life]
\* Mutant: every report says success.
Row_AlwaysSuccess(c, sig, reply) ==
    [uid |-> c.uid, signal |-> sig, status |-> IF sig \in Reporting THEN "COMPLETED" ELSE "NONE"]

\* Row 65 of a lid actuation that succeeded holds the status in the MCU's reply,
\* whatever that is ("reply": whether it says success); a failed command's result
\* is made by run().
Row(c, sig, reply) ==
    [uid |-> c.uid, signal |-> sig,
     status |-> IF sig \notin Reporting THEN "NONE"
                ELSE IF sig = 65 /\ c.status = "COMPLETED" THEN reply ELSE c.status]

Init ==
    /\ clock = 0 /\ nextUid = 1 /\ life = 1
    /\ phase = "up"
    /\ inbox = <<>>
    /\ main = "recv" /\ mainCmd = NoCommand /\ activeIds = {}
    /\ queue = <<>>
    /\ worker = "pop" /\ current = NoCommand
    /\ lastEvent = [l \in Lids |-> Never]
    /\ confirming = {} /\ stuck = {}
    /\ served = {} /\ results = {} /\ unsent = {} /\ rows = {}

-----------------------------------------------------------------------------
(* Environment: the ingress node and the clock. *)

Tick ==
    /\ clock < MaxClock
    /\ clock' = clock + 1
    /\ UNCHANGED <<nextUid, life, lastEvent, stuck, phase, inbox, queue,
                   mainVars, workerVars, outVars>>

\* CommandIngressNode pushes a message; its PUSH socket keeps it while the
\* service is down.
Send(m) ==
    /\ nextUid <= MaxUid
    /\ nextUid' = nextUid + 1
    /\ inbox' = Append(inbox, [uid |-> nextUid, msg |-> m])
    /\ UNCHANGED <<clock, life, lastEvent, stuck, phase, queue, mainVars, workerVars, outVars>>

-----------------------------------------------------------------------------
(* Main thread. *)

MainReady(form) ==
    /\ phase = "up" /\ main = "recv"
    /\ inbox # <<>> /\ Head(inbox).msg.form = form

\* parse returns nullopt: the message is dropped without an answer.
DropUnparsable ==
    /\ MainReady("garbage")
    /\ inbox' = Tail(inbox)
    /\ UNCHANGED <<envVars, phase, queue, mainVars, workerVars, outVars>>

\* Mutant: the signal id is kept as the int the JSON library returns.
Parse_Wide(e) ==
    [uid |-> e.uid, sig |-> e.msg.sig,
     id |-> IF e.msg.id = Absent THEN <<"CMD", 0, clock>> ELSE e.msg.id,
     from |-> "ingress", status |-> "RECEIVED"]

\* CommandDispatcher::parse: 16-bit signal id, defaults for missing keys.
Parse(e) ==
    LET sig == e.msg.sig % 65536
    IN [uid |-> e.uid, sig |-> sig,
        id |-> IF e.msg.id = Absent THEN <<"CMD", sig, clock>> ELSE e.msg.id,
        from |-> "ingress", status |-> "RECEIVED"]

\* Mutant: the duplicate check is missing.
Valid_NoDuplicateCheck(cmd, issuer) == cmd.sig \in Inbound /\ cmd.id # Empty /\ issuer # Empty

\* CommandDispatcher::validate: known INBOUND signal, non-empty command_id
\* and issued_by (a missing issuer became "unknown_sender"), not a duplicate.
Valid(cmd, issuer) ==
    /\ cmd.sig \in Inbound
    /\ cmd.id # Empty /\ issuer # Empty
    /\ cmd.id \notin activeIds

ReceiveCommand ==
    /\ MainReady("command")
    /\ inbox' = Tail(inbox)
    /\ LET cmd == Parse(Head(inbox)) IN
         IF Valid(cmd, Head(inbox).msg.issuer)
         THEN /\ main' = "queueing"
              /\ mainCmd' = [cmd EXCEPT !.status = "QUEUED"]
              /\ activeIds' = activeIds \cup {cmd.id}
         ELSE /\ main' = "refusing"
              /\ mainCmd' = [cmd EXCEPT !.status = "REJECTED"]
              /\ UNCHANGED activeIds
    /\ UNCHANGED <<envVars, phase, queue, workerVars, outVars>>

MainDone == main' = "recv" /\ mainCmd' = NoCommand /\ UNCHANGED activeIds

\* Mutant: push_front.
Enqueue_Front ==
    /\ main = "queueing" /\ queue' = <<mainCmd>> \o queue /\ MainDone
    /\ UNCHANGED <<envVars, phase, inbox, workerVars, outVars>>

Enqueue ==
    /\ main = "queueing"
    /\ queue' = Append(queue, mainCmd)
    /\ MainDone
    /\ UNCHANGED <<envVars, phase, inbox, workerVars, outVars>>

\* on_result_cb: the answer is sent, or building or sending it throws and the
\* catch drops it.
Emit(c) ==
    \/ results' = results \cup {Result(c)} /\ UNCHANGED unsent
    \/ unsent' = unsent \cup {c.uid} /\ UNCHANGED results

\* Mutants: no "continue" after the refusal; the refusal is not sent.
Refuse_ThenEnqueue ==
    /\ main = "refusing" /\ "main" \notin stuck /\ Emit(mainCmd)
    /\ queue' = Append(queue, mainCmd) /\ MainDone
    /\ UNCHANGED <<envVars, phase, inbox, workerVars, served, rows, confirming>>
Refuse_Silently ==
    /\ main = "refusing" /\ "main" \notin stuck /\ MainDone
    /\ UNCHANGED <<envVars, phase, inbox, queue, workerVars, outVars>>

Refuse ==
    /\ main = "refusing" /\ "main" \notin stuck
    /\ Emit(mainCmd)
    /\ MainDone
    /\ UNCHANGED <<envVars, phase, inbox, queue, workerVars, served, rows, confirming>>

-----------------------------------------------------------------------------
(* StatusSubscriber thread: emit_manual_event pushes straight into the queue, *)
(* past the dispatcher, at most once per lid and debounce window.             *)

HardwareEvent(lid, sig) ==
    /\ phase # "down" /\ nextUid <= MaxUid
    /\ lastEvent[lid] = Never \/ clock - lastEvent[lid] >= Debounce
    /\ lastEvent' = [lastEvent EXCEPT ![lid] = clock]
    /\ nextUid' = nextUid + 1
    /\ queue' = Append(queue, [uid |-> nextUid, sig |-> sig, id |-> <<"hw_evt", sig, clock>>,
                               from |-> "status_subscriber", status |-> "RECEIVED"])
    /\ UNCHANGED <<clock, life, stuck, phase, inbox, mainVars, workerVars, outVars>>

-----------------------------------------------------------------------------
(* Worker thread. *)

\* Mutant: pop_back.
Pop_Newest ==
    /\ worker = "pop" /\ queue # <<>> /\ worker' = "dispatching"
    /\ current' = [queue[Len(queue)] EXCEPT !.status = "DISPATCHING"]
    /\ queue' = SubSeq(queue, 1, Len(queue) - 1)
    /\ UNCHANGED <<envVars, phase, inbox, mainVars, outVars>>

\* pop() returned a command; running_ may have turned false while it waited.
Pop ==
    /\ worker = "pop" /\ queue # <<>>
    /\ worker' = "dispatching"
    /\ current' = [Head(queue) EXCEPT !.status = "DISPATCHING"]
    /\ queue' = Tail(queue)
    /\ UNCHANGED <<envVars, phase, inbox, mainVars, outVars>>

\* Mutant: pop() waits without a timeout, so the loop test is not reached.
PopTimeout_Never == FALSE

\* pop() timed out and the loop saw running_ = false.
PopTimeout ==
    /\ worker = "pop" /\ queue = <<>> /\ phase # "up"
    /\ worker' = "exited"
    /\ UNCHANGED <<envVars, phase, inbox, queue, mainVars, current, outVars>>

\* The switch: a handler succeeds or fails; no case means failure.
Handle ==
    /\ worker = "dispatching" /\ "worker" \notin stuck
    /\ \E st \in IF current.sig \in Handled THEN {"COMPLETED", "FAILED"} ELSE {"FAILED"} :
         current' = [current EXCEPT !.status = st]
    /\ worker' = "answering"
    /\ served' = served \cup {Execution(current)}
    /\ UNCHANGED <<envVars, phase, inbox, queue, mainVars, sentVars, rows, confirming>>

Answer ==
    /\ worker = "answering" /\ "worker" \notin stuck
    /\ worker' = "logging"
    /\ Emit(current)
    /\ UNCHANGED <<envVars, phase, inbox, queue, mainVars, current, served, rows, confirming>>

\* push_socket is used by both threads without a lock: sends that overlap
\* may lose either message (that they may also abort is covered by Crash).
SocketRace ==
    /\ UnsafeSocket
    /\ main = "refusing" /\ worker = "answering" /\ stuck = {}
    /\ \E lost \in SUBSET {mainCmd, current} :
         /\ results' = results \cup {Result(c) : c \in {mainCmd, current} \ lost}
         /\ unsent' = unsent \cup {c.uid : c \in lost}
    /\ worker' = "logging"
    /\ MainDone
    /\ UNCHANGED <<envVars, phase, inbox, queue, current, served, rows, confirming>>

\* SignalLogger::log: each insert may fail on its own; a treat starts the
\* confirmation thread.  Then the loop tests running_.
Log ==
    /\ worker = "logging" /\ "worker" \notin stuck
    /\ \E reply \in {"COMPLETED", "FAILED"} :
         \E written \in SUBSET {Row(current, s, reply) : s \in LogSignals(current.sig)} :
             rows' = rows \cup written
    /\ confirming' = IF current.sig = 85 THEN confirming \cup {current} ELSE confirming
    /\ worker' = IF phase = "up" THEN "pop" ELSE "exited"
    /\ current' = NoCommand
    /\ UNCHANGED <<envVars, phase, inbox, queue, mainVars, served, sentVars>>

\* The detached thread wakes after 5 s and writes row 126, or fails to.
ConfirmTreat(c) ==
    /\ confirming' = confirming \ {c}
    /\ rows' \in {rows, rows \cup {Row(c, TreatConfirmation, c.status)}}
    /\ UNCHANGED <<envVars, phase, inbox, queue, mainVars, workerVars, served, sentVars>>

\* A call that never returns: a handler whose MCU request has no time limit or
\* whose local ZeroMQ context keeps an undelivered request, a send on the result
\* socket while no ingress is connected, an insert on a database that does not
\* answer; past the loops, the contexts of the handlers and of main.
MayWait == [main   |-> main = "refusing" \/ phase = "joining",
            worker |-> \/ worker \in {"dispatching", "answering", "logging"}
                       \/ worker = "exited" /\ phase = "stopping"]

WaitForEver(thread) ==
    /\ MayWait[thread]
    /\ stuck' = stuck \cup {thread}
    /\ UNCHANGED <<clock, nextUid, life, lastEvent, phase, inbox, queue,
                   mainVars, workerVars, outVars>>

-----------------------------------------------------------------------------
(* Process life cycle. *)

\* SIGINT or SIGTERM: main leaves its loop and calls executor.stop().
Shutdown ==
    /\ phase = "up" /\ main = "recv"
    /\ phase' = "stopping"
    /\ UNCHANGED <<envVars, inbox, queue, mainVars, workerVars, outVars>>

\* executor.stop() has joined the worker; subscriber.stop() is next.
JoinWorker ==
    /\ phase = "stopping" /\ worker = "exited" /\ "worker" \notin stuck
    /\ phase' = "joining"
    /\ UNCHANGED <<envVars, inbox, queue, mainVars, workerVars, outVars>>

\* All memory goes; so do the messages the PULL socket had already received,
\* at least the first "taken" of them.
Die(taken) ==
    /\ phase' = "down"
    /\ \E k \in taken .. Len(inbox) : inbox' = SubSeq(inbox, k + 1, Len(inbox))
    /\ main' = "recv" /\ mainCmd' = NoCommand /\ activeIds' = {}
    /\ queue' = <<>>
    /\ worker' = "exited" /\ current' = NoCommand
    /\ lastEvent' = [l \in Lids |-> Never]
    /\ confirming' = {} /\ stuck' = {}
    /\ UNCHANGED <<clock, nextUid, life, served, sentVars, rows>>

\* subscriber.stop() has returned and so have main's destructors.
Exit == phase = "joining" /\ "main" \notin stuck /\ Die(0)

\* kill, power loss, or an exception that leaves a thread.
Crash == phase # "down" /\ Die(0)

\* nlohmann::type_error is not a parse_error: parse lets it escape main.
DieOnMistyped == MainReady("mistyped") /\ Die(1)

\* systemd (Restart=on-failure) or an operator starts the service again.
Start ==
    /\ phase = "down" /\ life < MaxLife
    /\ phase' = "up" /\ life' = life + 1
    /\ worker' = "pop"
    /\ UNCHANGED <<clock, nextUid, lastEvent, stuck, inbox, queue, mainVars, current, outVars>>

-----------------------------------------------------------------------------
MainStep == ReceiveCommand \/ DropUnparsable \/ DieOnMistyped \/ Enqueue \/ Refuse
WorkerStep == Pop \/ PopTimeout \/ Handle \/ Answer \/ Log

Next ==
    \/ Tick
    \/ \E m \in Messages : Send(m)
    \/ DropUnparsable \/ ReceiveCommand \/ Enqueue \/ Refuse
    \/ \E lid \in Lids, sig \in {84, 123} : HardwareEvent(lid, sig)
    \/ Pop \/ PopTimeout \/ Handle \/ Answer \/ SocketRace \/ Log
    \/ \E c \in confirming : ConfirmTreat(c)
    \/ \E thread \in {"main", "worker"} : WaitForEver(thread)
    \/ Shutdown \/ JoinWorker \/ Exit \/ Crash \/ DieOnMistyped \/ Start

Spec == Init /\ [][Next]_vars

\* A thread that can go on does: the loops have no other way out, and a call
\* returns or is one of WaitForEver's.
Fairness ==
    /\ WF_vars(MainStep) /\ WF_vars(WorkerStep)
    /\ WF_vars(JoinWorker) /\ WF_vars(Exit)

FairSpec == Spec /\ Fairness

-----------------------------------------------------------------------------
(* Properties. *)

TypeOK ==
    /\ clock \in Nat /\ nextUid \in Nat \ {0} /\ life \in Nat \ {0}
    /\ phase \in {"up", "stopping", "joining", "down"}
    /\ inbox \in Seq([uid : Nat, msg : WireMessage])
    /\ main \in {"recv", "queueing", "refusing"}
    /\ mainCmd \in Command
    /\ activeIds \subseteq CommandId
    /\ queue \in Seq(Command)
    /\ worker \in {"pop", "dispatching", "answering", "logging", "exited"}
    /\ current \in Command
    /\ lastEvent \in [Lids -> Nat \cup {Never}]
    /\ confirming \subseteq Command
    /\ stuck \subseteq {"main", "worker"}
    /\ served \subseteq [uid : Nat, id : CommandId, from : Origin, life : Nat]
    /\ results \subseteq [uid : Nat, status : Status]
    /\ unsent \subseteq Nat
    /\ rows \subseteq [uid : Nat, signal : Nat, status : Status \cup {"NONE"}]

\* While one process lives, two commands from the ingress with the same
\* command_id never both reach a handler ("Prevent duplicate command
\* execution", command_dispatcher.cpp), whatever the two threads interleave.
ExecutedOncePerLife ==
    \A c, d \in served :
        c.from = "ingress" /\ d.from = "ingress" /\ c.life = d.life /\ c.id = d.id
            => c.uid = d.uid

\* Commands from the ingress run in the order the ingress sent them, across
\* restarts and whatever hardware events are pushed in between: the queue is
\* FIFO and nothing is run a second time.
IngressOrder ==
    [][\A c \in served' \ served, d \in served :
           c.from = "ingress" /\ d.from = "ingress" => d.uid < c.uid]_served

\* A command gets one final answer: never both REJECTED and executed, never
\* COMPLETED and FAILED; and an answer other than REJECTED is the answer of a
\* command that ran.
OneTrueAnswer ==
    /\ \A r, s \in results : r.uid = s.uid => r = s
    /\ \A r \in results :
           r.status # "REJECTED" <=> \E c \in served : c.uid = r.uid

\* Every id the dispatcher accepted in this life is still on its way or its
\* command ran: no accepted command is lost between the threads.
AcceptedNotLost ==
    \A id \in activeIds :
        \/ main = "queueing" /\ mainCmd.id = id
        \/ \E i \in DOMAIN queue : queue[i].from = "ingress" /\ queue[i].id = id
        \/ worker = "dispatching" /\ current.id = id
        \/ \E c \in served : c.life = life /\ c.id = id

\* The accounting behind the last three: each id accepted in this life is in
\* exactly one place.  Inductive, together with TypeOK.
WireIds(q) == {q[i].id : i \in {j \in DOMAIN q : q[j].from = "ingress"}}
NoTwin(q) ==
    \A i, j \in DOMAIN q :
        q[i].from = "ingress" /\ q[j].from = "ingress" /\ q[i].id = q[j].id => i = j
MainIds == IF main = "queueing" THEN {mainCmd.id} ELSE {}
BusyIds == IF worker = "dispatching" /\ current.from = "ingress" THEN {current.id} ELSE {}
ServedNow == {c \in served : c.life = life /\ c.from = "ingress"}
ServedIds == {c.id : c \in ServedNow}

AcceptedIdsAccounted ==
    /\ phase = "down" => main = "recv" /\ queue = <<>> /\ worker = "exited" /\ activeIds = {}
    /\ phase # "down" => activeIds = MainIds \cup WireIds(queue) \cup BusyIds \cup ServedIds
    /\ MainIds \cap (WireIds(queue) \cup BusyIds \cup ServedIds) = {}
    /\ WireIds(queue) \cap (BusyIds \cup ServedIds) = {}
    /\ BusyIds \cap ServedIds = {}
    /\ NoTwin(queue)
    /\ main # "recv" => mainCmd.from = "ingress"
    /\ \A c \in served : c.life <= life
    /\ ExecutedOncePerLife

\* A row in the signals table belongs to a command that ran.  A settings row
\* and a treat confirmation (written 5 s later by another thread) report what
\* the sender was told; the result row of a lid actuation never reports success
\* to the readers of the table when the sender was told of a failure.
RowsAgreeWithAnswers ==
    \A w \in rows :
        /\ \E c \in served : c.uid = w.uid
        /\ \A r \in results : r.uid = w.uid =>
             /\ w.signal \in Reporting \ {65} => w.status = r.status
             /\ w.signal = 65 /\ r.status = "FAILED" => w.status = "FAILED"

\* While the service is up every command that parses gets its answer, unless
\* that answer is lost on its way out or the one thread that owes it waits for
\* ever: main for a refusal, the worker for all others.  In particular neither
\* thread can keep the other's commands from being answered.
EveryCommandAnswered ==
    \A u \in 1 .. MaxUid :
        LET told == u \in unsent \/ \E r \in results : r.uid = u IN
        /\ (main = "refusing" /\ mainCmd.uid = u) ~> (told \/ "main" \in stuck \/ phase # "up")
        /\ (main = "queueing" /\ mainCmd.uid = u) ~> (told \/ "worker" \in stuck \/ phase # "up")

\* A shutdown completes unless a thread is in a call that never returns: the
\* joins wait for nothing else, neither for commands still in the queue nor for
\* a message that arrives meanwhile.
ShutdownCompletes == (phase = "stopping") ~> (phase = "down" \/ stuck # {})
=============================================================================
