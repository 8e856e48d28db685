--------------------------- MODULE CommandHandlers ---------------------------
(***************************************************************************)
(* The handlers of command_executor that reach a device, and the watch on  *)
(* its lids.  The worker thread runs one handler at a time; a panoramic    *)
(* sweep goes on in a detached thread; the status subscriber hears of the  *)
(* lids.  Lids and camera are moved by the MCU node, a program of another  *)
(* layer, at the other end of REQ sockets.                                 *)
(*                                                                         *)
(* A socket that is closed still delivers what it was given (ZMQ_LINGER is *)
(* never set), and after an outage of the node the sockets of a process    *)
(* connect again in any order: the requests under way are a set.           *)
(* Angles are in thousandths of a degree.                                  *)
(***************************************************************************)
EXTENDS Integers, Sequences

CONSTANTS
    Lids,           (* {1, 2}                                               *)
    LidIds,         (* what a payload has as lid_id                         *)
    Actions,        (* what it has as action                                *)
    Angles,         (* angles it asks for                                   *)
    Timeouts,       (* by command: what timeout_ms is (one below -1: Die)   *)
    KindSets,       (* what happens in a behaviour: sets of commands, and   *)
                    (* "lids" if lids move and are reported                 *)
    Debounce,       (* 1000 ms, in ticks                                    *)
    Nothing,        (* no command, answer, session, sweep, request or time  *)
    MaxCommands,    (* commands, and those of a behaviour with "lids"       *)
    MaxWithLids,
    MaxSweeps, MaxClock, MaxMoves, MaxTrail, MaxLives

\* An action is missing, a number or a text; a number is cast to int8_t.
Action == [type : {"none"}] \cup [type : {"number"}, number : Int]
          \cup [type : {"text"}, text : {"open", "1", "close", "OPEN"}]
AllKinds == {"lid", "turn", "home", "sweep", "start", "end", "photo", "privacy",
             "treat", "settings", "music", "silence", "lids"}

Outcomes == {"done", "failed", "mcu_timeout"}
TimeoutKinds == {"some", "forever"}
Limit == 90000
\* What the handler that waits for the MCU knows, and an answer; the thread of a
\* sweep, which leg it is on.
LidCommand    == [kind : {"lid"}, request : Nat, goal : {"closed", "open"}, timeout : TimeoutKinds]
CameraCommand == [kind : {"turn", "home"}, request : Nat, goal : -Limit .. Limit, timeout : TimeoutKinds]
Verdict == [kind : AllKinds, outcome : Outcomes, request : Nat, reply : Nat]
Leg == [leg : 1 .. 3, at : {"send", "wait"}]

ASSUME HandlersAssumption ==
    /\ Lids = {1, 2} /\ LidIds \subseteq 0 .. 255 /\ Actions \subseteq Action
    /\ Angles \subseteq Int
    /\ Timeouts.lid \cup Timeouts.turn \subseteq TimeoutKinds
    /\ KindSets \subseteq SUBSET AllKinds
    /\ Debounce \in Nat /\ MaxCommands \in Nat /\ MaxWithLids \in Nat /\ MaxSweeps \in Nat /\ MaxClock \in Nat
    /\ MaxMoves \in Nat /\ MaxTrail \in Nat /\ MaxLives \in Nat
    /\ Nothing \notin Nat /\ Nothing \notin Verdict /\ Nothing \notin Leg
    /\ Nothing \notin LidCommand /\ Nothing \notin CameraCommand

VARIABLES
    kinds,      (* the commands of this behaviour                           *)
    worker,     (* what the handler waits for in send_packet_to_mcu         *)
    socket,     (* mcu_socket_: which one, and whether a reply is due       *)
    angle,      (* current_camera_angle_                                    *)
    currentSession, (* current_session_id_                                  *)
    privacyMode, (* privacy_mode_enabled_                                   *)
    sweep,      (* the thread of handle_video_capture_pan                   *)
    heard,      (* what StatusSubscriber keeps of each lid                  *)
    wire,       (* requests given to a socket and not handled yet           *)
    replies,    (* replies under way or received                            *)
    camera,     (* where the camera was sent last, in hundredths, and by    *)
                (* which request                                            *)
    lids,       (* where a lid is, who moves it and where to                *)
    clock,
    count,      (* of requests; bounds: of commands, sweeps, moves, lives   *)
    answer,     (* history: the answer of the last handler                  *)
    turned,     (* history: the request of the process' last rotation       *)
    trail,      (* history: what was reported of a lid since it stood still *)
    events      (* history: the commands pushed by emit_manual_event        *)

link == <<worker, socket, wire, replies>>
node == <<camera, lids>>
ears == <<heard, trail, events, clock>>
rest == <<angle, currentSession, privacyMode, sweep>>
handlersVars == <<kinds, link, node, ears, rest, turned, count, answer>>

Deaf == [moved |-> FALSE, stable |-> "unknown", last |-> Nothing]

HandlersInit ==
    /\ kinds \in KindSets
    /\ worker = Nothing /\ socket = [id |-> 1, due |-> FALSE]
    /\ wire = {} /\ replies = {}
    /\ angle = 0 /\ currentSession = Nothing /\ privacyMode = FALSE /\ sweep = Nothing
    /\ heard = [l \in Lids |-> Deaf]
    /\ camera = [at |-> 0, by |-> 0]
    /\ lids = [l \in Lids |-> [at |-> "closed", by |-> "nobody", goal |-> "closed"]]
    /\ clock = 0
    /\ turned = 0
    /\ trail = [l \in Lids |-> <<"unknown">>] /\ events = <<>>
    /\ answer = Nothing
    /\ count = [commands |-> 0, requests |-> 0, sweeps |-> 0, moves |-> 0, lives |-> 1]

-----------------------------------------------------------------------------
(* Payloads.                                                                *)

\* Two's complement of eight bits, by its value modulo 256.
Opens(a) ==
    \/ a.type = "none"
    \/ a.type = "number" /\ a.number % 256 # 0
    \/ a.type = "text" /\ a.text \in {"open", "1"}
Goal(a) == IF Opens(a) THEN "open" ELSE "closed"
LidOf(id) == IF id = 2 THEN 2 ELSE 1

Clamp_Lower(a) == IF a < -Limit THEN -Limit ELSE a      \* mutant: no upper bound
Clamp(a) == IF a < -Limit THEN -Limit ELSE IF a > Limit THEN Limit ELSE a
Hundredths(a) == IF a >= 0 THEN a \div 10 ELSE -((-a) \div 10)
Target(a, direction) ==
    Clamp(CASE direction = 1 -> angle + a [] direction = -1 -> -a [] OTHER -> a)
Home == 99900       \* sent in place of an angle

Request(n, id, to, value) == [n |-> n, socket |-> id, to |-> to, value |-> value]

-----------------------------------------------------------------------------
(* send_packet_to_mcu.                                                      *)

Answer(command, outcome, reply) ==
    answer' = [kind |-> command.kind, outcome |-> outcome,
               request |-> command.request, reply |-> reply]

\* A rotation has the angle from now on, however its request ends.
Turn_Answered(command, request) ==      \* mutant: only if the node answered
    /\ angle' = IF command.kind = "lid" \/ answer'.outcome # "done" THEN angle ELSE command.goal
    /\ turned' = IF command.kind = "lid" THEN turned ELSE request
Turn(command, request) ==
    IF command.kind = "lid"
    THEN UNCHANGED <<angle, turned>>
    ELSE angle' = command.goal /\ turned' = request

Untouched == <<kinds, node, ears, currentSession, privacyMode, sweep>>

\* To send on a socket that still waits for a reply (EFSM) is an exception; its
\* catch builds the socket anew and the command has failed.
Send(kind, to, value, goal, timeout) ==
    LET n == count.requests + 1
        command == [kind |-> kind, request |-> n, goal |-> goal, timeout |-> timeout]
    IN IF socket.due
       THEN /\ socket' = [id |-> socket.id + 1, due |-> FALSE]
            /\ count' = [count EXCEPT !.commands = @ + 1]
            /\ Answer(command, "failed", 0)
            /\ Turn(command, Nothing)
            /\ UNCHANGED <<worker, wire, replies>>
       ELSE /\ worker' = command
            /\ wire' = wire \cup {Request(n, socket.id, to, value)}
            /\ socket' = [socket EXCEPT !.due = TRUE]
            /\ count' = [count EXCEPT !.commands = @ + 1, !.requests = n]
            /\ answer' = Nothing
            /\ UNCHANGED <<replies, angle, turned>>

Receive(r) ==
    /\ worker # Nothing /\ r \in replies /\ r.socket = socket.id
    /\ socket' = [socket EXCEPT !.due = FALSE]
    /\ replies' = replies \ {r}
    /\ worker' = Nothing
    /\ Answer(worker, "done", r.n)
    /\ Turn(worker, worker.request)
    /\ UNCHANGED <<Untouched, wire, count>>

\* Answered as a success, with "mcu_timeout"; the socket is built anew.
TimeOut ==
    /\ worker # Nothing /\ worker.timeout # "forever"
    /\ worker' = Nothing
    /\ Answer(worker, "mcu_timeout", 0)
    /\ Turn(worker, worker.request)
    /\ UNCHANGED <<Untouched, wire, replies>>
Timeout_Relaxed ==              \* mutant: the socket stays, and may send at once
    TimeOut /\ socket' = [socket EXCEPT !.due = FALSE] /\ UNCHANGED count
Timeout ==
    /\ TimeOut
    /\ socket' = [id |-> socket.id + 1, due |-> FALSE] /\ UNCHANGED count

-----------------------------------------------------------------------------
(* The handlers.                                                            *)

Bound == IF "lids" \in kinds THEN MaxWithLids ELSE MaxCommands
Handles(kind) == worker = Nothing /\ kind \in kinds /\ count.commands < Bound

LidActuation ==
    /\ Handles("lid")
    /\ \E id \in LidIds, a \in Actions, timeout \in Timeouts.lid :
        Send("lid", <<"lid", LidOf(id)>>, Goal(a), Goal(a), timeout)
    /\ UNCHANGED Untouched

CameraRotation ==
    /\ Handles("turn")
    /\ \E a \in Angles, direction \in {-1, 0, 1}, timeout \in Timeouts.turn :
        LET target == Target(a, direction)
        IN Send("turn", <<"camera">>, Hundredths(target), target, timeout)
    /\ UNCHANGED Untouched

CameraHome ==
    /\ Handles("home")
    /\ Send("home", <<"camera">>, Home, 0, "some")
    /\ UNCHANGED Untouched

\* What RadxaServices does for a handler, in the handler's own thread: it works
\* or it does not.
Served(kind, ok) == Answer([kind |-> kind, request |-> 0],
                           IF ok THEN "done" ELSE "failed", 0)
Done == count' = [count EXCEPT !.commands = @ + 1]
Aside == <<kinds, link, node, ears, angle, sweep, turned>>

Radxa(kind) ==
    /\ Handles(kind) /\ Done
    /\ \E ok \in BOOLEAN : Served(kind, ok)
    /\ UNCHANGED <<Aside, currentSession, privacyMode>>

TreatDispense == Radxa("treat")
SettingsApply == Radxa("settings")
PlayMusic == Radxa("music")
StopMusic == Radxa("silence")

\* Refused in privacy mode.
PhotoCapture ==
    /\ Handles("photo") /\ Done
    /\ \E ok \in IF privacyMode THEN {FALSE} ELSE BOOLEAN : Served("photo", ok)
    /\ UNCHANGED <<Aside, currentSession, privacyMode>>

PrivacyMode ==
    /\ Handles("privacy") /\ Done
    /\ privacyMode' \in BOOLEAN
    /\ Served("privacy", TRUE)
    /\ UNCHANGED <<Aside, currentSession>>

\* The session is named by its command, also if it was refused.
LiveSessionStart ==
    /\ Handles("start") /\ Done
    /\ \E ok \in BOOLEAN : Served("start", ok)
    /\ currentSession' = count'.commands
    /\ UNCHANGED <<Aside, privacyMode>>

LiveSessionEnd ==
    /\ Handles("end") /\ Done
    /\ \E ok \in BOOLEAN : Served("end", ok)
    /\ currentSession' = Nothing
    /\ UNCHANGED <<Aside, privacyMode>>

-----------------------------------------------------------------------------
(* The sweep of a panoramic recording: to one limit, to the other, home.    *)
(* Each request has a socket of its own.  A leg ends when its reply and then *)
(* the limit switch or the idle motor were heard of, or when time is up, or *)
(* with the request's failure.  No leg changes current_camera_angle_.       *)

Legs == <<Limit \div 10, -(Limit \div 10), Home>>

VideoCapturePan ==
    /\ Handles("sweep") /\ sweep = Nothing /\ count.sweeps < MaxSweeps  \* bound: one at a time
    /\ count' = [count EXCEPT !.commands = @ + 1, !.sweeps = @ + 1]
    /\ Served("sweep", ~privacyMode)
    /\ sweep' = IF privacyMode THEN Nothing ELSE [leg |-> 1, at |-> "send"]
    /\ UNCHANGED <<kinds, link, node, ears, angle, currentSession, privacyMode, turned>>

Sweeping == <<kinds, worker, socket, replies, node, ears, angle, currentSession, privacyMode, turned, answer>>
NextLeg == IF sweep.leg = Len(Legs) THEN Nothing
           ELSE [leg |-> sweep.leg + 1, at |-> "send"]

SweepSend ==
    /\ sweep # Nothing /\ sweep.at = "send"
    /\ LET n == count.requests + 1 IN
        /\ wire' = wire \cup {Request(n, 0, <<"camera">>, Legs[sweep.leg])}
        /\ sweep' = [sweep EXCEPT !.at = "wait"]
        /\ count' = [count EXCEPT !.requests = n]
    /\ UNCHANGED Sweeping

SweepNext ==
    /\ sweep # Nothing /\ sweep.at = "wait"
    /\ sweep' = NextLeg
    /\ UNCHANGED <<Sweeping, wire, count>>

-----------------------------------------------------------------------------
(* The MCU node, lids and hands.                                            *)

\* It handles a request of any socket, and may leave it without a reply.  A
\* reply to a socket that is gone is dropped; those to a sweep are left out.
Serve(r) ==
    /\ r \in wire
    /\ wire' = wire \ {r}
    /\ \E answered \in BOOLEAN :
        replies' = IF answered /\ r.socket = socket.id
                   THEN replies \cup {[n |-> r.n, socket |-> r.socket]} ELSE replies
    /\ IF r.to = <<"camera">>
       THEN /\ camera' = [at |-> IF r.value = Home THEN 0 ELSE r.value, by |-> r.n]
            /\ UNCHANGED lids
       ELSE /\ lids' = [lids EXCEPT ![r.to[2]].by = "motor", ![r.to[2]].goal = r.value]
            /\ UNCHANGED camera
    /\ UNCHANGED <<kinds, worker, socket, ears, rest, turned, count, answer>>

Still == <<kinds, link, camera, ears, rest, turned, answer>>
HandMoves(l) ==
    /\ lids[l].by = "nobody" /\ count.moves < MaxMoves
    /\ lids' = [lids EXCEPT ![l].at = "moving", ![l].by = "hand"]
    /\ count' = [count EXCEPT !.moves = @ + 1]
    /\ UNCHANGED Still
MotorMoves(l) ==
    /\ lids[l].by = "motor" /\ lids[l].at \notin {"moving", lids[l].goal}
    /\ lids' = [lids EXCEPT ![l].at = "moving"]
    /\ UNCHANGED <<Still, count>>
Arrives(l) ==
    /\ lids[l].by # "nobody" /\ lids[l].at \in {"moving", lids[l].goal}
    /\ \E at \in IF lids[l].by = "hand" THEN {"closed", "open"} ELSE {lids[l].goal} :
        lids' = [lids EXCEPT ![l].at = at, ![l].by = "nobody"]
    /\ UNCHANGED <<Still, count>>

-----------------------------------------------------------------------------
(* StatusSubscriber.  The node reports where a lid is and that its motor    *)
(* runs, as often as it likes; a report may be lost.                        *)

Other(v) == IF v = "open" THEN "closed" ELSE "open"
Spaced(l) == heard[l].last = Nothing \/ clock - heard[l].last >= Debounce
Hearing == <<kinds, link, node, rest, turned, count, answer, clock>>

Moving(l) ==
    /\ lids[l].at = "moving" /\ Len(trail[l]) < MaxTrail
    /\ heard' = [heard EXCEPT ![l].moved = TRUE]
    /\ trail' = [trail EXCEPT ![l] = Append(@, "moving")]
    /\ UNCHANGED <<Hearing, events>>

\* emit_manual_event, from the two stable reports.
Stands_Unstable(l) ==           \* mutant: the last stable state is not kept
    LET v == lids[l].at
        emits == heard[l].moved /\ heard[l].stable \in {Other(v), "unknown"} /\ Spaced(l)
    IN /\ v # "moving"
       /\ heard' = [heard EXCEPT ![l].moved = FALSE, ![l].last = IF emits THEN clock ELSE @]
       /\ events' = IF emits THEN Append(events, [lid |-> l, to |-> v, at |-> clock]) ELSE events
       /\ trail' = [trail EXCEPT ![l] = <<v>>]
       /\ UNCHANGED Hearing
Stands(l) ==
    LET v == lids[l].at
        emits == heard[l].moved /\ heard[l].stable = Other(v) /\ Spaced(l)
    IN /\ v # "moving"
       /\ heard' = [heard EXCEPT ![l] = [moved |-> FALSE, stable |-> v,
                                         last |-> IF emits THEN clock ELSE @.last]]
       /\ events' = IF emits THEN Append(events, [lid |-> l, to |-> v, at |-> clock]) ELSE events
       /\ trail' = [trail EXCEPT ![l] = <<v>>]
       /\ UNCHANGED Hearing

MotorRuns(l) ==
    /\ lids[l].by = "motor" /\ Len(trail[l]) < MaxTrail
    /\ heard' = [heard EXCEPT ![l].moved = FALSE]
    /\ trail' = [trail EXCEPT ![l] = Append(@, "motor")]
    /\ UNCHANGED <<Hearing, events>>

Tick ==
    /\ clock < MaxClock
    /\ clock' = clock + 1
    /\ UNCHANGED <<kinds, link, node, rest, turned, count, answer, heard, trail, events>>

-----------------------------------------------------------------------------
\* A payload of the wrong type is an exception nobody catches, and so is a
\* timeout_ms below -1: zmq refuses it with an exception whose catch builds the
\* socket anew and sets the same time-out again.  The launcher starts the process
\* again.  What was delivered stays with the node.
Die ==
    /\ count.lives < MaxLives
    /\ count' = [count EXCEPT !.lives = @ + 1]
    /\ worker' = Nothing /\ socket' = [id |-> socket.id + 1, due |-> FALSE]
    /\ wire' \in SUBSET wire /\ replies' = {}
    /\ angle' = 0 /\ currentSession' = Nothing /\ privacyMode' = FALSE /\ sweep' = Nothing
    /\ heard' = [l \in Lids |-> Deaf]
    /\ trail' = [l \in Lids |-> <<"unknown">>] /\ events' = <<>>
    /\ turned' = Nothing /\ answer' = Nothing
    /\ UNCHANGED <<kinds, node, clock>>

HandlersNext ==
    \/ LidActuation \/ CameraRotation \/ CameraHome
    \/ TreatDispense \/ SettingsApply \/ PlayMusic \/ StopMusic
    \/ PhotoCapture \/ PrivacyMode \/ LiveSessionStart \/ LiveSessionEnd
    \/ VideoCapturePan
    \/ Timeout
    \/ \E r \in replies : Receive(r)
    \/ SweepSend \/ SweepNext
    \/ \E r \in wire : Serve(r)
    \/ "lids" \in kinds /\ \E l \in Lids :
        \/ HandMoves(l) \/ MotorMoves(l) \/ Arrives(l)
        \/ Moving(l) \/ Stands(l) \/ MotorRuns(l)
    \/ "lids" \in kinds /\ Tick
    \/ Die

HandlersSpec == HandlersInit /\ [][HandlersNext]_handlersVars

-----------------------------------------------------------------------------
Reports == {"unknown", "closed", "open", "moving", "motor"}
Lid == [at : {"closed", "open", "moving"}, by : {"nobody", "hand", "motor"},
        goal : {"closed", "open"}]
HandlersTypeOK ==
    /\ kinds \in KindSets
    /\ worker # Nothing =>
        /\ worker \in IF worker.kind = "lid" THEN LidCommand ELSE CameraCommand
        /\ worker.kind \in kinds /\ worker.request \in 1 .. count.requests
    /\ socket \in [id : Nat, due : BOOLEAN]
    /\ angle \in -Limit .. Limit
    /\ currentSession \in (1 .. count.commands) \cup {Nothing} /\ privacyMode \in BOOLEAN
    /\ sweep # Nothing => sweep \in Leg
    /\ \A l \in Lids : heard[l].last # Nothing => heard[l].last \in 0 .. clock
    /\ \A r \in wire : r.n \in 1 .. count.requests /\ r.socket \in 0 .. socket.id
    /\ \A r \in replies : r.n \in 1 .. count.requests
    /\ camera.by \in 0 .. count.requests /\ lids \in [Lids -> Lid]
    /\ \A l \in Lids : \A i \in DOMAIN trail[l] : trail[l][i] \in Reports

\* Whatever timed out before it, and whatever late reply is still under way, a
\* command is answered for itself: "done" by the node's reply to its own request,
\* and never "failed" because the socket still waits for an earlier one's reply.
\* (A signal that interrupts a receive is left out: the process stops on it.)
AnswersTrue ==
    answer # Nothing /\ answer.kind \in {"lid", "turn", "home"} =>
        /\ answer.outcome = "done" => answer.reply = answer.request
        /\ answer.outcome # "failed"

\* When the camera obeys the last rotation of this process, current_camera_angle_
\* is where it was sent, although the request may have been answered late, or
\* not at all.
CameraTracked ==
    worker = Nothing /\ turned # Nothing /\ camera.by = turned => camera.at = Hundredths(angle)

\* A lid is reported as moved by hand if and only if it was reported where it
\* stands, then under way with no motor report after that, then at the other
\* end, and the last such event of this lid is a second old.
ByHand(l, v) ==
    /\ trail[l][1] = Other(v)
    /\ \E i \in DOMAIN trail[l] :
        trail[l][i] = "moving" /\ \A j \in i .. Len(trail[l]) : trail[l][j] # "motor"
    /\ \A i \in DOMAIN events : events[i].lid = l => clock - events[i].at >= Debounce
LidEvents ==
    [][count'.lives = count.lives => \A l \in Lids, v \in {"closed", "open"} :
        (\E i \in DOMAIN events' \ DOMAIN events : events'[i] = [lid |-> l, to |-> v, at |-> clock])
        <=> (trail'[l] = <<v>> /\ trail[l] # <<v>> /\ ByHand(l, v))]_handlersVars
=============================================================================
