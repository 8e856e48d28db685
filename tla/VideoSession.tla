---------------------------- MODULE VideoSession ----------------------------
(***************************************************************************)
(* Recordings of the command_executor (command_handlers.cpp): the worker   *)
(* thread handles video, pan and privacy commands one at a time and        *)
(* acknowledges them; the work is done later by detached threads, one per  *)
(* command, and one watcher per continuous recording.                      *)
(*                                                                         *)
(* The continuous_* fields are one session, named by its command.  A       *)
(* recorder is an external process, also named by its command (its         *)
(* --output path); pkill -f video_recorder.py ends all of them.            *)
(* Sleeps take any time.                                                   *)
(***************************************************************************)
EXTENDS Integers, FiniteSets

CONSTANTS
    Commands,   (* the video and pan commands of a behaviour                *)
    None,       (* no session, no lock owner                                *)
    MaxPrivacy  (* bound: privacy commands in a behaviour                   *)

ASSUME CommandsAssumption == None \notin Commands /\ MaxPrivacy \in Nat

Kinds == {"start", "stop", "legacy", "pan"}
Clips == {"legacy", "pan"}

VARIABLES
    kind,       (* what each command was: see Kinds, "refused", or "none"   *)
    privacy,    (* privacy_mode_enabled_                                    *)
    toggles,    (* privacy commands so far                                  *)
    lock,       (* owner of continuous_mutex_                               *)
    session,    (* continuous_command_id_, _storage_path_, ...              *)
    thread,     (* each command's detached thread: where it is              *)
    watcher,    (* each continuous recording's watcher: where it is         *)
    claim,      (* the session a stop thread or a watcher is uploading      *)
    recorders,  (* the running video_recorder.py processes                  *)
    saved       (* the save confirmations (#136): file, writer, success     *)

vars == <<kind, privacy, toggles, lock, session, thread, watcher,
          claim, recorders, saved>>

workerVars == <<kind, privacy, toggles>>
Claimant == {"stop", "watcher"} \X Commands

ThreadAt == {"none", "begin", "naming", "spawning", "recording", "waiting", "uploading", "done"}
WatcherAt == {"none", "asleep", "uploading", "done"}

Init ==
    /\ kind = [c \in Commands |-> "none"]
    /\ privacy = FALSE /\ toggles = 0
    /\ lock = None /\ session = None
    /\ thread = [c \in Commands |-> "none"]
    /\ watcher = [c \in Commands |-> "none"]
    /\ claim = [w \in Claimant |-> None]
    /\ recorders = {}
    /\ saved = {}

Fresh(c) == kind[c] = "none"

-----------------------------------------------------------------------------
(* Worker thread: the handlers. *)

Acknowledge(c, k) ==
    /\ kind' = [kind EXCEPT ![c] = k]
    /\ thread' = [thread EXCEPT ![c] = "begin"]
    /\ UNCHANGED <<privacy, toggles, lock, session, watcher, claim, recorders, saved>>

HandleStart(c) == Fresh(c) /\ ~privacy /\ Acknowledge(c, "start")

\* The handler looks, under the lock, whether there is a session to stop.
HandleStop(c) == Fresh(c) /\ ~privacy /\ lock = None /\ session # None /\ Acknowledge(c, "stop")

\* privacy_mode_active, no_active_continuous_recording, or a bad action or duration.
HandleRefused(c) ==
    /\ Fresh(c)
    /\ kind' = [kind EXCEPT ![c] = "refused"]
    /\ UNCHANGED <<privacy, toggles, lock, session, thread, watcher, claim, recorders, saved>>

HandleLegacy(c) == Fresh(c) /\ ~privacy /\ Acknowledge(c, "legacy")
HandlePan(c) == Fresh(c) /\ ~privacy /\ Acknowledge(c, "pan")

\* Enabling ends every recorder (and tells the ingestors); disabling only
\* tells the ingestors.
HandlePrivacy(enable) ==
    /\ toggles < MaxPrivacy /\ toggles' = toggles + 1
    /\ privacy' = enable
    /\ recorders' = IF enable THEN {} ELSE recorders
    /\ UNCHANGED <<kind, lock, session, thread, watcher, claim, saved>>

-----------------------------------------------------------------------------
(* The thread of a continuous start. *)

\* Under the lock: end any recorder, then sleep 500 ms.
StartLock(c) ==
    /\ kind[c] = "start" /\ thread[c] = "begin" /\ lock = None
    /\ lock' = c
    /\ recorders' = {}
    /\ thread' = [thread EXCEPT ![c] = "naming"]
    /\ UNCHANGED <<workerVars, session, watcher, claim, saved>>

\* Name the session, in place of whatever session there was, and unlock.
StartName(c) ==
    /\ kind[c] = "start" /\ thread[c] = "naming"
    /\ session' = c
    /\ lock' = None
    /\ thread' = [thread EXCEPT ![c] = "spawning"]
    /\ UNCHANGED <<workerVars, watcher, claim, recorders, saved>>

\* Without the lock: start the recorder and the watcher.
StartSpawn(c) ==
    /\ kind[c] = "start" /\ thread[c] = "spawning"
    /\ recorders' = recorders \cup {c}
    /\ watcher' = [watcher EXCEPT ![c] = "asleep"]
    /\ thread' = [thread EXCEPT ![c] = "done"]
    /\ UNCHANGED <<workerVars, lock, session, claim, saved>>

-----------------------------------------------------------------------------
(* Finishing a session: whoever holds the lock takes it. *)

\* Mutant: the session is copied but not reset under the lock.
TakeSession_Keep(w) ==
    /\ recorders' = {}
    /\ claim' = [claim EXCEPT ![w] = session]
    /\ UNCHANGED session

TakeSession(w) ==
    /\ recorders' = {}
    /\ claim' = [claim EXCEPT ![w] = session]
    /\ session' = None

\* The upload succeeds or fails; the confirmation is logged, or not.
Confirm(file, w) ==
    saved' \in {saved} \cup {saved \cup {[file |-> file, by |-> w, success |-> ok]} : ok \in BOOLEAN}

Awake(c) == watcher[c] = "asleep"

\* The 30 s are over: stop the recording if it is still this one.
WatcherClaim(c) ==
    /\ Awake(c) /\ lock = None /\ session = c
    /\ TakeSession(<<"watcher", c>>)
    /\ watcher' = [watcher EXCEPT ![c] = "uploading"]
    /\ UNCHANGED <<workerVars, lock, thread, saved>>

\* Mutant: the watcher gives up although the session is still its own.
WatcherLeave_Always(c) ==
    /\ Awake(c) /\ lock = None
    /\ watcher' = [watcher EXCEPT ![c] = "done"]
    /\ UNCHANGED <<workerVars, lock, session, thread, claim, recorders, saved>>

WatcherLeave(c) ==
    /\ Awake(c) /\ lock = None /\ session # c
    /\ watcher' = [watcher EXCEPT ![c] = "done"]
    /\ UNCHANGED <<workerVars, lock, session, thread, claim, recorders, saved>>

WatcherConfirm(c) ==
    /\ watcher[c] = "uploading"
    /\ Confirm(claim[<<"watcher", c>>], <<"watcher", c>>)
    /\ watcher' = [watcher EXCEPT ![c] = "done"]
    /\ UNCHANGED <<workerVars, lock, session, thread, claim, recorders>>

\* The thread of a stop.
StopClaim(c) ==
    /\ kind[c] = "stop" /\ thread[c] = "begin" /\ lock = None /\ session # None
    /\ TakeSession(<<"stop", c>>)
    /\ thread' = [thread EXCEPT ![c] = "uploading"]
    /\ UNCHANGED <<workerVars, lock, watcher, saved>>

\* Somebody else has finished the session since the handler looked.
StopTooLate(c) ==
    /\ kind[c] = "stop" /\ thread[c] = "begin" /\ lock = None /\ session = None
    /\ recorders' = {}
    /\ thread' = [thread EXCEPT ![c] = "done"]
    /\ UNCHANGED <<workerVars, lock, session, watcher, claim, saved>>

StopConfirm(c) ==
    /\ kind[c] = "stop" /\ thread[c] = "uploading"
    /\ Confirm(claim[<<"stop", c>>], <<"stop", c>>)
    /\ thread' = [thread EXCEPT ![c] = "done"]
    /\ UNCHANGED <<workerVars, lock, session, watcher, claim, recorders>>

-----------------------------------------------------------------------------
(* The thread of a legacy or pan recording: no lock and no session. *)

ClipClear(c) ==
    /\ kind[c] \in Clips /\ thread[c] = "begin"
    /\ recorders' = {}
    /\ thread' = [thread EXCEPT ![c] = "spawning"]
    /\ UNCHANGED <<workerVars, lock, session, watcher, claim, saved>>

ClipSpawn(c) ==
    /\ kind[c] \in Clips /\ thread[c] = "spawning"
    /\ recorders' = recorders \cup {c}
    /\ thread' = [thread EXCEPT ![c] = "recording"]
    /\ UNCHANGED <<workerVars, lock, session, watcher, claim, saved>>

\* A pan sends three rotations to the MCU node.  While that node is down the
\* ZeroMQ context of such a call holds an undelivered request, and its
\* destructor waits until there is somebody to deliver it to.
PanWaits(c) ==
    /\ kind[c] = "pan" /\ thread[c] = "recording"
    /\ thread' = [thread EXCEPT ![c] = "waiting"]
    /\ UNCHANGED <<workerVars, lock, session, watcher, claim, recorders, saved>>

\* The MCU node is back.
PanResumes(c) ==
    /\ kind[c] = "pan" /\ thread[c] = "waiting"
    /\ thread' = [thread EXCEPT ![c] = "recording"]
    /\ UNCHANGED <<workerVars, lock, session, watcher, claim, recorders, saved>>

\* Mutant: the recorder is left to itself.
ClipStop_NoKill(c) ==
    /\ kind[c] \in Clips /\ thread[c] = "recording"
    /\ thread' = [thread EXCEPT ![c] = "uploading"]
    /\ UNCHANGED <<workerVars, lock, session, watcher, claim, recorders, saved>>

\* The duration is over, or the sweep is done or given up.
ClipStop(c) ==
    /\ kind[c] \in Clips /\ thread[c] = "recording"
    /\ recorders' = {}
    /\ thread' = [thread EXCEPT ![c] = "uploading"]
    /\ UNCHANGED <<workerVars, lock, session, watcher, claim, saved>>

ClipConfirm(c) ==
    /\ kind[c] \in Clips /\ thread[c] = "uploading"
    /\ Confirm(c, <<kind[c], c>>)
    /\ thread' = [thread EXCEPT ![c] = "done"]
    /\ UNCHANGED <<workerVars, lock, session, watcher, claim, recorders>>

-----------------------------------------------------------------------------
DetachedStep(c) ==
    \/ StartLock(c) \/ StartName(c) \/ StartSpawn(c)
    \/ StopClaim(c) \/ StopTooLate(c) \/ StopConfirm(c)
    \/ ClipClear(c) \/ ClipSpawn(c) \/ ClipStop(c) \/ ClipConfirm(c)
WatcherStep(c) == WatcherClaim(c) \/ WatcherLeave(c) \/ WatcherConfirm(c)

Next ==
    \/ \E c \in Commands :
         \/ HandleStart(c) \/ HandleStop(c) \/ HandleRefused(c) \/ HandleLegacy(c) \/ HandlePan(c)
         \/ StartLock(c) \/ StartName(c) \/ StartSpawn(c)
         \/ StopClaim(c) \/ StopTooLate(c) \/ StopConfirm(c)
         \/ ClipClear(c) \/ ClipSpawn(c) \/ PanWaits(c) \/ PanResumes(c)
         \/ ClipStop(c) \/ ClipConfirm(c)
         \/ WatcherClaim(c) \/ WatcherLeave(c) \/ WatcherConfirm(c)
    \/ \E enable \in BOOLEAN : HandlePrivacy(enable)

Spec == Init /\ [][Next]_vars

\* Detached threads run: their sleeps, their polls (at most 25 or 30 s) and
\* their shell commands end.  A thread that waits for the mutex gets it: only
\* starts keep it, each once.  Nothing is assumed of a pan that waits for the
\* MCU node, nor that the node is ever back.
Fairness == \A c \in Commands : WF_vars(DetachedStep(c)) /\ WF_vars(WatcherStep(c))

FairSpec == Spec /\ Fairness

-----------------------------------------------------------------------------
(* Properties. *)

Writer == Claimant \cup (Clips \X Commands)

TypeOK ==
    /\ kind \in [Commands -> Kinds \cup {"none", "refused"}]
    /\ privacy \in BOOLEAN /\ toggles \in 0 .. MaxPrivacy
    /\ lock \in Commands \cup {None} /\ session \in Commands \cup {None}
    /\ thread \in [Commands -> ThreadAt]
    /\ watcher \in [Commands -> WatcherAt]
    /\ claim \in [Claimant -> Commands \cup {None}]
    /\ recorders \subseteq Commands
    /\ saved \subseteq [file : Commands, by : Writer, success : BOOLEAN]

\* A video file is confirmed at most once: however a stop, another stop and
\* the 30 s watcher race for the session, one of them uploads it.
ConfirmedOnce == \A r, s \in saved : r.file = s.file => r = s

\* A session never runs out of threads that will end it: until its recorder
\* is started its own thread is on the way, from then on its watcher sleeps.
SessionWatched == session # None => thread[session] = "spawning" \/ watcher[session] = "asleep"

\* The bookkeeping behind the last two: only a named session is current, a
\* claimed one is no longer current and has one claimant, a claim is kept by
\* the thread that uploads, and a confirmation is of the writer's own file.
Named(c) == kind[c] = "start" /\ thread[c] \in {"spawning", "done"}
SessionNamed == session # None => Named(session)
ClaimsDisjoint ==
    /\ \A w \in Claimant : claim[w] # None => Named(claim[w]) /\ claim[w] # session
    /\ \A v, w \in Claimant : claim[v] = claim[w] /\ claim[v] # None => v = w
StopClaims == \A c \in Commands :
    /\ claim[<<"stop", c>>] # None => kind[c] = "stop" /\ thread[c] \in {"uploading", "done"}
    /\ kind[c] = "stop" /\ thread[c] = "uploading" => claim[<<"stop", c>>] # None
WatcherClaims == \A c \in Commands :
    /\ claim[<<"watcher", c>>] # None => watcher[c] \in {"uploading", "done"}
    /\ watcher[c] = "uploading" => claim[<<"watcher", c>>] # None
    /\ watcher[c] # "none" => kind[c] = "start" /\ thread[c] = "done"
Owned(r) ==
    \/ \E c \in Commands : /\ r.by = <<"stop", c>> /\ r.file = claim[<<"stop", c>>]
                           /\ kind[c] = "stop" /\ thread[c] = "done"
    \/ \E c \in Commands : /\ r.by = <<"watcher", c>> /\ r.file = claim[<<"watcher", c>>]
                           /\ watcher[c] = "done"
    \/ r.by = <<kind[r.file], r.file>> /\ kind[r.file] \in Clips /\ thread[r.file] = "done"

SessionsAccounted ==
    /\ SessionNamed /\ SessionWatched
    /\ ClaimsDisjoint /\ StopClaims /\ WatcherClaims
    /\ \A r \in saved : Owned(r)
    /\ ConfirmedOnce

\* Every continuous session ends: somebody stops it, a later start replaces
\* it, or its watcher does.
SessionEnds == \A c \in Commands : (session = c) ~> (session # c)

\* The recorder of a legacy or pan recording is ended in the end, unless its
\* pan waits for an MCU node that is down: the pkill comes after that wait.
ClipEnds == \A c \in Commands :
    (kind[c] \in Clips /\ c \in recorders) ~> (c \notin recorders \/ thread[c] = "waiting")

=============================================================================
