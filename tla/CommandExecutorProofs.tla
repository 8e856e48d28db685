----------------------- MODULE CommandExecutorProofs -----------------------
(* Theorems about what the worker thread of command_executor runs: the      *)
(* recording sessions (VideoSession), for every set of commands, and the    *)
(* handlers that reach a device (CommandHandlers), for every set of         *)
(* payloads and every bound.                                                *)
EXTENDS VideoSession, CommandHandlers, TLAPS

-----------------------------------------------------------------------------
(* Type correctness. *)

LEMMA InitType == Init => TypeOK
<1> SUFFICES ASSUME Init PROVE TypeOK
  OBVIOUS
<1>1. toggles \in 0 .. MaxPrivacy
  BY CommandsAssumption DEF Init
<1>2. claim \in [Claimant -> Commands \cup {None}]
  BY DEF Init
<1>3. QED
  BY <1>1, <1>2 DEF Init, TypeOK, ThreadAt, WatcherAt

LEMMA ConfirmType ==
    ASSUME saved \subseteq [file : Commands, by : Writer, success : BOOLEAN],
           NEW f \in Commands, NEW w \in Writer, Confirm(f, w)
    PROVE  saved' \subseteq [file : Commands, by : Writer, success : BOOLEAN]
<1>1. \A ok \in BOOLEAN : [file |-> f, by |-> w, success |-> ok]
                             \in [file : Commands, by : Writer, success : BOOLEAN]
  OBVIOUS
<1>2. QED
  BY <1>1 DEF Confirm

LEMMA ClaimantType ==
    ASSUME NEW c \in Commands
    PROVE  /\ <<"stop", c>> \in Claimant /\ <<"watcher", c>> \in Claimant
           /\ \A k \in Clips : <<k, c>> \in Writer
           /\ Claimant \subseteq Writer
  BY DEF Claimant, Writer, Clips

\* TypeOK is not inductive alone: that a confirmed claim is not None comes
\* from the bookkeeping.
LEMMA NextType == TypeOK /\ SessionsAccounted /\ [Next]_vars => TypeOK'
<1> SUFFICES ASSUME TypeOK, SessionsAccounted, [Next]_vars PROVE TypeOK'
  OBVIOUS
<1> USE DEF workerVars
<1>1. ASSUME NEW c \in Commands, NEW k \in Kinds, Acknowledge(c, k) PROVE TypeOK'
  BY <1>1 DEF Acknowledge, TypeOK, ThreadAt
<1>2. ASSUME NEW c \in Commands, HandleStart(c) \/ HandleStop(c) \/ HandleLegacy(c) \/ HandlePan(c)
      PROVE TypeOK'
  BY <1>1, <1>2 DEF HandleStart, HandleStop, HandleLegacy, HandlePan, Kinds
<1>3. ASSUME NEW c \in Commands, HandleRefused(c) PROVE TypeOK'
  BY <1>3 DEF HandleRefused, TypeOK
<1>4. ASSUME NEW e \in BOOLEAN, HandlePrivacy(e) PROVE TypeOK'
  BY <1>4, CommandsAssumption DEF HandlePrivacy, TypeOK
<1>5. ASSUME NEW c \in Commands, StartLock(c) \/ StartName(c) \/ StartSpawn(c) PROVE TypeOK'
  BY <1>5 DEF StartLock, StartName, StartSpawn, TypeOK, ThreadAt, WatcherAt
<1>6. ASSUME NEW c \in Commands, StopClaim(c) \/ StopTooLate(c) PROVE TypeOK'
  BY <1>6, ClaimantType DEF StopClaim, StopTooLate, TakeSession, TypeOK, ThreadAt
<1>7. ASSUME NEW c \in Commands, StopConfirm(c) PROVE TypeOK'
  <2>1. claim[<<"stop", c>>] \in Commands
    BY <1>7, ClaimantType DEF StopConfirm, SessionsAccounted, StopClaims, TypeOK
  <2>2. saved' \subseteq [file : Commands, by : Writer, success : BOOLEAN]
    BY <1>7, <2>1, ClaimantType, ConfirmType DEF StopConfirm, TypeOK
  <2>3. QED
    BY <1>7, <2>2 DEF StopConfirm, TypeOK, ThreadAt
<1>8. ASSUME NEW c \in Commands,
             ClipClear(c) \/ ClipSpawn(c) \/ PanWaits(c) \/ PanResumes(c) \/ ClipStop(c)
      PROVE TypeOK'
  BY <1>8 DEF ClipClear, ClipSpawn, PanWaits, PanResumes, ClipStop, TypeOK, ThreadAt
<1>9. ASSUME NEW c \in Commands, ClipConfirm(c) PROVE TypeOK'
  <2>1. saved' \subseteq [file : Commands, by : Writer, success : BOOLEAN]
    BY <1>9, ClaimantType, ConfirmType DEF ClipConfirm, TypeOK
  <2>2. QED
    BY <1>9, <2>1 DEF ClipConfirm, TypeOK, ThreadAt
<1>10. ASSUME NEW c \in Commands, WatcherClaim(c) \/ WatcherLeave(c) PROVE TypeOK'
  BY <1>10, ClaimantType DEF WatcherClaim, WatcherLeave, TakeSession, TypeOK, WatcherAt
<1>11. ASSUME NEW c \in Commands, WatcherConfirm(c) PROVE TypeOK'
  <2>1. claim[<<"watcher", c>>] \in Commands
    BY <1>11, ClaimantType DEF WatcherConfirm, SessionsAccounted, WatcherClaims, TypeOK
  <2>2. saved' \subseteq [file : Commands, by : Writer, success : BOOLEAN]
    BY <1>11, <2>1, ClaimantType, ConfirmType DEF WatcherConfirm, TypeOK
  <2>3. QED
    BY <1>11, <2>2 DEF WatcherConfirm, TypeOK, WatcherAt
<1>12. CASE UNCHANGED vars
  BY <1>12 DEF vars, TypeOK
<1>13. QED
  BY <1>2, <1>3, <1>4, <1>5, <1>6, <1>7, <1>8, <1>9, <1>10, <1>11, <1>12 DEF Next

-----------------------------------------------------------------------------
(* The bookkeeping is kept. *)

LEMMA InitAccounted == Init => SessionsAccounted
  BY CommandsAssumption
     DEF Init, SessionsAccounted, SessionNamed, SessionWatched, ClaimsDisjoint, StopClaims,
         WatcherClaims, ConfirmedOnce, Claimant

\* A step of one command's thread that neither takes nor ends a claim, and
\* does not leave a named or (unless it is the first) a done state, leaves the
\* bookkeeping as it is.
LEMMA ThreadMoves ==
    ASSUME TypeOK, SessionsAccounted, NEW c \in Commands,
           NEW k \in Kinds \cup {"refused"}, NEW t \in ThreadAt,
           kind' = [kind EXCEPT ![c] = k], thread' = [thread EXCEPT ![c] = t],
           UNCHANGED <<session, watcher, claim, saved>>,
           \/ kind[c] = "none" /\ (k = "stop" => t # "uploading")
           \/ /\ kind[c] = k /\ ~Named(c) /\ thread[c] # "done"
              /\ k = "stop" => t # "uploading" /\ thread[c] # "uploading"
    PROVE  SessionsAccounted'
<1>0. ~Named(c) /\ watcher[c] = "none"
  BY DEF Named, SessionsAccounted, WatcherClaims, TypeOK, Kinds
<1>1. \A d \in Commands : Named(d) => d # c /\ Named(d)'
  BY <1>0 DEF Named, TypeOK
<1>2. \A d \in Commands : d # c => kind'[d] = kind[d] /\ thread'[d] = thread[d]
  BY DEF TypeOK
<1>3. kind'[c] = k /\ thread'[c] = t
  BY DEF TypeOK
<1>4. SessionNamed'
  BY <1>1 DEF SessionsAccounted, SessionNamed, TypeOK
<1>5. SessionWatched'
  BY <1>1, <1>2 DEF SessionsAccounted, SessionNamed, SessionWatched, TypeOK
<1>6. ClaimsDisjoint'
  BY <1>1 DEF SessionsAccounted, ClaimsDisjoint, TypeOK
<1>7. StopClaims'
  BY <1>2, <1>3 DEF SessionsAccounted, StopClaims
<1>8. WatcherClaims'
  BY <1>0, <1>2, <1>3 DEF SessionsAccounted, WatcherClaims
<1>9. ASSUME NEW r \in saved PROVE Owned(r)'
  <2>1. Owned(r) /\ r.file \in Commands
    BY DEF SessionsAccounted, TypeOK
  <2>2. CASE r.by = <<kind[r.file], r.file>> /\ kind[r.file] \in Clips /\ thread[r.file] = "done"
    BY <1>2, <2>1, <2>2 DEF Owned, Clips
  <2>3. CASE \E d \in Commands : r.by = <<"stop", d>> /\ r.file = claim[<<"stop", d>>]
                                  /\ kind[d] = "stop" /\ thread[d] = "done"
    BY <1>2, <2>3 DEF Owned
  <2>4. CASE \E d \in Commands : r.by = <<"watcher", d>> /\ r.file = claim[<<"watcher", d>>]
                                  /\ watcher[d] = "done"
    BY <2>4 DEF Owned
  <2>5. QED
    BY <2>1, <2>2, <2>3, <2>4 DEF Owned
<1>10. ConfirmedOnce'
  BY DEF SessionsAccounted, ConfirmedOnce
<1>11. QED
  BY <1>4, <1>5, <1>6, <1>7, <1>8, <1>9, <1>10 DEF SessionsAccounted

\* A new confirmation by w of file f is the only one of f if w was the one
\* whose claim f is, and had not confirmed yet.
LEMMA SavedOnce ==
    ASSUME ConfirmedOnce, NEW f, NEW w, Confirm(f, w),
           \A r \in saved : r.file # f
    PROVE  ConfirmedOnce'
<1>1. CASE saved' = saved
  BY <1>1 DEF ConfirmedOnce
<1>2. ASSUME NEW ok \in BOOLEAN, saved' = saved \cup {[file |-> f, by |-> w, success |-> ok]}
      PROVE ConfirmedOnce'
  BY <1>2 DEF ConfirmedOnce
<1>3. QED
  BY <1>1, <1>2 DEF Confirm

\* Nothing the bookkeeping speaks of changes.
LEMMA Unmoved ==
    ASSUME SessionsAccounted, UNCHANGED <<kind, session, thread, watcher, claim, saved>>
    PROVE  SessionsAccounted'
  BY DEF SessionsAccounted, SessionNamed, SessionWatched, ClaimsDisjoint, StopClaims,
         WatcherClaims, Owned, Named, ConfirmedOnce

\* The start thread names its session: it was not named before, so nobody
\* has claimed it.
LEMMA NameAccounted ==
    ASSUME TypeOK, SessionsAccounted, NEW c \in Commands, StartName(c)
    PROVE  SessionsAccounted'
<1> USE DEF workerVars
<1>1. /\ kind[c] = "start" /\ thread[c] = "naming" /\ session' = c
      /\ thread' = [thread EXCEPT ![c] = "spawning"]
      /\ UNCHANGED <<kind, watcher, claim, saved>>
  BY DEF StartName
<1>2. ~Named(c) /\ Named(c)' /\ \A d \in Commands : Named(d) => Named(d)'
  BY <1>1 DEF Named, TypeOK
<1>3. \A d \in Commands : d # c => thread'[d] = thread[d]
  BY <1>1 DEF TypeOK
<1>4. thread'[c] = "spawning"
  BY <1>1 DEF TypeOK
<1>5. SessionNamed' /\ SessionWatched'
  BY <1>1, <1>2, <1>4 DEF SessionNamed, SessionWatched
<1>6. ClaimsDisjoint'
  BY <1>1, <1>2 DEF SessionsAccounted, ClaimsDisjoint, TypeOK
<1>7. StopClaims' /\ WatcherClaims'
  BY <1>1, <1>3, <1>4 DEF SessionsAccounted, StopClaims, WatcherClaims
<1>8. ASSUME NEW r \in saved PROVE Owned(r)'
  <2>1. Owned(r) /\ r.file \in Commands
    BY DEF SessionsAccounted, TypeOK
  <2>2. QED
    BY <1>1, <1>3, <2>1 DEF Owned
<1>9. ConfirmedOnce'
  BY <1>1 DEF SessionsAccounted, ConfirmedOnce
<1>10. QED
  BY <1>1, <1>5, <1>6, <1>7, <1>8, <1>9 DEF SessionsAccounted

\* From the spawn on, the watcher is there.
LEMMA SpawnAccounted ==
    ASSUME TypeOK, SessionsAccounted, NEW c \in Commands, StartSpawn(c)
    PROVE  SessionsAccounted'
<1> USE DEF workerVars
<1>1. /\ kind[c] = "start" /\ thread[c] = "spawning"
      /\ thread' = [thread EXCEPT ![c] = "done"] /\ watcher' = [watcher EXCEPT ![c] = "asleep"]
      /\ UNCHANGED <<kind, session, claim, saved>>
  BY DEF StartSpawn
<1>2. watcher[c] = "none" /\ claim[<<"watcher", c>>] = None
  BY <1>1 DEF SessionsAccounted, WatcherClaims, TypeOK, WatcherAt
<1>3. \A d \in Commands : d # c => thread'[d] = thread[d] /\ watcher'[d] = watcher[d]
  BY <1>1 DEF TypeOK
<1>4. thread'[c] = "done" /\ watcher'[c] = "asleep"
  BY <1>1 DEF TypeOK
<1>5. \A d \in Commands : Named(d) => Named(d)'
  BY <1>1, <1>3, <1>4 DEF Named
<1>6. SessionNamed' /\ SessionWatched'
  BY <1>1, <1>3, <1>4, <1>5 DEF SessionsAccounted, SessionNamed, SessionWatched, TypeOK
<1>7. ClaimsDisjoint'
  BY <1>1, <1>5 DEF SessionsAccounted, ClaimsDisjoint, TypeOK
<1>8. StopClaims'
  BY <1>1, <1>3, <1>4 DEF SessionsAccounted, StopClaims
<1>9. WatcherClaims'
  <2> SUFFICES ASSUME NEW d \in Commands
               PROVE  /\ claim'[<<"watcher", d>>] # None => watcher'[d] \in {"uploading", "done"}
                      /\ watcher'[d] = "uploading" => claim'[<<"watcher", d>>] # None
                      /\ watcher'[d] # "none" => kind'[d] = "start" /\ thread'[d] = "done"
    BY DEF WatcherClaims
  <2>1. CASE d = c
    BY <2>1, <1>1, <1>2, <1>4
  <2>2. CASE d # c
    <3>1. watcher'[d] = watcher[d] /\ thread'[d] = thread[d]
      BY <2>2, <1>3
    <3>2. /\ claim[<<"watcher", d>>] # None => watcher[d] \in {"uploading", "done"}
          /\ watcher[d] = "uploading" => claim[<<"watcher", d>>] # None
          /\ watcher[d] # "none" => kind[d] = "start" /\ thread[d] = "done"
      BY DEF SessionsAccounted, WatcherClaims
    <3>3. claim' = claim /\ kind' = kind
      BY <1>1
    <3> QED
      BY <3>1, <3>2, <3>3
  <2> QED
    BY <2>1, <2>2
<1>10. ASSUME NEW r \in saved PROVE Owned(r)'
  <2>1. Owned(r) /\ r.file \in Commands
    BY DEF SessionsAccounted, TypeOK
  <2>2. QED
    BY <1>1, <1>2, <1>3, <2>1 DEF Owned, Clips
<1>11. ConfirmedOnce'
  BY <1>1 DEF SessionsAccounted, ConfirmedOnce
<1>12. QED
  BY <1>1, <1>6, <1>7, <1>8, <1>9, <1>10, <1>11 DEF SessionsAccounted

\* Taking the session: it was current, hence unclaimed, and is current no more.
LEMMA TakeDisjoint ==
    ASSUME TypeOK, SessionsAccounted, NEW w \in Claimant, TakeSession(w),
           session # None, claim[w] = None, \A d \in Commands : Named(d) => Named(d)'
    PROVE  ClaimsDisjoint' /\ SessionNamed' /\ SessionWatched'
<1>1. /\ session \in Commands /\ Named(session)
      /\ session' = None /\ claim'[w] = session
      /\ \A v \in Claimant : v # w => claim'[v] = claim[v]
  BY DEF TakeSession, SessionsAccounted, SessionNamed, TypeOK
<1>2. \A v \in Claimant : claim[v] # session
  BY <1>1 DEF SessionsAccounted, ClaimsDisjoint
<1>3. ASSUME NEW v \in Claimant
      PROVE  (claim[v] # None => Named(claim[v]) /\ claim[v] # session)'
  <2>1. CASE v = w
    <3>1. PICK s \in Commands : s = session /\ Named(s) /\ (claim[v])' = s
      BY <1>1, <2>1
    <3>2. Named(s)'
      BY <3>1
    <3>3. QED
      BY <1>1, <3>1, <3>2, CommandsAssumption DEF Named
  <2>2. CASE v # w
    <3>1. PICK f \in Commands \cup {None} : f = claim[v] /\ (claim[v])' = f
      BY <1>1, <2>2 DEF TypeOK
    <3>2. f # None => Named(f)
      BY <3>1 DEF SessionsAccounted, ClaimsDisjoint
    <3>3. f # None => Named(f)'
      BY <3>2
    <3>4. QED
      BY <1>1, <3>1, <3>3 DEF Named
  <2>3. QED
    BY <2>1, <2>2
<1>4. \A u, v \in Claimant : claim'[u] = claim'[v] /\ claim'[u] # None => u = v
  BY <1>1, <1>2 DEF SessionsAccounted, ClaimsDisjoint
<1>5. ClaimsDisjoint'
  BY <1>3, <1>4 DEF ClaimsDisjoint
<1>6. QED
  BY <1>1, <1>5 DEF SessionNamed, SessionWatched

LEMMA StopClaimAccounted ==
    ASSUME TypeOK, SessionsAccounted, NEW c \in Commands, StopClaim(c)
    PROVE  SessionsAccounted'
<1> USE DEF workerVars
<1> DEFINE w == <<"stop", c>>
<1>1. /\ kind[c] = "stop" /\ thread[c] = "begin" /\ session # None /\ session \in Commands
      /\ thread' = [thread EXCEPT ![c] = "uploading"] /\ TakeSession(w)
      /\ UNCHANGED <<kind, watcher, saved>>
  BY DEF StopClaim, TypeOK
<1>2. w \in Claimant /\ claim[w] = None
  BY <1>1, ClaimantType DEF SessionsAccounted, StopClaims
<1>3. /\ claim'[w] = session
      /\ \A d \in Commands : /\ d # c => claim'[<<"stop", d>>] = claim[<<"stop", d>>]
                             /\ claim'[<<"watcher", d>>] = claim[<<"watcher", d>>]
  BY <1>1, <1>2, ClaimantType DEF TakeSession, TypeOK
<1>4. thread'[c] = "uploading" /\ \A d \in Commands : d # c => thread'[d] = thread[d]
  BY <1>1 DEF TypeOK
<1>5. \A d \in Commands : Named(d) => Named(d)'
  BY <1>1, <1>4 DEF Named
<1>6. ClaimsDisjoint' /\ SessionNamed' /\ SessionWatched'
  BY <1>1, <1>2, <1>5, TakeDisjoint
<1>7. StopClaims'
  BY <1>1, <1>3, <1>4 DEF SessionsAccounted, StopClaims
<1>8. WatcherClaims'
  <2> SUFFICES ASSUME NEW d \in Commands
               PROVE  /\ claim'[<<"watcher", d>>] # None => watcher'[d] \in {"uploading", "done"}
                      /\ watcher'[d] = "uploading" => claim'[<<"watcher", d>>] # None
                      /\ watcher'[d] # "none" => kind'[d] = "start" /\ thread'[d] = "done"
    BY DEF WatcherClaims
  <2>1. /\ claim[<<"watcher", d>>] # None => watcher[d] \in {"uploading", "done"}
        /\ watcher[d] = "uploading" => claim[<<"watcher", d>>] # None
        /\ watcher[d] # "none" => kind[d] = "start" /\ thread[d] = "done"
    BY DEF SessionsAccounted, WatcherClaims
  <2>2. /\ claim'[<<"watcher", d>>] = claim[<<"watcher", d>>]
        /\ watcher' = watcher /\ kind' = kind
    BY <1>1, <1>3
  <2>3. watcher[d] # "none" => thread'[d] = thread[d]
    BY <1>1, <1>4, <2>1
  <2> QED
    BY <2>1, <2>2, <2>3
<1>9. ASSUME NEW r \in saved PROVE Owned(r)'
  <2>1. Owned(r) /\ r.file \in Commands
    BY DEF SessionsAccounted, TypeOK
  <2>2. CASE \E d \in Commands : /\ r.by = <<"stop", d>> /\ r.file = claim[<<"stop", d>>]
                                 /\ kind[d] = "stop" /\ thread[d] = "done"
    <3>1. PICK d \in Commands : /\ r.by = <<"stop", d>> /\ r.file = claim[<<"stop", d>>]
                                /\ kind[d] = "stop" /\ thread[d] = "done"
      BY <2>2
    <3>2. d # c
      BY <1>1, <3>1
    <3> QED
      BY <1>1, <1>3, <1>4, <3>1, <3>2 DEF Owned
  <2>3. CASE \E d \in Commands : /\ r.by = <<"watcher", d>> /\ r.file = claim[<<"watcher", d>>]
                                 /\ watcher[d] = "done"
    BY <1>1, <1>3, <2>3 DEF Owned
  <2>4. CASE r.by = <<kind[r.file], r.file>> /\ kind[r.file] \in Clips /\ thread[r.file] = "done"
    <3>1. r.file # c
      BY <1>1, <2>4
    <3> QED
      BY <1>1, <1>4, <2>1, <2>4, <3>1 DEF Owned
  <2>5. QED
    BY <2>1, <2>2, <2>3, <2>4 DEF Owned
<1>10. ConfirmedOnce'
  BY <1>1 DEF SessionsAccounted, ConfirmedOnce
<1>11. QED
  BY <1>1, <1>6, <1>7, <1>8, <1>9, <1>10 DEF SessionsAccounted

LEMMA WatcherClaimAccounted ==
    ASSUME TypeOK, SessionsAccounted, NEW c \in Commands, WatcherClaim(c)
    PROVE  SessionsAccounted'
<1> USE DEF workerVars
<1> DEFINE w == <<"watcher", c>>
<1>1. /\ watcher[c] = "asleep" /\ session = c /\ session # None
      /\ watcher' = [watcher EXCEPT ![c] = "uploading"] /\ TakeSession(w)
      /\ UNCHANGED <<kind, thread, saved>>
  BY CommandsAssumption DEF WatcherClaim, Awake
<1>2. w \in Claimant /\ claim[w] = None
  BY <1>1, ClaimantType DEF SessionsAccounted, WatcherClaims
<1>3. /\ claim'[w] = session
      /\ \A d \in Commands : /\ d # c => claim'[<<"watcher", d>>] = claim[<<"watcher", d>>]
                             /\ claim'[<<"stop", d>>] = claim[<<"stop", d>>]
  BY <1>1, <1>2, ClaimantType DEF TakeSession, TypeOK
<1>4. watcher'[c] = "uploading" /\ \A d \in Commands : d # c => watcher'[d] = watcher[d]
  BY <1>1 DEF TypeOK
<1>5. \A d \in Commands : Named(d) => Named(d)'
  BY <1>1 DEF Named
<1>6. ClaimsDisjoint' /\ SessionNamed' /\ SessionWatched'
  BY <1>1, <1>2, <1>5, TakeDisjoint
<1>7. StopClaims'
  BY <1>1, <1>3 DEF SessionsAccounted, StopClaims
<1>8. WatcherClaims'
  <2> SUFFICES ASSUME NEW d \in Commands
               PROVE  /\ claim'[<<"watcher", d>>] # None => watcher'[d] \in {"uploading", "done"}
                      /\ watcher'[d] = "uploading" => claim'[<<"watcher", d>>] # None
                      /\ watcher'[d] # "none" => kind'[d] = "start" /\ thread'[d] = "done"
    BY DEF WatcherClaims
  <2>1. /\ claim[<<"watcher", d>>] # None => watcher[d] \in {"uploading", "done"}
        /\ watcher[d] = "uploading" => claim[<<"watcher", d>>] # None
        /\ watcher[d] # "none" => kind[d] = "start" /\ thread[d] = "done"
    BY DEF SessionsAccounted, WatcherClaims
  <2>2. kind' = kind /\ thread' = thread
    BY <1>1
  <2>3. CASE d = c
    BY <1>1, <1>3, <1>4, <2>1, <2>2, <2>3
  <2>4. CASE d # c
    BY <1>3, <1>4, <2>1, <2>2, <2>4
  <2> QED
    BY <2>3, <2>4
<1>9. ASSUME NEW r \in saved PROVE Owned(r)'
  <2>1. Owned(r) /\ r.file \in Commands
    BY DEF SessionsAccounted, TypeOK
  <2>2. CASE \E d \in Commands : /\ r.by = <<"stop", d>> /\ r.file = claim[<<"stop", d>>]
                                 /\ kind[d] = "stop" /\ thread[d] = "done"
    BY <1>1, <1>3, <2>2 DEF Owned
  <2>3. CASE \E d \in Commands : /\ r.by = <<"watcher", d>> /\ r.file = claim[<<"watcher", d>>]
                                 /\ watcher[d] = "done"
    <3>1. PICK d \in Commands : /\ r.by = <<"watcher", d>> /\ r.file = claim[<<"watcher", d>>]
                                /\ watcher[d] = "done"
      BY <2>3
    <3>2. d # c
      BY <1>1, <3>1
    <3> QED
      BY <1>3, <1>4, <3>1, <3>2 DEF Owned
  <2>4. CASE r.by = <<kind[r.file], r.file>> /\ kind[r.file] \in Clips /\ thread[r.file] = "done"
    BY <1>1, <2>4 DEF Owned
  <2>5. QED
    BY <2>1, <2>2, <2>3, <2>4 DEF Owned
<1>10. ConfirmedOnce'
  BY <1>1 DEF SessionsAccounted, ConfirmedOnce
<1>11. QED
  BY <1>1, <1>6, <1>7, <1>8, <1>9, <1>10 DEF SessionsAccounted

\* A watcher gives up only when the session is not, or no longer, its own.
LEMMA WatcherLeaveAccounted ==
    ASSUME TypeOK, SessionsAccounted, NEW c \in Commands, WatcherLeave(c)
    PROVE  SessionsAccounted'
<1> USE DEF workerVars
<1>1. /\ watcher[c] = "asleep" /\ session # c
      /\ watcher' = [watcher EXCEPT ![c] = "done"]
      /\ UNCHANGED <<kind, session, thread, claim, saved>>
  BY DEF WatcherLeave, Awake
<1>2. watcher'[c] = "done" /\ \A d \in Commands : d # c => watcher'[d] = watcher[d]
  BY <1>1 DEF TypeOK
<1>3. \A d \in Commands : Named(d) => Named(d)'
  BY <1>1 DEF Named
<1>4. SessionNamed' /\ SessionWatched'
  <2>1. SessionNamed'
    BY <1>1, <1>3 DEF SessionsAccounted, SessionNamed, TypeOK
  <2>2. ASSUME session # None PROVE thread[session] = "spawning" \/ watcher'[session] = "asleep"
    <3>1. session \in Commands /\ session # c
      BY <1>1, <2>2 DEF TypeOK
    <3> QED
      BY <1>2, <2>2, <3>1 DEF SessionsAccounted, SessionWatched
  <2> QED
    BY <1>1, <2>1, <2>2 DEF SessionWatched
<1>5. ClaimsDisjoint' /\ StopClaims'
  BY <1>1, <1>3 DEF SessionsAccounted, ClaimsDisjoint, StopClaims, TypeOK
<1>6. WatcherClaims'
  BY <1>1, <1>2 DEF SessionsAccounted, WatcherClaims
<1>7. ASSUME NEW r \in saved PROVE Owned(r)'
  <2>1. Owned(r)
    BY DEF SessionsAccounted
  <2>2. QED
    BY <1>1, <1>2, <2>1 DEF Owned
<1>8. ConfirmedOnce'
  BY <1>1 DEF SessionsAccounted, ConfirmedOnce
<1>9. QED
  BY <1>1, <1>4, <1>5, <1>6, <1>7, <1>8 DEF SessionsAccounted

\* What a thread that has not finished has claimed is not confirmed yet.
LEMMA Unconfirmed ==
    ASSUME TypeOK, SessionsAccounted, NEW w \in Claimant, claim[w] # None,
           \A c \in Commands : w = <<"stop", c>> => thread[c] # "done",
           \A c \in Commands : w = <<"watcher", c>> => watcher[c] # "done"
    PROVE  \A r \in saved : r.file # claim[w]
<1> SUFFICES ASSUME NEW r \in saved, r.file = claim[w] PROVE FALSE
  OBVIOUS
<1>1. Owned(r) /\ kind[r.file] = "start"
  BY DEF SessionsAccounted, ClaimsDisjoint, Named
<1>2. ASSUME NEW v \in Claimant, r.file = claim[v] PROVE v = w
  BY <1>2 DEF SessionsAccounted, ClaimsDisjoint
<1>3. QED
  BY <1>1, <1>2, ClaimantType DEF Owned, Clips

LEMMA StopConfirmAccounted ==
    ASSUME TypeOK, SessionsAccounted, NEW c \in Commands, StopConfirm(c)
    PROVE  SessionsAccounted'
<1> USE DEF workerVars
<1> DEFINE w == <<"stop", c>>
<1>1. /\ kind[c] = "stop" /\ thread[c] = "uploading" /\ Confirm(claim[w], w)
      /\ thread' = [thread EXCEPT ![c] = "done"]
      /\ UNCHANGED <<kind, session, watcher, claim>>
  BY DEF StopConfirm
<1>2. w \in Claimant /\ claim[w] # None
  BY <1>1, ClaimantType DEF SessionsAccounted, StopClaims
<1>3. thread'[c] = "done" /\ \A d \in Commands : d # c => thread'[d] = thread[d]
  BY <1>1 DEF TypeOK
<1>4. \A d \in Commands : (Named(d) => Named(d)') /\ (Named(d) => d # c)
  BY <1>1, <1>3 DEF Named
<1>5. SessionNamed' /\ SessionWatched'
  BY <1>1, <1>3, <1>4 DEF SessionsAccounted, SessionNamed, SessionWatched, TypeOK
<1>6. ClaimsDisjoint'
  BY <1>1, <1>4 DEF SessionsAccounted, ClaimsDisjoint, TypeOK
<1>7. StopClaims' /\ WatcherClaims'
  BY <1>1, <1>3 DEF SessionsAccounted, StopClaims, WatcherClaims
<1>8. ASSUME NEW r \in saved PROVE Owned(r)'
  <2>1. Owned(r) /\ r.file \in Commands
    BY DEF SessionsAccounted, TypeOK
  <2>2. QED
    BY <1>1, <1>3, <2>1 DEF Owned, Clips
<1>9. ASSUME NEW r, r.file = claim[w], r.by = w PROVE Owned(r)'
  BY <1>1, <1>3, <1>9 DEF Owned
<1>10. \A r \in saved' : Owned(r)'
  BY <1>1, <1>8, <1>9 DEF Confirm
<1>11. ConfirmedOnce'
  BY <1>1, <1>2, Unconfirmed, SavedOnce DEF SessionsAccounted
<1>12. QED
  BY <1>5, <1>6, <1>7, <1>10, <1>11 DEF SessionsAccounted

LEMMA WatcherConfirmAccounted ==
    ASSUME TypeOK, SessionsAccounted, NEW c \in Commands, WatcherConfirm(c)
    PROVE  SessionsAccounted'
<1> USE DEF workerVars
<1> DEFINE w == <<"watcher", c>>
<1>1. /\ watcher[c] = "uploading" /\ Confirm(claim[w], w)
      /\ watcher' = [watcher EXCEPT ![c] = "done"]
      /\ UNCHANGED <<kind, session, thread, claim>>
  BY DEF WatcherConfirm
<1>2. w \in Claimant /\ claim[w] # None
  BY <1>1, ClaimantType DEF SessionsAccounted, WatcherClaims
<1>3. watcher'[c] = "done" /\ \A d \in Commands : d # c => watcher'[d] = watcher[d]
  BY <1>1 DEF TypeOK
<1>4. \A d \in Commands : Named(d) => Named(d)'
  BY <1>1 DEF Named
<1>5. SessionNamed' /\ SessionWatched'
  BY <1>1, <1>3, <1>4 DEF SessionsAccounted, SessionNamed, SessionWatched, TypeOK
<1>6. ClaimsDisjoint' /\ StopClaims'
  BY <1>1, <1>4 DEF SessionsAccounted, ClaimsDisjoint, StopClaims, TypeOK
<1>7. WatcherClaims'
  BY <1>1, <1>3 DEF SessionsAccounted, WatcherClaims
<1>8. ASSUME NEW r \in saved PROVE Owned(r)'
  <2>1. Owned(r)
    BY DEF SessionsAccounted
  <2>2. QED
    BY <1>1, <1>3, <2>1 DEF Owned
<1>9. ASSUME NEW r, r.file = claim[w], r.by = w PROVE Owned(r)'
  BY <1>1, <1>3, <1>9 DEF Owned
<1>10. \A r \in saved' : Owned(r)'
  BY <1>1, <1>8, <1>9 DEF Confirm
<1>11. ConfirmedOnce'
  BY <1>1, <1>2, Unconfirmed, SavedOnce DEF SessionsAccounted
<1>12. QED
  BY <1>5, <1>6, <1>7, <1>10, <1>11 DEF SessionsAccounted

\* A clip thread confirms its own file, which no claim can be of.
LEMMA ClipConfirmAccounted ==
    ASSUME TypeOK, SessionsAccounted, NEW c \in Commands, ClipConfirm(c)
    PROVE  SessionsAccounted'
<1> USE DEF workerVars
<1>1. /\ kind[c] \in Clips /\ thread[c] = "uploading" /\ Confirm(c, <<kind[c], c>>)
      /\ thread' = [thread EXCEPT ![c] = "done"]
      /\ UNCHANGED <<kind, session, watcher, claim>>
  BY DEF ClipConfirm
<1>2. kind[c] # "start" /\ kind[c] # "stop"
  BY <1>1 DEF Clips
<1>3. thread'[c] = "done" /\ \A d \in Commands : d # c => thread'[d] = thread[d]
  BY <1>1 DEF TypeOK
<1>4. \A d \in Commands : (Named(d) => Named(d)') /\ (Named(d) => d # c)
  BY <1>1, <1>2, <1>3 DEF Named
<1>5. SessionNamed' /\ SessionWatched'
  BY <1>1, <1>3, <1>4 DEF SessionsAccounted, SessionNamed, SessionWatched, TypeOK
<1>6. ClaimsDisjoint'
  BY <1>1, <1>4 DEF SessionsAccounted, ClaimsDisjoint, TypeOK
<1>7. StopClaims' /\ WatcherClaims'
  BY <1>1, <1>2, <1>3 DEF SessionsAccounted, StopClaims, WatcherClaims
<1>8. ASSUME NEW r \in saved PROVE Owned(r)' /\ r.file # c
  <2>1. Owned(r) /\ r.file \in Commands
    BY DEF SessionsAccounted, TypeOK
  <2>2. ASSUME NEW v \in Claimant, r.file = claim[v] PROVE kind[r.file] = "start"
    BY <2>1, <2>2, CommandsAssumption DEF SessionsAccounted, ClaimsDisjoint, Named
  <2>3. r.file # c
    BY <1>1, <1>2, <2>1, <2>2, ClaimantType DEF Owned
  <2>4. Owned(r)'
    BY <1>1, <1>3, <2>1, <2>3 DEF Owned
  <2>5. QED
    BY <2>3, <2>4
<1>9. ASSUME NEW r, r.file = c, r.by = <<kind[c], c>> PROVE Owned(r)'
  BY <1>1, <1>3, <1>9 DEF Owned
<1>10. \A r \in saved' : Owned(r)'
  BY <1>1, <1>8, <1>9 DEF Confirm
<1>11. ConfirmedOnce'
  BY <1>1, <1>8, SavedOnce DEF SessionsAccounted
<1>12. QED
  BY <1>5, <1>6, <1>7, <1>10, <1>11 DEF SessionsAccounted

LEMMA NextAccounted == TypeOK /\ SessionsAccounted /\ [Next]_vars => SessionsAccounted'
<1> SUFFICES ASSUME TypeOK, SessionsAccounted, [Next]_vars PROVE SessionsAccounted'
  OBVIOUS
<1> USE DEF workerVars
<1>1. ASSUME NEW c \in Commands, NEW k \in Kinds, Fresh(c), Acknowledge(c, k)
      PROVE SessionsAccounted'
  BY <1>1, ThreadMoves DEF Acknowledge, Fresh, ThreadAt
<1>2. ASSUME NEW c \in Commands, HandleStart(c) \/ HandleStop(c) \/ HandleLegacy(c) \/ HandlePan(c)
      PROVE SessionsAccounted'
  BY <1>1, <1>2 DEF HandleStart, HandleStop, HandleLegacy, HandlePan, Kinds
<1>3. ASSUME NEW c \in Commands, HandleRefused(c) PROVE SessionsAccounted'
  <2>1. thread' = [thread EXCEPT ![c] = thread[c]] /\ thread[c] \in ThreadAt
    BY <1>3 DEF HandleRefused, TypeOK
  <2>2. kind[c] = "none"
    BY <1>3 DEF HandleRefused, Fresh
  <2>3. QED
    BY <1>3, <2>1, <2>2, ThreadMoves DEF HandleRefused
<1>4. ASSUME NEW e \in BOOLEAN, HandlePrivacy(e) PROVE SessionsAccounted'
  BY <1>4, Unmoved DEF HandlePrivacy
<1>5. ASSUME NEW c \in Commands, StartLock(c) PROVE SessionsAccounted'
  <2>1. kind' = [kind EXCEPT ![c] = "start"]
    BY <1>5 DEF StartLock, TypeOK
  <2>2. QED
    BY <1>5, <2>1, ThreadMoves DEF StartLock, Named, Kinds, ThreadAt
<1>6. ASSUME NEW c \in Commands, StartName(c) PROVE SessionsAccounted'
  BY <1>6, NameAccounted
<1>7. ASSUME NEW c \in Commands, StartSpawn(c) PROVE SessionsAccounted'
  BY <1>7, SpawnAccounted
<1>8. ASSUME NEW c \in Commands, StopClaim(c) PROVE SessionsAccounted'
  BY <1>8, StopClaimAccounted
<1>9. ASSUME NEW c \in Commands, StopTooLate(c) PROVE SessionsAccounted'
  <2>1. kind' = [kind EXCEPT ![c] = "stop"]
    BY <1>9 DEF StopTooLate, TypeOK
  <2>2. QED
    BY <1>9, <2>1, ThreadMoves DEF StopTooLate, Named, Kinds, ThreadAt
<1>10. ASSUME NEW c \in Commands, StopConfirm(c) PROVE SessionsAccounted'
  BY <1>10, StopConfirmAccounted
<1>11. ASSUME NEW c \in Commands,
              ClipClear(c) \/ ClipSpawn(c) \/ PanWaits(c) \/ PanResumes(c) \/ ClipStop(c)
       PROVE SessionsAccounted'
  <2>1. kind' = [kind EXCEPT ![c] = kind[c]] /\ kind[c] \in Clips
    BY <1>11 DEF ClipClear, ClipSpawn, PanWaits, PanResumes, ClipStop, Clips, TypeOK
  <2>2. PICK t \in ThreadAt : thread' = [thread EXCEPT ![c] = t]
    BY <1>11 DEF ClipClear, ClipSpawn, PanWaits, PanResumes, ClipStop, ThreadAt
  <2>3. kind[c] \in Kinds /\ kind[c] # "stop" /\ ~Named(c)
    BY <2>1 DEF Clips, Kinds, Named
  <2>4. thread[c] # "done" /\ UNCHANGED <<session, watcher, claim, saved>>
    BY <1>11 DEF ClipClear, ClipSpawn, PanWaits, PanResumes, ClipStop
  <2>5. QED
    BY <2>1, <2>2, <2>3, <2>4, ThreadMoves
<1>12. ASSUME NEW c \in Commands, ClipConfirm(c) PROVE SessionsAccounted'
  BY <1>12, ClipConfirmAccounted
<1>13. ASSUME NEW c \in Commands, WatcherClaim(c) PROVE SessionsAccounted'
  BY <1>13, WatcherClaimAccounted
<1>14. ASSUME NEW c \in Commands, WatcherLeave(c) PROVE SessionsAccounted'
  BY <1>14, WatcherLeaveAccounted
<1>15. ASSUME NEW c \in Commands, WatcherConfirm(c) PROVE SessionsAccounted'
  BY <1>15, WatcherConfirmAccounted
<1>16. CASE UNCHANGED vars
  BY <1>16, Unmoved DEF vars
<1>17. QED
  BY <1>2, <1>3, <1>4, <1>5, <1>6, <1>7, <1>8, <1>9, <1>10, <1>11, <1>12, <1>13, <1>14, <1>15,
     <1>16 DEF Next

-----------------------------------------------------------------------------
(* The theorems. *)

LEMMA Inductive == Spec => [](TypeOK /\ SessionsAccounted)
<1>1. Init => TypeOK /\ SessionsAccounted
  BY InitType, InitAccounted
<1>2. TypeOK /\ SessionsAccounted /\ [Next]_vars => (TypeOK /\ SessionsAccounted)'
  BY NextType, NextAccounted
<1>3. QED
  BY <1>1, <1>2, PTL DEF Spec

\* Every reachable state is well typed: what is confirmed is always a file.
THEOREM TypeCorrect == Spec => []TypeOK
  BY Inductive, PTL

\* The bookkeeping of claims and confirmations holds in every reachable state.
THEOREM AccountedAlways == Spec => []SessionsAccounted
  BY Inductive, PTL

\* No video file is uploaded and confirmed twice, whatever stops and watchers race.
THEOREM FilesConfirmedOnce == Spec => []ConfirmedOnce
<1>1. SessionsAccounted => ConfirmedOnce
  BY DEF SessionsAccounted
<1>2. QED
  BY <1>1, Inductive, PTL

\* A current session always has a thread that is going to end it.
THEOREM SessionsWatched == Spec => []SessionWatched
<1>1. SessionsAccounted => SessionWatched
  BY DEF SessionsAccounted
<1>2. QED
  BY <1>1, Inductive, PTL

-----------------------------------------------------------------------------
(* The handlers and the MCU link.  CameraTracked says nothing of a request   *)
(* that is still under way, and AnswersTrue nothing of whose reply a socket  *)
(* will deliver: the inductive invariant adds where each request would take  *)
(* the camera and which requests the socket of now was given.                *)

\* What the variables hold.
Counts == [commands : Nat, requests : Nat, sweeps : Nat, moves : Nat, lives : Nat]
CameraRequest == [n : Nat, socket : Nat, to : {<<"camera">>}, value : Int]
LidRequest == [n : Nat, socket : Nat, to : {"lid"} \X Lids, value : {"closed", "open"}]
RequestTyped(r) == r \in IF r.to = <<"camera">> THEN CameraRequest ELSE LidRequest
CommandTyped(c) == c \in IF c.kind = "lid" THEN LidCommand ELSE CameraCommand

LinkTyped ==
    /\ kinds \in KindSets /\ count \in Counts
    /\ worker # Nothing =>
        /\ CommandTyped(worker) /\ worker.kind \in kinds /\ worker.request \in 1 .. count.requests
    /\ socket \in [id : Nat, due : BOOLEAN] /\ socket.id >= 1
    /\ angle \in -Limit .. Limit
    /\ \A r \in wire : RequestTyped(r) /\ r.n \in 1 .. count.requests
    /\ \A p \in replies : p \in [n : Nat, socket : Nat] /\ p.n \in 1 .. count.requests
    /\ camera \in [at : Int, by : Nat] /\ camera.by \in 0 .. count.requests
    /\ turned # Nothing => turned \in 0 .. count.requests

\* Every request has its own number; one given to the socket of now is that of
\* the command that waits, and is under way or answered, not both.
RequestsApart ==
    /\ socket.due <=> worker # Nothing
    /\ \A r, s \in wire : r.n = s.n => r = s
    /\ \A r \in wire, p \in replies : r.n # p.n
    /\ \A r \in wire \cup replies :
        /\ r.socket \in 0 .. socket.id
        /\ r.socket = socket.id => worker # Nothing /\ r.n = worker.request

\* Wherever request n is, it takes the camera to that angle.
Sent(v) == IF v = Home THEN 0 ELSE v
Follows(n, goal) ==
    /\ camera.by = n => camera.at = Hundredths(goal)
    /\ \A r \in wire : r.n = n => r.to = <<"camera">> /\ Sent(r.value) = Hundredths(goal)

CameraFollows ==
    /\ turned # Nothing => Follows(turned, angle)
    /\ worker # Nothing /\ worker.kind # "lid" => Follows(worker.request, worker.goal)

LinkInv == LinkTyped /\ RequestsApart /\ CameraFollows

\* The rest of the types.
SideTyped ==
    /\ currentSession \in (1 .. count.commands) \cup {Nothing} /\ privacyMode \in BOOLEAN
    /\ sweep # Nothing => sweep \in Leg
    /\ lids \in [Lids -> Lid]

\* What the subscriber keeps of a lid sums up what it was told of it.
LidEvent == [lid : Lids, to : {"closed", "open"}, at : Nat]
Ears == [moved : BOOLEAN, stable : {"unknown", "closed", "open"}, last : Nat \cup {Nothing}]
Moved(reports) ==
    \E i \in DOMAIN reports :
        reports[i] = "moving" /\ \A j \in i .. Len(reports) : reports[j] # "motor"

EarsTyped ==
    /\ heard \in [Lids -> Ears] /\ trail \in [Lids -> Seq(Reports)] /\ events \in Seq(LidEvent)
    /\ clock \in Nat

HeardRight ==
    \A l \in Lids :
        /\ Len(trail[l]) >= 1 /\ trail[l][1] = heard[l].stable
        /\ heard[l].moved <=> Moved(trail[l])
        /\ heard[l].last # Nothing =>
            /\ heard[l].last <= clock
            /\ \E i \in DOMAIN events : events[i].lid = l /\ events[i].at = heard[l].last
        /\ \A i \in DOMAIN events :
             events[i].lid = l => heard[l].last # Nothing /\ events[i].at <= heard[l].last

HandlersInv == LinkInv /\ AnswersTrue /\ SideTyped /\ EarsTyped /\ HeardRight

-----------------------------------------------------------------------------
LEMMA LimitValue == Limit \in Nat /\ Limit < Home
  BY DEF Limit, Home

\* An angle goes over the wire in hundredths of a degree, rounded towards zero;
\* no angle in the limits is taken for the command to go home.
LEMMA AngleSent ==
    ASSUME NEW a \in -Limit .. Limit
    PROVE  /\ a \in Int /\ Hundredths(a) \in Int /\ Hundredths(a) # Home /\ Sent(Hundredths(a)) = Hundredths(a)
           /\ a >= 0 => 10 * Hundredths(a) <= a /\ a < 10 * Hundredths(a) + 10
           /\ a <= 0 => a <= 10 * Hundredths(a) /\ 10 * Hundredths(a) - 10 < a
<1>0. a \in Int /\ -Limit <= a /\ a <= Limit /\ Home \in Int /\ Home > 0
  BY LimitValue DEF Home
<1>1. \A b \in Nat : b \div 10 \in Nat /\ 10 * (b \div 10) <= b /\ b < 10 * (b \div 10) + 10
  OBVIOUS
<1>2. CASE a >= 0
  <2>1. a \in Nat /\ a <= Limit
    BY <1>0, <1>2, LimitValue
  <2>2. Hundredths(a) \in Int /\ 10 * Hundredths(a) <= a /\ a < 10 * Hundredths(a) + 10
    BY <1>1, <1>2, <2>1 DEF Hundredths
  <2> QED
    BY <1>2, <2>1, <2>2, <1>0, LimitValue DEF Sent
<1>3. CASE a < 0
  <2>1. -a \in Nat /\ -a <= Limit /\ a \in Int
    BY <1>0, <1>3, LimitValue
  <2>2. /\ -Hundredths(a) \in Nat
        /\ 10 * (-Hundredths(a)) <= -a /\ -a < 10 * (-Hundredths(a)) + 10
        /\ Hundredths(a) \in Int
    <3>1. Hundredths(a) = -((-a) \div 10)
      BY <1>3, <2>1 DEF Hundredths
    <3> QED
      BY <1>1, <2>1, <3>1
  <2>3. Hundredths(a) <= 0
    BY <2>2
  <2> QED
    BY <1>3, <2>1, <2>2, <2>3, <1>0, LimitValue DEF Sent
<1> QED
  BY <1>0, <1>2, <1>3

\* A rotation's target is within the limits, whatever is asked for.
LEMMA TargetInLimits ==
    ASSUME angle \in Int, NEW a \in Int, NEW direction \in {-1, 0, 1}
    PROVE  Target(a, direction) \in -Limit .. Limit
<1>1. ASSUME NEW x \in Int PROVE Clamp(x) \in -Limit .. Limit
  <2>1. \/ Clamp(x) = x /\ -Limit <= x /\ x <= Limit
        \/ Clamp(x) = Limit \/ Clamp(x) = -Limit
    BY LimitValue DEF Clamp
  <2> QED
    BY <2>1, LimitValue
<1> QED
  BY <1>1 DEF Target

\* Nothing is no command.
LEMMA CommandNothing == \A c : CommandTyped(c) => c # Nothing
  BY HandlersAssumption DEF CommandTyped

\* The number of requests and of commands only grow.
LEMMA CountsGrow ==
    ASSUME count \in Counts, [HandlersNext]_handlersVars
    PROVE  /\ count' \in Counts
           /\ count.commands <= count'.commands /\ count.requests <= count'.requests
<1>1. \/ count' = count
      \/ count' = [count EXCEPT !.commands = @ + 1]
      \/ count' = [count EXCEPT !.commands = @ + 1, !.requests = count.requests + 1]
      \/ count' = [count EXCEPT !.commands = @ + 1, !.sweeps = @ + 1]
      \/ count' = [count EXCEPT !.requests = count.requests + 1]
      \/ count' = [count EXCEPT !.moves = @ + 1]
      \/ count' = [count EXCEPT !.lives = @ + 1]
  <2>1. CASE LidActuation \/ CameraRotation \/ CameraHome
    BY <2>1 DEF LidActuation, CameraRotation, CameraHome, Send
  <2>2. CASE \/ TreatDispense \/ SettingsApply \/ PlayMusic \/ StopMusic
             \/ PhotoCapture \/ PrivacyMode \/ LiveSessionStart \/ LiveSessionEnd
    BY <2>2 DEF TreatDispense, SettingsApply, PlayMusic, StopMusic, Radxa, Done,
                PhotoCapture, PrivacyMode, LiveSessionStart, LiveSessionEnd
  <2>3. CASE VideoCapturePan \/ SweepSend \/ SweepNext \/ Timeout \/ \E r \in replies : Receive(r)
    BY <2>3 DEF VideoCapturePan, SweepSend, SweepNext, Timeout, Receive
  <2>4. CASE Die \/ Tick \/ \E r \in wire : Serve(r)
    BY <2>4 DEF Die, Tick, Serve
  <2>5. ASSUME NEW l \in Lids, \/ HandMoves(l) \/ MotorMoves(l) \/ Arrives(l)
                               \/ Moving(l) \/ Stands(l) \/ MotorRuns(l)
        PROVE  count' = count \/ count' = [count EXCEPT !.moves = @ + 1]
    BY <2>5 DEF HandMoves, MotorMoves, Arrives, Moving, Stands, MotorRuns, Hearing
  <2>6. CASE UNCHANGED handlersVars
    BY <2>6 DEF handlersVars
  <2> QED
    BY <2>1, <2>2, <2>3, <2>4, <2>5, <2>6 DEF HandlersNext
<1>2. /\ count.commands \in Nat /\ count.requests \in Nat /\ count.sweeps \in Nat
      /\ count.moves \in Nat /\ count.lives \in Nat
  BY DEF Counts
<1>3. CASE count' = [count EXCEPT !.commands = count.commands + 1, !.requests = count.requests + 1]
  <2>1. /\ count'.commands = count.commands + 1 /\ count'.requests = count.requests + 1
        /\ count'.sweeps = count.sweeps /\ count'.moves = count.moves /\ count'.lives = count.lives
    BY <1>3 DEF Counts
  <2>2. count' = [commands |-> count'.commands, requests |-> count'.requests,
                  sweeps |-> count'.sweeps, moves |-> count'.moves, lives |-> count'.lives]
    BY <1>3 DEF Counts
  <2> QED
    BY <1>2, <2>1, <2>2 DEF Counts
<1>4. CASE count' = [count EXCEPT !.commands = count.commands + 1, !.sweeps = count.sweeps + 1]
  <2>1. /\ count'.commands = count.commands + 1 /\ count'.sweeps = count.sweeps + 1
        /\ count'.requests = count.requests /\ count'.moves = count.moves /\ count'.lives = count.lives
    BY <1>4 DEF Counts
  <2>2. count' = [commands |-> count'.commands, requests |-> count'.requests,
                  sweeps |-> count'.sweeps, moves |-> count'.moves, lives |-> count'.lives]
    BY <1>4 DEF Counts
  <2> QED
    BY <1>2, <2>1, <2>2 DEF Counts
<1>5. CASE \/ count' = count
           \/ count' = [count EXCEPT !.commands = count.commands + 1]
           \/ count' = [count EXCEPT !.requests = count.requests + 1]
  BY <1>2, <1>5 DEF Counts
<1>6. CASE \/ count' = [count EXCEPT !.moves = count.moves + 1]
           \/ count' = [count EXCEPT !.lives = count.lives + 1]
  BY <1>2, <1>6 DEF Counts
<1> QED
  BY <1>1, <1>3, <1>4, <1>5, <1>6

-----------------------------------------------------------------------------
(* The REQ socket.                                                           *)

\* Steps that give nothing to a socket and move no camera.
LEMMA LinkFrame ==
    ASSUME LinkInv, count' \in Counts, count.requests = count'.requests,
           UNCHANGED <<kinds, worker, socket, angle, wire, replies, camera, turned>>
    PROVE  LinkInv'
<1>1. LinkTyped'
  BY DEF LinkInv, LinkTyped, RequestTyped, CommandTyped
<1>2. RequestsApart'
  BY DEF LinkInv, RequestsApart
<1>3. CameraFollows'
  BY DEF LinkInv, CameraFollows, Follows
<1> QED
  BY <1>1, <1>2, <1>3 DEF LinkInv

\* A request that is new: it has a number of its own, and no camera knows it.
LEMMA NewRequest ==
    ASSUME LinkInv
    PROVE  /\ count.requests \in Nat /\ count.requests + 1 \in Nat
           /\ \A r \in wire \cup replies : r.n # count.requests + 1 /\ r.n \in 1 .. count.requests
           /\ camera.by # count.requests + 1 /\ turned # count.requests + 1
           /\ worker # Nothing => worker.request # count.requests + 1
<1>1. count.requests \in Nat
  BY DEF LinkInv, LinkTyped, Counts
<1>2. Nothing \notin Nat
  BY HandlersAssumption
<1> QED
  BY <1>1, <1>2 DEF LinkInv, LinkTyped

\* A handler hands its request to the socket and waits: nothing else was ever
\* given to this socket that may still be answered.
LEMMA SendLink ==
    ASSUME LinkInv, worker = Nothing, count' \in Counts, NEW command, NEW r,
           CommandTyped(command), command.kind \in kinds,
           command.request = count.requests + 1,
           RequestTyped(r), r.n = command.request, r.socket = socket.id,
           command.kind # "lid" =>
             r.to = <<"camera">> /\ Sent(r.value) = Hundredths(command.goal),
           worker' = command, wire' = wire \cup {r}, socket' = [socket EXCEPT !.due = TRUE],
           count'.requests = command.request,
           UNCHANGED <<kinds, angle, replies, camera, turned>>
    PROVE  LinkInv'
<1>0. LinkTyped /\ RequestsApart /\ CameraFollows
  BY DEF LinkInv
<1>1. /\ count.requests \in Nat
      /\ \A s \in wire \cup replies : s.n # r.n /\ s.n \in 1 .. count.requests
      /\ camera.by # r.n /\ turned # r.n
  BY NewRequest
<1>2. /\ socket'.id = socket.id /\ socket'.due = TRUE
      /\ socket' \in [id : Nat, due : BOOLEAN] /\ socket.id \in Nat
  BY <1>0 DEF LinkTyped
<1>3. command # Nothing
  BY CommandNothing
<1>4. LinkTyped'
  BY <1>0, <1>1, <1>2 DEF LinkTyped, RequestTyped, CommandTyped
<1>5. RequestsApart'
  BY <1>0, <1>1, <1>2, <1>3 DEF RequestsApart
<1>6. turned # Nothing => Follows(turned, angle)'
  BY <1>0, <1>1 DEF CameraFollows, Follows
<1>7. worker'.kind # "lid" => Follows(worker.request, worker.goal)'
  BY <1>1 DEF Follows
<1> QED
  BY <1>4, <1>5, <1>6, <1>7 DEF LinkInv, CameraFollows

\* The socket built anew has been given nothing.
LEMMA NewSocket ==
    ASSUME LinkInv, count' \in Counts, count'.requests = count.requests,
           worker' = Nothing, socket' = [id |-> socket.id + 1, due |-> FALSE],
           wire' \subseteq wire, replies' \subseteq replies,
           angle' \in -Limit .. Limit, turned' # Nothing => turned' \in 0 .. count.requests,
           turned' # Nothing => Follows(turned', angle'),
           UNCHANGED <<kinds, camera>>
    PROVE  LinkInv'
<1>0. LinkTyped /\ RequestsApart /\ CameraFollows
  BY DEF LinkInv
<1>1. /\ socket.id \in Nat /\ socket.id >= 1 /\ socket'.id = socket.id + 1 /\ socket'.due = FALSE
      /\ socket' \in [id : Nat, due : BOOLEAN]
  BY <1>0 DEF LinkTyped
<1>2. LinkTyped'
  BY <1>0, <1>1 DEF LinkTyped, RequestTyped
<1>3. \A r \in wire' \cup replies' : r.socket \in 0 .. socket'.id /\ r.socket # socket'.id
  BY <1>0, <1>1 DEF RequestsApart
<1>4. RequestsApart'
  BY <1>0, <1>1, <1>3 DEF RequestsApart
<1>5. CameraFollows'
  BY <1>0 DEF CameraFollows, Follows
<1> QED
  BY <1>2, <1>4, <1>5 DEF LinkInv

\* When its handler ends, a rotation is what the camera follows from now on.
LEMMA TurnLink ==
    ASSUME LinkInv, worker # Nothing, Turn(worker, worker.request)
    PROVE  /\ angle' \in -Limit .. Limit
           /\ turned' # Nothing => turned' \in 0 .. count.requests /\ Follows(turned', angle')
<1>1. CASE worker.kind = "lid"
  BY <1>1 DEF Turn, LinkInv, LinkTyped, CameraFollows
<1>2. CASE worker.kind # "lid"
  <2>1. worker.goal \in -Limit .. Limit /\ worker.request \in 0 .. count.requests
    BY <1>2 DEF LinkInv, LinkTyped, CommandTyped, CameraCommand, Counts
  <2> QED
    BY <1>2, <2>1 DEF Turn, LinkInv, CameraFollows
<1> QED
  BY <1>1, <1>2

LEMMA TimeoutLink == ASSUME LinkInv, count' \in Counts, Timeout PROVE LinkInv'
<1>1. TimeOut /\ socket' = [id |-> socket.id + 1, due |-> FALSE] /\ UNCHANGED count
  BY DEF Timeout
<1>2. /\ worker # Nothing /\ worker' = Nothing /\ Turn(worker, worker.request)
      /\ UNCHANGED <<kinds, camera, wire, replies>>
  BY <1>1 DEF TimeOut, Untouched, node
<1> QED
  BY <1>1, <1>2, NewSocket, TurnLink

LEMMA DieLink == ASSUME LinkInv, count' \in Counts, Die PROVE LinkInv'
<1>1. /\ count' = [count EXCEPT !.lives = @ + 1] /\ worker' = Nothing
      /\ socket' = [id |-> socket.id + 1, due |-> FALSE]
      /\ wire' \subseteq wire /\ replies' = {} /\ angle' = 0 /\ turned' = Nothing
      /\ UNCHANGED <<kinds, camera>>
  BY DEF Die, node
<1>2. count'.requests = count.requests
  BY <1>1 DEF LinkInv, LinkTyped, Counts
<1>3. 0 \in -Limit .. Limit
  BY LimitValue
<1> QED
  BY <1>1, <1>2, <1>3, NewSocket

\* The reply that a handler receives is that to its own request.
LEMMA OwnReply ==
    ASSUME LinkInv, NEW r \in replies, r.socket = socket.id
    PROVE  /\ worker # Nothing /\ r.n = worker.request
           /\ \A s \in wire \cup (replies \ {r}) : s.socket # socket.id
<1>1. worker # Nothing /\ r.n = worker.request
  BY DEF LinkInv, RequestsApart
<1>2. ASSUME NEW s \in wire \cup replies, s.socket = socket.id PROVE s = r
  <2>1. s.n = r.n
    BY <1>1, <1>2 DEF LinkInv, RequestsApart
  <2>2. s \in replies
    BY <1>2, <2>1 DEF LinkInv, RequestsApart
  <2>3. s \in [n : Nat, socket : Nat] /\ r \in [n : Nat, socket : Nat]
    BY <2>2 DEF LinkInv, LinkTyped
  <2> QED
    BY <1>2, <2>1, <2>3
<1>3. r \notin wire
  BY DEF LinkInv, RequestsApart
<1> QED
  BY <1>1, <1>2, <1>3

LEMMA ReceiveLink ==
    ASSUME LinkInv, count' \in Counts, NEW r \in replies, Receive(r) PROVE LinkInv'
<1>0. LinkTyped /\ RequestsApart /\ CameraFollows
  BY DEF LinkInv
<1>1. /\ worker # Nothing /\ r.socket = socket.id /\ worker' = Nothing
      /\ socket' = [socket EXCEPT !.due = FALSE] /\ replies' = replies \ {r}
      /\ Turn(worker, worker.request)
      /\ UNCHANGED <<kinds, camera, wire, count>>
  BY DEF Receive, Untouched, node
<1>2. \A s \in wire' \cup replies' : s.socket # socket.id
  BY <1>1, OwnReply
<1>3. socket'.id = socket.id /\ socket'.due = FALSE /\ socket' \in [id : Nat, due : BOOLEAN]
  BY <1>0, <1>1 DEF LinkTyped
<1>4. /\ angle' \in -Limit .. Limit
      /\ turned' # Nothing => turned' \in 0 .. count.requests /\ Follows(turned', angle')
  BY <1>1, TurnLink
<1>5. LinkTyped'
  BY <1>0, <1>1, <1>3, <1>4 DEF LinkTyped, RequestTyped
<1>6. RequestsApart'
  BY <1>0, <1>1, <1>2, <1>3 DEF RequestsApart
<1>7. CameraFollows'
  BY <1>1, <1>4 DEF CameraFollows, Follows
<1> QED
  BY <1>5, <1>6, <1>7 DEF LinkInv

LEMMA SweepLink == ASSUME LinkInv, count' \in Counts, sweep # Nothing => sweep \in Leg, SweepSend PROVE LinkInv'
<1>0. LinkTyped /\ RequestsApart /\ CameraFollows
  BY DEF LinkInv
<1> DEFINE r == Request(count.requests + 1, 0, <<"camera">>, Legs[sweep.leg])
<1>1. /\ wire' = wire \cup {r} /\ count' = [count EXCEPT !.requests = count.requests + 1]
      /\ UNCHANGED <<kinds, worker, socket, replies, camera, angle, turned>> /\ sweep # Nothing
  BY DEF SweepSend, Sweeping, node
<1>2. count'.requests = count.requests + 1
  BY <1>0, <1>1 DEF LinkTyped, Counts
<1>3. Legs[sweep.leg] \in Int
  <2>1. sweep.leg \in {1, 2, 3}
    BY <1>1 DEF Leg
  <2>2. \A i \in {1, 2, 3} : Legs[i] \in Int
    BY LimitValue DEF Legs, Home
  <2> QED
    BY <2>1, <2>2
<1>4. /\ count.requests \in Nat /\ count.requests + 1 \in Nat
      /\ \A s \in wire \cup replies : s.n # count.requests + 1 /\ s.n \in 1 .. count.requests
      /\ camera.by # count.requests + 1 /\ turned # count.requests + 1
      /\ worker # Nothing => worker.request # count.requests + 1
  BY NewRequest
<1>5. /\ r.n = count.requests + 1 /\ r.socket = 0 /\ RequestTyped(r)
      /\ r.n \in 1 .. count.requests + 1
  <2> DEFINE v == Legs[sweep.leg]
  <2> HIDE DEF v
  <2>1. r = [n |-> count.requests + 1, socket |-> 0, to |-> <<"camera">>, value |-> v]
    BY DEF Request, v
  <2>2. v \in Int
    BY <1>3 DEF v
  <2>3. r \in CameraRequest /\ r.to = <<"camera">>
    BY <1>4, <2>1, <2>2 DEF CameraRequest
  <2> QED
    BY <1>4, <2>1, <2>3 DEF RequestTyped
<1> HIDE DEF r
<1>6. LinkTyped'
  BY <1>0, <1>1, <1>2, <1>4, <1>5 DEF LinkTyped, RequestTyped, CommandTyped
<1>7. socket.id \in Nat /\ socket.id >= 1
  BY <1>0 DEF LinkTyped
<1>8. RequestsApart'
  BY <1>0, <1>1, <1>4, <1>5, <1>7 DEF RequestsApart
<1>9. CameraFollows'
  BY <1>0, <1>1, <1>4, <1>5 DEF CameraFollows, Follows
<1> QED
  BY <1>6, <1>8, <1>9 DEF LinkInv

\* The MCU node does what the request says, and answers it or not.
LEMMA ServeLink ==
    ASSUME LinkInv, count' \in Counts, NEW r \in wire, Serve(r) PROVE LinkInv'
<1>0. LinkTyped /\ RequestsApart /\ CameraFollows
  BY DEF LinkInv
<1> DEFINE p == [n |-> r.n, socket |-> r.socket]
<1>1. /\ wire' = wire \ {r} /\ replies' \subseteq replies \cup {p}
      /\ UNCHANGED <<kinds, worker, socket, angle, turned, count>>
      /\ \/ r.to = <<"camera">> /\ camera' = [at |-> Sent(r.value), by |-> r.n]
         \/ r.to # <<"camera">> /\ camera' = camera
  BY DEF Serve, Sent, rest
<1>2. p.n = r.n /\ p.socket = r.socket
  OBVIOUS
<1>3. r.n \in Nat /\ r.socket \in Nat /\ r.n \in 1 .. count.requests
  BY <1>0 DEF LinkTyped, RequestTyped, CameraRequest, LidRequest
<1>4. p \in [n : Nat, socket : Nat]
  BY <1>3
<1> HIDE DEF p
<1>5. r.to = <<"camera">> => Sent(r.value) \in Int
  BY <1>0 DEF LinkTyped, RequestTyped, CameraRequest, Sent
<1>6. camera' \in [at : Int, by : Nat] /\ camera'.by \in 0 .. count.requests
  BY <1>0, <1>1, <1>3, <1>5 DEF LinkTyped
<1>7. LinkTyped'
  BY <1>0, <1>1, <1>2, <1>3, <1>4, <1>6 DEF LinkTyped, RequestTyped, CommandTyped
<1>8. \A s \in wire' : s.n # r.n
  BY <1>0, <1>1 DEF RequestsApart
<1>9. RequestsApart'
  BY <1>0, <1>1, <1>2, <1>8 DEF RequestsApart
<1>10. CameraFollows'
  <2>1. turned # Nothing => Follows(turned, angle)'
    BY <1>0, <1>1 DEF CameraFollows, Follows
  <2>2. worker # Nothing /\ worker.kind # "lid" => Follows(worker.request, worker.goal)'
    BY <1>0, <1>1 DEF CameraFollows, Follows
  <2> QED
    BY <1>1, <2>1, <2>2 DEF CameraFollows
<1> QED
  BY <1>7, <1>9, <1>10 DEF LinkInv

-----------------------------------------------------------------------------
(* The handlers.                                                             *)

\* What a handler may hand over: a lid's goal, or the camera's angle.
RequestOf(k, to, value, goal) ==
    \/ /\ k = "lid" /\ to \in {"lid"} \X Lids
       /\ value \in {"closed", "open"} /\ goal = value
    \/ /\ k \in {"turn", "home"} /\ to = <<"camera">>
       /\ goal \in -Limit .. Limit /\ value \in Int /\ Sent(value) = Hundredths(goal)

LEMMA SendStep ==
    ASSUME LinkInv, count' \in Counts, worker = Nothing,
           NEW k \in kinds, NEW to, NEW value, NEW goal, NEW timeout \in TimeoutKinds,
           RequestOf(k, to, value, goal),
           Send(k, to, value, goal, timeout), UNCHANGED Untouched
    PROVE  LinkInv' /\ AnswersTrue'
<1>0. LinkTyped /\ RequestsApart /\ CameraFollows
  BY DEF LinkInv
<1> DEFINE n == count.requests + 1
           command == [kind |-> k, request |-> n, goal |-> goal, timeout |-> timeout]
           r == Request(n, socket.id, to, value)
<1>1. UNCHANGED <<kinds, camera>> /\ n \in Nat
  BY NewRequest DEF Untouched, node
<1>2. /\ command.kind = k /\ command.request = n /\ command.goal = goal
      /\ command.timeout = timeout
  OBVIOUS
<1>3. ~socket.due
  BY <1>0 DEF RequestsApart
<1>4. /\ worker' = command /\ wire' = wire \cup {r} /\ socket' = [socket EXCEPT !.due = TRUE]
      /\ count' = [count EXCEPT !.commands = @ + 1, !.requests = n]
      /\ answer' = Nothing /\ UNCHANGED <<replies, angle, turned>>
  BY <1>3 DEF Send
<1>5. count'.requests = n
  BY <1>0, <1>4 DEF LinkTyped, Counts
<1>6. r = [n |-> n, socket |-> socket.id, to |-> to, value |-> value]
  BY DEF Request
<1>7. socket.id \in Nat
  BY <1>0 DEF LinkTyped
<1> HIDE DEF n
<1>8. r.n = n /\ r.socket = socket.id /\ r.to = to /\ r.value = value
  BY <1>6
<1>9. CommandTyped(command) /\ RequestTyped(r)
  <2>1. CASE k = "lid"
    <3>1. to # <<"camera">> /\ to \in {"lid"} \X Lids /\ goal = value /\ value \in {"closed", "open"}
      BY <2>1 DEF RequestOf
    <3>2. r \in LidRequest
      BY <1>1, <1>6, <1>7, <3>1 DEF LidRequest
    <3>3. command \in LidCommand
      BY <1>1, <2>1, <3>1 DEF LidCommand
    <3> QED
      BY <1>2, <1>8, <2>1, <3>1, <3>2, <3>3 DEF CommandTyped, RequestTyped
  <2>2. CASE k # "lid"
    <3>1. /\ to = <<"camera">> /\ goal \in -Limit .. Limit /\ value \in Int
          /\ k \in {"turn", "home"}
      BY <2>2 DEF RequestOf
    <3>2. r \in CameraRequest
      BY <1>1, <1>6, <1>7, <3>1 DEF CameraRequest
    <3>3. command \in CameraCommand
      BY <1>1, <3>1 DEF CameraCommand
    <3> QED
      BY <1>2, <1>8, <2>2, <3>1, <3>2, <3>3 DEF CommandTyped, RequestTyped
  <2> QED
    BY <2>1, <2>2
<1>10. k # "lid" => r.to = <<"camera">> /\ Sent(r.value) = Hundredths(goal)
  BY <1>8 DEF RequestOf
<1> HIDE DEF command, r
<1>11. LinkInv'
  BY <1>1, <1>2, <1>4, <1>5, <1>8, <1>9, <1>10, SendLink DEF n
<1> QED
  BY <1>4, <1>11 DEF AnswersTrue

LEMMA LidStep == ASSUME LinkInv, count' \in Counts, LidActuation PROVE LinkInv' /\ AnswersTrue'
<1>1. PICK id \in LidIds, a \in Actions, timeout \in Timeouts.lid :
        Send("lid", <<"lid", LidOf(id)>>, Goal(a), Goal(a), timeout)
  BY DEF LidActuation
<1>2. worker = Nothing /\ "lid" \in kinds /\ UNCHANGED Untouched
  BY DEF LidActuation, Handles
<1>3. timeout \in TimeoutKinds /\ LidOf(id) \in Lids
  BY HandlersAssumption DEF LidOf
<1>4. RequestOf("lid", <<"lid", LidOf(id)>>, Goal(a), Goal(a))
  BY <1>3 DEF RequestOf, Goal
<1> QED
  BY <1>1, <1>2, <1>3, <1>4, SendStep

LEMMA RotationStep ==
    ASSUME LinkInv, count' \in Counts, CameraRotation \/ CameraHome PROVE LinkInv' /\ AnswersTrue'
<1>1. CASE CameraRotation
  <2>1. PICK a \in Angles, direction \in {-1, 0, 1}, timeout \in Timeouts.turn :
          Send("turn", <<"camera">>, Hundredths(Target(a, direction)), Target(a, direction), timeout)
    BY <1>1 DEF CameraRotation
  <2>2. worker = Nothing /\ "turn" \in kinds /\ UNCHANGED Untouched
    BY <1>1 DEF CameraRotation, Handles
  <2>3. timeout \in TimeoutKinds /\ a \in Int /\ angle \in Int
    BY HandlersAssumption, LimitValue DEF LinkInv, LinkTyped
  <2>4. Target(a, direction) \in -Limit .. Limit
    BY <2>3, TargetInLimits
  <2>5. RequestOf("turn", <<"camera">>, Hundredths(Target(a, direction)), Target(a, direction))
    BY <2>4, AngleSent DEF RequestOf
  <2> QED
    BY <2>1, <2>2, <2>3, <2>5, SendStep
<1>2. CASE CameraHome
  <2>1. /\ Send("home", <<"camera">>, Home, 0, "some") /\ worker = Nothing /\ "home" \in kinds
        /\ UNCHANGED Untouched
    BY <1>2 DEF CameraHome, Handles
  <2>2. Hundredths(0) = 0 /\ Sent(Home) = 0 /\ Home \in Int /\ 0 \in -Limit .. Limit
    BY LimitValue DEF Hundredths, Sent, Home
  <2>3. RequestOf("home", <<"camera">>, Home, 0)
    BY <2>2 DEF RequestOf
  <2>4. "some" \in TimeoutKinds
    BY DEF TimeoutKinds
  <2> QED
    BY <2>1, <2>3, <2>4, SendStep
<1> QED
  BY <1>1, <1>2

\* An answer that is not the MCU's.
LEMMA ServedAside ==
    ASSUME NEW k \in {"treat", "settings", "music", "silence", "photo", "privacy",
                         "start", "end", "sweep"},
           NEW ok, Served(k, ok)
    PROVE  AnswersTrue'
<1>1. answer'.kind = k
  BY DEF Served, Answer
<1> QED
  BY <1>1 DEF AnswersTrue

\* The handlers that hand nothing to the MCU.
LEMMA AsideStep ==
    ASSUME LinkInv, count' \in Counts,
           \/ TreatDispense \/ SettingsApply \/ PlayMusic \/ StopMusic
           \/ PhotoCapture \/ PrivacyMode \/ LiveSessionStart \/ LiveSessionEnd \/ VideoCapturePan
    PROVE  LinkInv' /\ AnswersTrue'
<1>1. /\ UNCHANGED <<kinds, worker, socket, angle, wire, replies, camera, turned>>
      /\ \/ count' = [count EXCEPT !.commands = @ + 1]
         \/ count' = [count EXCEPT !.commands = @ + 1, !.sweeps = @ + 1]
  BY DEF TreatDispense, SettingsApply, PlayMusic, StopMusic, Radxa, Done, Aside, link, node,
         PhotoCapture, PrivacyMode, LiveSessionStart, LiveSessionEnd, VideoCapturePan
<1>2. count'.requests = count.requests
  BY <1>1 DEF LinkInv, LinkTyped, Counts
<1>3. \E k \in {"treat", "settings", "music", "silence", "photo", "privacy",
                   "start", "end", "sweep"}, ok \in BOOLEAN \cup {~privacyMode} : Served(k, ok)
  BY DEF TreatDispense, SettingsApply, PlayMusic, StopMusic, Radxa,
         PhotoCapture, PrivacyMode, LiveSessionStart, LiveSessionEnd, VideoCapturePan
<1> QED
  BY <1>1, <1>2, <1>3, LinkFrame, ServedAside

\* A command that waited is answered for its own request.
LEMMA AnswerStep ==
    ASSUME LinkInv, Timeout \/ \E r \in replies : Receive(r) PROVE AnswersTrue'
<1>1. CASE Timeout
  <2>1. answer'.outcome = "mcu_timeout"
    BY <1>1 DEF Timeout, TimeOut, Answer, LinkInv, LinkTyped
  <2> QED
    BY <2>1 DEF AnswersTrue
<1>2. ASSUME NEW r \in replies, Receive(r) PROVE AnswersTrue'
  <2>1. worker # Nothing /\ r.n = worker.request
    BY <1>2, OwnReply DEF Receive
  <2>2. /\ answer'.outcome = "done"
        /\ answer'.reply = r.n /\ answer'.request = worker.request
    BY <1>2, <2>1 DEF Receive, Answer, LinkInv, LinkTyped
  <2> QED
    BY <2>1, <2>2 DEF AnswersTrue
<1> QED
  BY <1>1, <1>2

LEMMA LinkStep ==
    LinkInv /\ AnswersTrue /\ SideTyped /\ [HandlersNext]_handlersVars => LinkInv' /\ AnswersTrue'
<1> SUFFICES ASSUME LinkInv, AnswersTrue, SideTyped, [HandlersNext]_handlersVars
             PROVE  LinkInv' /\ AnswersTrue'
  OBVIOUS
<1>0. count \in Counts /\ count' \in Counts
  BY CountsGrow DEF LinkInv, LinkTyped
<1>1. CASE LidActuation \/ CameraRotation \/ CameraHome
  BY <1>0, <1>1, LidStep, RotationStep
<1>2. CASE \/ TreatDispense \/ SettingsApply \/ PlayMusic \/ StopMusic
           \/ PhotoCapture \/ PrivacyMode \/ LiveSessionStart \/ LiveSessionEnd \/ VideoCapturePan
  BY <1>0, <1>2, AsideStep
<1>3. CASE Timeout \/ \E r \in replies : Receive(r)
  BY <1>0, <1>3, AnswerStep, TimeoutLink, ReceiveLink
<1>4. CASE SweepSend
  BY <1>0, <1>4, SweepLink DEF SideTyped, SweepSend, Sweeping, AnswersTrue
<1>5. CASE Die
  BY <1>0, <1>5, DieLink DEF Die, AnswersTrue
<1>6. ASSUME NEW r \in wire, Serve(r) PROVE LinkInv' /\ AnswersTrue'
  BY <1>0, <1>6, ServeLink DEF Serve, AnswersTrue
<1>7. CASE \/ SweepNext \/ Tick \/ UNCHANGED handlersVars
           \/ \E l \in Lids : \/ HandMoves(l) \/ MotorMoves(l) \/ Arrives(l)
                              \/ Moving(l) \/ Stands(l) \/ MotorRuns(l)
  <2>1. /\ UNCHANGED <<kinds, worker, socket, angle, wire, replies, camera, turned, answer>>
        /\ count' = count \/ count' = [count EXCEPT !.moves = @ + 1]
    BY <1>7 DEF SweepNext, Sweeping, Tick, link, node, rest, handlersVars, Still, Hearing,
                HandMoves, MotorMoves, Arrives, Moving, Stands, MotorRuns
  <2>2. count'.requests = count.requests
    BY <1>0, <2>1 DEF Counts
  <2>3. LinkInv'
    BY <1>0, <2>1, <2>2, LinkFrame
  <2> QED
    BY <2>1, <2>3 DEF AnswersTrue
<1> QED
  BY <1>1, <1>2, <1>3, <1>4, <1>5, <1>6, <1>7 DEF HandlersNext

-----------------------------------------------------------------------------
(* Sessions, the sweep, the lids.                                            *)

LEMMA MovedLid ==
    ASSUME NEW x \in Lid, NEW b, NEW g
    PROVE  [[x EXCEPT !.by = b] EXCEPT !.goal = g] = [at |-> x.at, by |-> b, goal |-> g]
<1>1. [x EXCEPT !.by = b] = [at |-> x.at, by |-> b, goal |-> x.goal]
  BY DEF Lid
<1>2. [[at |-> x.at, by |-> b, goal |-> x.goal] EXCEPT !.goal = g]
         = [at |-> x.at, by |-> b, goal |-> g]
  OBVIOUS
<1> QED
  BY <1>1, <1>2

LEMMA SideStep ==
    ASSUME LinkTyped, SideTyped, [HandlersNext]_handlersVars PROVE SideTyped'
<1>0. /\ count \in Counts /\ count' \in Counts /\ count.commands <= count'.commands
      /\ Nothing \notin Nat
  BY CountsGrow, HandlersAssumption DEF LinkTyped
<1>1. currentSession' \in (1 .. count'.commands) \cup {Nothing} /\ privacyMode' \in BOOLEAN
  <2>1. \/ UNCHANGED currentSession \/ currentSession' = Nothing
        \/ currentSession' = count'.commands /\ count' = [count EXCEPT !.commands = @ + 1]
    BY DEF HandlersNext, LidActuation, CameraRotation, CameraHome, Untouched, Aside,
           TreatDispense, SettingsApply, PlayMusic, StopMusic, Radxa, PhotoCapture, PrivacyMode,
           LiveSessionStart, LiveSessionEnd, Done, VideoCapturePan, SweepSend, SweepNext, Sweeping,
           Timeout, TimeOut, Receive, Serve, HandMoves, MotorMoves, Arrives, Moving, Stands,
           MotorRuns, Tick, Still, Hearing, rest, Die, handlersVars
  <2>2. UNCHANGED privacyMode \/ privacyMode' \in BOOLEAN
    BY DEF HandlersNext, LidActuation, CameraRotation, CameraHome, Untouched, Aside,
           TreatDispense, SettingsApply, PlayMusic, StopMusic, Radxa, PhotoCapture, PrivacyMode,
           LiveSessionStart, LiveSessionEnd, VideoCapturePan, SweepSend, SweepNext, Sweeping,
           Timeout, TimeOut, Receive, Serve, HandMoves, MotorMoves, Arrives, Moving, Stands,
           MotorRuns, Tick, Still, Hearing, rest, Die, handlersVars
  <2>3. count' = [count EXCEPT !.commands = @ + 1] => count'.commands \in 1 .. count'.commands
    BY <1>0 DEF Counts
  <2>4. \A c \in 1 .. count.commands : c \in 1 .. count'.commands
    BY <1>0 DEF Counts
  <2> QED
    BY <2>1, <2>2, <2>3, <2>4 DEF SideTyped
<1>2. sweep' # Nothing => sweep' \in Leg
  <2>1. CASE VideoCapturePan
    BY <2>1 DEF VideoCapturePan, Leg
  <2>2. CASE SweepSend
    <3>1. sweep \in Leg /\ sweep' = [sweep EXCEPT !.at = "wait"]
      BY <2>2 DEF SweepSend, SideTyped
    <3> QED
      BY <3>1 DEF Leg
  <2>3. CASE SweepNext
    <3>1. sweep \in Leg /\ sweep' = NextLeg
      BY <2>3 DEF SweepNext, SideTyped
    <3>2. Len(Legs) = 3
      BY DEF Legs
    <3>3. sweep.leg # 3 => sweep.leg + 1 \in 1 .. 3
      BY <3>1 DEF Leg
    <3> QED
      BY <3>1, <3>2, <3>3 DEF NextLeg, Leg
  <2>4. CASE Die
    BY <2>4 DEF Die
  <2>5. ASSUME ~VideoCapturePan, ~SweepSend, ~SweepNext, ~Die PROVE UNCHANGED sweep
    BY <2>5 DEF HandlersNext, LidActuation, CameraRotation, CameraHome, Untouched, Aside,
           TreatDispense, SettingsApply, PlayMusic, StopMusic, Radxa, PhotoCapture, PrivacyMode,
           LiveSessionStart, LiveSessionEnd,
           Timeout, TimeOut, Receive, Serve, HandMoves, MotorMoves, Arrives, Moving, Stands,
           MotorRuns, Tick, Still, Hearing, rest, handlersVars
  <2> QED
    BY <2>1, <2>2, <2>3, <2>4, <2>5 DEF SideTyped
<1>3. lids' \in [Lids -> Lid]
  <2>1. ASSUME NEW l \in Lids, NEW lid \in Lid, lids' = [lids EXCEPT ![l] = lid]
        PROVE  lids' \in [Lids -> Lid]
    BY <2>1 DEF SideTyped
  <2>2. ASSUME NEW r \in wire, Serve(r) PROVE lids' \in [Lids -> Lid]
    <3>1. CASE r.to = <<"camera">>
      BY <2>2, <3>1 DEF Serve, SideTyped
    <3>2. CASE r.to # <<"camera">>
      <4>1. r.to[2] \in Lids /\ r.value \in {"closed", "open"}
        BY <3>2 DEF LinkTyped, RequestTyped, LidRequest
      <4>2. lids' = [lids EXCEPT ![r.to[2]].by = "motor", ![r.to[2]].goal = r.value]
        BY <2>2, <3>2 DEF Serve
      <4> DEFINE l == r.to[2]
                 lid == [[lids[l] EXCEPT !.by = "motor"] EXCEPT !.goal = r.value]
      <4>3. lid \in Lid
        <5>1. lids[l] \in Lid
          BY <4>1 DEF SideTyped
        <5>2. lid = [at |-> lids[l].at, by |-> "motor", goal |-> r.value]
          BY <5>1, MovedLid
        <5>3. lids[l].at \in {"closed", "open", "moving"}
          BY <5>1 DEF Lid
        <5> QED
          BY <4>1, <5>2, <5>3 DEF Lid
      <4>4. lids' = [lids EXCEPT ![l] = lid]
        BY <4>1, <4>2 DEF SideTyped
      <4> QED
        BY <2>1, <4>1, <4>3, <4>4
    <3> QED
      BY <3>1, <3>2
  <2>3. ASSUME NEW l \in Lids, HandMoves(l) PROVE lids' \in [Lids -> Lid]
    <3> DEFINE lid == [[lids[l] EXCEPT !.at = "moving"] EXCEPT !.by = "hand"]
    <3>1. lids' = [lids EXCEPT ![l] = lid]
      BY <2>3 DEF HandMoves, SideTyped
    <3>2. lid \in Lid
      BY DEF Lid, SideTyped
    <3> QED
      BY <2>1, <3>1, <3>2
  <2>4. ASSUME NEW l \in Lids, MotorMoves(l) PROVE lids' \in [Lids -> Lid]
    <3> DEFINE lid == [lids[l] EXCEPT !.at = "moving"]
    <3>1. lids' = [lids EXCEPT ![l] = lid]
      BY <2>4 DEF MotorMoves, SideTyped
    <3>2. lid \in Lid
      BY DEF Lid, SideTyped
    <3> QED
      BY <2>1, <3>1, <3>2
  <2>5. ASSUME NEW l \in Lids, Arrives(l) PROVE lids' \in [Lids -> Lid]
    <3>1. PICK at \in {"closed", "open"} : lids' = [lids EXCEPT ![l].at = at, ![l].by = "nobody"]
      BY <2>5 DEF Arrives, SideTyped, Lid
    <3> DEFINE lid == [[lids[l] EXCEPT !.at = at] EXCEPT !.by = "nobody"]
    <3>2. lids' = [lids EXCEPT ![l] = lid]
      BY <3>1 DEF SideTyped
    <3>3. lid \in Lid
      BY DEF Lid, SideTyped
    <3> QED
      BY <2>1, <3>2, <3>3
  <2>6. ASSUME ~(\E r \in wire : Serve(r)),
               ~(\E l \in Lids : HandMoves(l) \/ MotorMoves(l) \/ Arrives(l))
        PROVE  UNCHANGED lids
    BY <2>6 DEF HandlersNext, LidActuation, CameraRotation, CameraHome, Untouched, Aside, node,
           TreatDispense, SettingsApply, PlayMusic, StopMusic, Radxa, PhotoCapture, PrivacyMode,
           LiveSessionStart, LiveSessionEnd, VideoCapturePan, SweepSend, SweepNext, Sweeping,
           Timeout, TimeOut, Receive, Moving, Stands, MotorRuns, Tick, Hearing, Die, handlersVars
  <2> QED
    BY <2>2, <2>3, <2>4, <2>5, <2>6 DEF SideTyped
<1> QED
  BY <1>1, <1>2, <1>3 DEF SideTyped

-----------------------------------------------------------------------------
(* What the subscriber keeps of the lids.                                    *)

\* "Moving" is remembered until the motor or the lid's rest is reported.
LEMMA MovedByReports ==
    /\ \A s \in Seq(Reports) : Moved(Append(s, "moving")) /\ ~Moved(Append(s, "motor"))
    /\ \A v \in Reports : v # "moving" => ~Moved(<<v>>)
<1>1. ASSUME NEW s \in Seq(Reports) PROVE Moved(Append(s, "moving"))
  <2>1. /\ Len(s) \in Nat /\ Len(Append(s, "moving")) = Len(s) + 1
        /\ Append(s, "moving")[Len(s) + 1] = "moving"
        /\ Len(s) + 1 \in DOMAIN Append(s, "moving")
    OBVIOUS
  <2>2. \A j \in (Len(s) + 1) .. (Len(s) + 1) : j = Len(s) + 1
    BY <2>1
  <2> QED
    BY <2>1, <2>2 DEF Moved
<1>2. ASSUME NEW s \in Seq(Reports), Moved(Append(s, "motor")) PROVE FALSE
  <2>1. /\ Len(s) \in Nat /\ Len(Append(s, "motor")) = Len(s) + 1
        /\ Append(s, "motor")[Len(s) + 1] = "motor"
        /\ DOMAIN Append(s, "motor") = 1 .. (Len(s) + 1)
    OBVIOUS
  <2>2. PICK i \in 1 .. (Len(s) + 1) : \A j \in i .. (Len(s) + 1) : Append(s, "motor")[j] # "motor"
    BY <1>2, <2>1 DEF Moved
  <2>3. Len(s) + 1 \in i .. (Len(s) + 1)
    BY <2>1
  <2> QED
    BY <2>1, <2>2, <2>3
<1>3. ASSUME NEW v \in Reports, v # "moving" PROVE ~Moved(<<v>>)
  BY <1>3 DEF Moved
<1> QED
  BY <1>1, <1>2, <1>3

LEMMA InitHandlers == HandlersInit => HandlersInv
<1> SUFFICES ASSUME HandlersInit PROVE HandlersInv
  OBVIOUS
<1>1. LinkTyped
  <2>1. 0 \in -Limit .. Limit
    BY LimitValue
  <2> QED
    BY <2>1 DEF HandlersInit, LinkTyped, Counts
<1>2. RequestsApart /\ AnswersTrue
  BY DEF HandlersInit, RequestsApart, AnswersTrue
<1>3. CameraFollows
  <2>1. Hundredths(0) = 0
    BY DEF Hundredths
  <2> QED
    BY <2>1 DEF HandlersInit, CameraFollows, Follows
<1>4. SideTyped
  BY DEF HandlersInit, SideTyped, Lid
<1>5. EarsTyped
  <2>1. Deaf \in Ears
    BY DEF Deaf, Ears
  <2>2. <<"unknown">> \in Seq(Reports)
    BY DEF Reports
  <2> QED
    BY <2>1, <2>2 DEF HandlersInit, EarsTyped
<1>6. HeardRight
  <2>1. ~Moved(<<"unknown">>) /\ Len(<<"unknown">>) = 1 /\ <<"unknown">>[1] = "unknown"
    BY MovedByReports DEF Reports
  <2>2. /\ \A l \in Lids : heard[l] = Deaf /\ trail[l] = <<"unknown">>
        /\ \A i \in DOMAIN events : FALSE
    BY DEF HandlersInit
  <2>3. Deaf.moved = FALSE /\ Deaf.stable = "unknown" /\ Deaf.last = Nothing
    BY DEF Deaf
  <2>4. ASSUME NEW l \in Lids
        PROVE  /\ Len(trail[l]) >= 1 /\ trail[l][1] = heard[l].stable
               /\ ~heard[l].moved /\ ~Moved(trail[l]) /\ heard[l].last = Nothing
    BY <2>1, <2>2, <2>3
  <2> QED
    BY <2>2, <2>4 DEF HeardRight
<1> QED
  BY <1>1, <1>2, <1>3, <1>4, <1>5, <1>6 DEF HandlersInv, LinkInv

\* The steps the subscriber knows nothing of.
LEMMA EarsFrame ==
    ASSUME [HandlersNext]_handlersVars, ~Die, ~Tick,
           ~(\E l \in Lids : Moving(l) \/ Stands(l) \/ MotorRuns(l))
    PROVE  UNCHANGED <<heard, trail, events, clock>>
  BY DEF HandlersNext, LidActuation, CameraRotation, CameraHome, Untouched, Aside, ears,
         TreatDispense, SettingsApply, PlayMusic, StopMusic, Radxa, PhotoCapture, PrivacyMode,
         LiveSessionStart, LiveSessionEnd, VideoCapturePan, SweepSend, SweepNext, Sweeping,
         Timeout, TimeOut, Receive, Serve, HandMoves, MotorMoves, Arrives, Still, handlersVars

LEMMA EarsStep ==
    ASSUME SideTyped, EarsTyped, HeardRight, [HandlersNext]_handlersVars
    PROVE  EarsTyped' /\ HeardRight'
<1>0. Nothing \notin Nat
  BY HandlersAssumption
<1>1. CASE Die
  <2>1. /\ heard' = [l \in Lids |-> Deaf] /\ trail' = [l \in Lids |-> <<"unknown">>]
        /\ events' = <<>> /\ clock' = clock
    BY <1>1 DEF Die
  <2>2. Deaf \in Ears /\ <<"unknown">> \in Seq(Reports)
    BY DEF Deaf, Ears, Reports
  <2>3. ~Moved(<<"unknown">>) /\ Len(<<"unknown">>) = 1 /\ <<"unknown">>[1] = "unknown"
    BY MovedByReports DEF Reports
  <2> QED
    BY <2>1, <2>2, <2>3 DEF EarsTyped, HeardRight, Deaf
<1>2. CASE Tick
  <2>1. clock' = clock + 1 /\ UNCHANGED <<heard, trail, events>>
    BY <1>2 DEF Tick
  <2>2. \A l \in Lids : heard[l] \in Ears
    BY DEF EarsTyped
  <2>3. \A t \in Nat : t <= clock => t <= clock'
    BY <2>1 DEF EarsTyped
  <2> QED
    BY <2>1, <2>2, <2>3 DEF EarsTyped, HeardRight, Ears
<1>3. ASSUME NEW l \in Lids, Moving(l) \/ MotorRuns(l) PROVE EarsTyped' /\ HeardRight'
  <2>1. PICK m \in BOOLEAN, report \in {"moving", "motor"} :
            /\ heard' = [heard EXCEPT ![l].moved = m]
            /\ trail' = [trail EXCEPT ![l] = Append(@, report)]
            /\ m <=> report = "moving"
    BY <1>3 DEF Moving, MotorRuns
  <2>2. UNCHANGED <<events, clock>>
    BY <1>3 DEF Moving, MotorRuns, Hearing
  <2> DEFINE ear == [heard[l] EXCEPT !.moved = m]
  <2>3. heard[l] \in Ears /\ trail[l] \in Seq(Reports)
    BY DEF EarsTyped
  <2>4. ear \in Ears /\ ear.moved = m /\ ear.stable = heard[l].stable /\ ear.last = heard[l].last
    BY <2>3 DEF Ears
  <2>5. /\ heard' = [heard EXCEPT ![l] = ear] /\ heard'[l] = ear
        /\ \A k \in Lids : k # l => heard'[k] = heard[k]
    BY <2>1 DEF EarsTyped
  <2>6. /\ trail'[l] = Append(trail[l], report)
        /\ \A k \in Lids : k # l => trail'[k] = trail[k]
    BY <2>1 DEF EarsTyped
  <2>7. report \in Reports /\ Append(trail[l], report) \in Seq(Reports)
    BY <2>3 DEF Reports
  <2>8. EarsTyped'
    BY <2>1, <2>2, <2>4, <2>5, <2>7 DEF EarsTyped
  <2>9. m <=> Moved(Append(trail[l], report))
    BY <2>1, <2>3, MovedByReports
  <2>10. Len(trail[l]) >= 1 => /\ Len(Append(trail[l], report)) >= 1
                               /\ Append(trail[l], report)[1] = trail[l][1]
    BY <2>3
  <2>11. ASSUME NEW k \in Lids
         PROVE  /\ Len(trail'[k]) >= 1 /\ trail'[k][1] = heard'[k].stable
                /\ heard'[k].moved <=> Moved(trail'[k])
                /\ heard'[k].last = heard[k].last
    <3> HIDE DEF ear
    <3>1. CASE k = l
      <4>1. Len(trail[l]) >= 1 /\ trail[l][1] = heard[l].stable
        BY DEF HeardRight
      <4>2. heard'[k] = ear /\ trail'[k] = Append(trail[l], report)
        BY <2>5, <2>6, <3>1
      <4> QED
        BY <2>4, <2>9, <2>10, <3>1, <4>1, <4>2
    <3>2. CASE k # l
      BY <2>5, <2>6, <3>2 DEF HeardRight
    <3> QED
      BY <3>1, <3>2
  <2> QED
    BY <2>2, <2>8, <2>11 DEF HeardRight
<1>4. ASSUME NEW l \in Lids, Stands(l) PROVE EarsTyped' /\ HeardRight'
  <2> DEFINE v == lids[l].at
             emits == heard[l].moved /\ heard[l].stable = Other(v) /\ Spaced(l)
             last == IF emits THEN clock ELSE heard[l].last
             ear == [moved |-> FALSE, stable |-> v, last |-> last]
             event == [lid |-> l, to |-> v, at |-> clock]
  <2>1. /\ v # "moving" /\ heard' = [heard EXCEPT ![l] = ear]
        /\ events' = IF emits THEN Append(events, event) ELSE events
        /\ trail' = [trail EXCEPT ![l] = <<v>>]
        /\ clock' = clock
    BY <1>4 DEF Stands, Hearing, EarsTyped
  <2>2. v \in {"closed", "open"} /\ v \in Reports
    BY <2>1 DEF SideTyped, Lid, Reports
  <2>3. heard[l] \in Ears /\ clock \in Nat /\ events \in Seq(LidEvent)
    BY DEF EarsTyped
  <2>4. ear \in Ears /\ event \in LidEvent /\ <<v>> \in Seq(Reports)
    BY <2>2, <2>3 DEF Ears, LidEvent
  <2>5. EarsTyped'
    <3>1. events' \in Seq(LidEvent)
      BY <2>1, <2>3, <2>4
    <3> HIDE DEF ear
    <3> QED
      BY <2>1, <2>2, <2>4, <3>1 DEF EarsTyped
  <2>6. /\ heard'[l] = ear /\ trail'[l] = <<v>>
        /\ \A k \in Lids : k # l => heard'[k] = heard[k] /\ trail'[k] = trail[k]
    <3> HIDE DEF ear, v
    <3> QED
      BY <2>1 DEF EarsTyped
  <2>7. ~Moved(<<v>>) /\ Len(<<v>>) = 1 /\ <<v>>[1] = v
    BY <2>1, <2>2, MovedByReports
  <2>8. /\ Len(trail'[l]) >= 1 /\ trail'[l][1] = heard'[l].stable
        /\ heard'[l].moved <=> Moved(trail'[l])
    BY <2>6, <2>7
  <2>9. CASE emits
    <3> HIDE DEF emits
    <3>1. /\ events' = Append(events, event) /\ last = clock
          /\ Len(events) \in Nat /\ DOMAIN events = 1 .. Len(events)
          /\ DOMAIN events' = 1 .. (Len(events) + 1)
          /\ events'[Len(events) + 1] = event
          /\ \A i \in DOMAIN events : events'[i] = events[i]
      <4> HIDE DEF event
      <4> QED
        BY <2>1, <2>3, <2>4, <2>9
    <3>2. \A k \in Lids, i \in DOMAIN events :
              events[i].lid = k => heard[k].last # Nothing /\ events[i].at <= heard[k].last /\ heard[k].last <= clock
      BY DEF HeardRight
    <3>3. \A k \in Lids, i \in DOMAIN events : events[i].lid = k => events[i].at <= clock
      <4> SUFFICES ASSUME NEW k \in Lids, NEW i \in DOMAIN events, events[i].lid = k
                   PROVE  events[i].at <= clock
        OBVIOUS
      <4>1. heard[k].last \in Nat /\ events[i] \in LidEvent
        BY <3>2, <2>3 DEF EarsTyped, Ears
      <4> QED
        BY <2>3, <3>2, <4>1 DEF LidEvent
    <3>4. \A i \in DOMAIN events' : events'[i].lid = l => events'[i].at <= clock
      BY <2>3, <3>1, <3>3
    <3>5. heard'[l].last = clock /\ heard'[l].last # Nothing
      BY <1>0, <2>3, <2>6, <3>1
    <3>6. Len(events) + 1 \in DOMAIN events' /\ events'[Len(events) + 1].lid = l
          /\ events'[Len(events) + 1].at = clock
      BY <3>1
    <3>7. \A k \in Lids : k # l => \A i \in DOMAIN events' : events'[i].lid = k => i \in DOMAIN events
      BY <3>1
    <3>8. ASSUME NEW k \in Lids, k # l
          PROVE  /\ heard'[k].last # Nothing =>
                     /\ heard'[k].last <= clock'
                     /\ \E i \in DOMAIN events' : events'[i].lid = k /\ events'[i].at = heard'[k].last
                 /\ \A i \in DOMAIN events' :
                      events'[i].lid = k => heard'[k].last # Nothing /\ events'[i].at <= heard'[k].last
      <4>1. heard'[k] = heard[k]
        BY <2>6, <3>8
      <4>2. \A i \in DOMAIN events : i \in DOMAIN events'
        BY <3>1
      <4> QED
        BY <2>1, <3>1, <3>7, <3>8, <4>1, <4>2 DEF HeardRight
    <3> QED
      BY <2>1, <2>3, <2>5, <2>6, <2>8, <3>4, <3>5, <3>6, <3>8 DEF HeardRight
  <2>10. CASE ~emits
    <3> HIDE DEF emits
    <3>1. UNCHANGED <<events, clock>> /\ \A k \in Lids : heard'[k].last = heard[k].last
      BY <2>1, <2>6, <2>10
    <3>2. \A k \in Lids : k # l => heard'[k] = heard[k] /\ trail'[k] = trail[k]
      BY <2>6
    <3> HIDE DEF ear, v
    <3> QED
      BY <2>5, <2>8, <3>1, <3>2 DEF HeardRight
  <2> QED
    BY <2>9, <2>10
<1>5. CASE ~Die /\ ~Tick /\ ~(\E l \in Lids : Moving(l) \/ Stands(l) \/ MotorRuns(l))
  <2>1. UNCHANGED <<heard, trail, events, clock>>
    BY <1>5, EarsFrame
  <2> QED
    BY <2>1 DEF EarsTyped, HeardRight, Moved
<1> QED
  BY <1>1, <1>2, <1>3, <1>4, <1>5

-----------------------------------------------------------------------------
(* The invariant, and what it says.                                          *)

LEMMA HandlersStep == HandlersInv /\ [HandlersNext]_handlersVars => HandlersInv'
<1> SUFFICES ASSUME HandlersInv, [HandlersNext]_handlersVars PROVE HandlersInv'
  OBVIOUS
<1>1. LinkInv' /\ AnswersTrue'
  BY LinkStep DEF HandlersInv
<1>2. SideTyped'
  BY SideStep DEF HandlersInv, LinkInv
<1>3. EarsTyped' /\ HeardRight'
  BY EarsStep DEF HandlersInv
<1> QED
  BY <1>1, <1>2, <1>3 DEF HandlersInv

LEMMA HandlersInvariance == HandlersSpec => []HandlersInv
  BY InitHandlers, HandlersStep, PTL DEF HandlersSpec

LEMMA TypesFromInv == HandlersInv => HandlersTypeOK
<1> SUFFICES ASSUME HandlersInv PROVE HandlersTypeOK
  OBVIOUS
<1> USE DEF HandlersInv, LinkInv
<1>1. worker # Nothing =>
        /\ worker \in IF worker.kind = "lid" THEN LidCommand ELSE CameraCommand
        /\ worker.kind \in kinds /\ worker.request \in 1 .. count.requests
  BY DEF LinkTyped, CommandTyped
<1>2. kinds \in KindSets /\ socket \in [id : Nat, due : BOOLEAN] /\ angle \in -Limit .. Limit
  BY DEF LinkTyped
<1>3. \A l \in Lids : heard[l].last # Nothing => heard[l].last \in 0 .. clock
  <2> SUFFICES ASSUME NEW l \in Lids, heard[l].last # Nothing PROVE heard[l].last \in 0 .. clock
    OBVIOUS
  <2>1. heard[l].last \in Nat /\ clock \in Nat /\ heard[l].last <= clock
    BY DEF EarsTyped, Ears, HeardRight
  <2> QED
    BY <2>1
<1>4. \A r \in wire : r.n \in 1 .. count.requests /\ r.socket \in 0 .. socket.id
  BY DEF LinkTyped, RequestsApart
<1>5. /\ \A r \in replies : r.n \in 1 .. count.requests
      /\ camera.by \in 0 .. count.requests
  BY DEF LinkTyped
<1>6. \A l \in Lids : \A i \in DOMAIN trail[l] : trail[l][i] \in Reports
  BY DEF EarsTyped
<1> QED
  BY <1>1, <1>2, <1>3, <1>4, <1>5, <1>6 DEF HandlersTypeOK, SideTyped

LEMMA TrackedFromInv == HandlersInv => CameraTracked
  BY DEF HandlersInv, LinkInv, CameraFollows, Follows, CameraTracked

\* In every state the handlers' variables have their types: the angle of the
\* camera never leaves the limits of handle_camera_rotation, whatever angle and
\* direction a payload has, and no request is under way from a socket not yet built.
THEOREM HandlersTypeCorrect == HandlersSpec => []HandlersTypeOK
  BY HandlersInvariance, TypesFromInv, PTL

\* send_packet_to_mcu answers a command for itself: never with the reply to an
\* earlier request, however many of them timed out, and never with a failure
\* because the socket still waits for one of those replies.
THEOREM AnswersAreOwn == HandlersSpec => []AnswersTrue
<1>1. HandlersInv => AnswersTrue
  BY DEF HandlersInv
<1> QED
  BY <1>1, HandlersInvariance, PTL

\* current_camera_angle_ is where the last rotation sent the camera, once the
\* camera has obeyed it, whether its answer came, came too late or never came.
THEOREM CameraWhereSent == HandlersSpec => []CameraTracked
  BY HandlersInvariance, TrackedFromInv, PTL

LEMMA MovedByHandStep ==
    ASSUME HandlersInv, NEW l \in Lids, Stands(l), NEW k \in Lids, NEW v \in {"closed", "open"}
    PROVE  (\E i \in DOMAIN events' \ DOMAIN events : events'[i] = [lid |-> k, to |-> v, at |-> clock])
           <=> (trail'[k] = <<v>> /\ trail[k] # <<v>> /\ ByHand(k, v))
<1> DEFINE w == lids[l].at
           emits == heard[l].moved /\ heard[l].stable = Other(w) /\ Spaced(l)
           event == [lid |-> l, to |-> w, at |-> clock]
<1> USE DEF HandlersInv
<1>0. /\ w \in {"closed", "open"} /\ trail[l] \in Seq(Reports) /\ events \in Seq(LidEvent)
      /\ clock \in Nat /\ Nothing \notin Nat /\ Debounce \in Nat
      /\ heard[l].last \in Nat \cup {Nothing}
  BY HandlersAssumption DEF Stands, SideTyped, Lid, EarsTyped, Ears
<1>1. /\ events' = IF emits THEN Append(events, event) ELSE events
      /\ trail' = [trail EXCEPT ![l] = <<w>>]
  BY DEF Stands
<1>2. \A x, y \in {"closed", "open"} : Other(x) # x /\ (Other(x) = Other(y) => x = y)
  BY DEF Other
<1>3. /\ Len(trail[l]) >= 1 /\ trail[l][1] = heard[l].stable
      /\ heard[l].moved <=> Moved(trail[l])
      /\ heard[l].last # Nothing => \E i \in DOMAIN events : events[i].lid = l /\ events[i].at = heard[l].last
      /\ \A i \in DOMAIN events :
           events[i].lid = l => heard[l].last # Nothing /\ events[i].at <= heard[l].last
  BY DEF HeardRight
<1>4. Spaced(l) <=> \A i \in DOMAIN events : events[i].lid = l => clock - events[i].at >= Debounce
  <2>1. CASE heard[l].last = Nothing
    BY <1>3, <2>1 DEF Spaced
  <2>2. CASE heard[l].last # Nothing
    <3>1. heard[l].last \in Nat
      BY <1>0, <2>2
    <3>2. \A i \in DOMAIN events : events[i].at \in Nat
      <4>1. \A i \in DOMAIN events : events[i] \in LidEvent
        BY <1>0
      <4> QED
        BY <4>1 DEF LidEvent
    <3>3. PICK j \in DOMAIN events : events[j].lid = l /\ events[j].at = heard[l].last
      BY <1>3, <2>2
    <3>4. Spaced(l) <=> clock - heard[l].last >= Debounce
      BY <2>2 DEF Spaced
    <3>5. (\A i \in DOMAIN events : events[i].lid = l => clock - events[i].at >= Debounce)
          => clock - heard[l].last >= Debounce
      BY <3>3
    <3>6. ASSUME clock - heard[l].last >= Debounce, NEW i \in DOMAIN events, events[i].lid = l
          PROVE  clock - events[i].at >= Debounce
      <4>1. events[i].at <= heard[l].last
        BY <1>3, <3>6
      <4> QED
        BY <1>0, <3>1, <3>2, <3>6, <4>1
    <3> QED
      BY <3>4, <3>5, <3>6
  <2> QED
    BY <2>1, <2>2
<1>5. emits <=> ByHand(l, w)
  BY <1>3, <1>4 DEF ByHand, Moved
<1>6. trail[l] # <<w>> \/ ~ByHand(l, w)
  <2>1. <<w>>[1] = w
    OBVIOUS
  <2> QED
    BY <1>0, <1>2, <2>1 DEF ByHand
<1>7. trail'[l] = <<w>> /\ \A x \in Lids : x # l => trail'[x] = trail[x]
  <2> HIDE DEF w
  <2> QED
    BY <1>1 DEF EarsTyped
<1>8. (\E i \in DOMAIN events' \ DOMAIN events : events'[i] = [lid |-> k, to |-> v, at |-> clock])
      <=> emits /\ k = l /\ v = w
  <2>1. CASE emits
    <3> HIDE DEF emits
    <3>1. /\ events' = Append(events, event) /\ Len(events) \in Nat
          /\ DOMAIN events = 1 .. Len(events) /\ DOMAIN Append(events, event) = 1 .. (Len(events) + 1)
          /\ Append(events, event)[Len(events) + 1] = event
      <4> HIDE DEF event
      <4>1. event \in LidEvent
        BY <1>0 DEF LidEvent, event
      <4> QED
        BY <1>0, <1>1, <2>1, <4>1
    <3>2. DOMAIN events' \ DOMAIN events = {Len(events) + 1}
      BY <3>1
    <3>3. event = [lid |-> k, to |-> v, at |-> clock] <=> k = l /\ v = w
      OBVIOUS
    <3> HIDE DEF event
    <3> QED
      BY <2>1, <3>1, <3>2, <3>3
  <2>2. CASE ~emits
    BY <1>1, <2>2
  <2> QED
    BY <2>1, <2>2
<1>9. trail'[k] = <<v>> /\ trail[k] # <<v>> => k = l /\ v = w
  <2>1. <<v>>[1] = v /\ <<w>>[1] = w
    OBVIOUS
  <2> HIDE DEF w
  <2> QED
    BY <1>7, <2>1
<1> HIDE DEF w, emits
<1> QED
  BY <1>5, <1>6, <1>7, <1>8, <1>9

LEMMA LidEventStep ==
    ASSUME HandlersInv, [HandlersNext]_handlersVars, NEW k \in Lids, NEW v \in {"closed", "open"},
           count'.lives = count.lives
    PROVE  (\E i \in DOMAIN events' \ DOMAIN events : events'[i] = [lid |-> k, to |-> v, at |-> clock])
           <=> (trail'[k] = <<v>> /\ trail[k] # <<v>> /\ ByHand(k, v))
<1>1. CASE \E l \in Lids : Stands(l)
  BY <1>1, MovedByHandStep
<1>2. ASSUME NEW l \in Lids, Moving(l) \/ MotorRuns(l)
      PROVE  events' = events /\ (trail'[k] = <<v>> => trail[k] = <<v>>)
  <2>1. PICK report : events' = events /\ trail' = [trail EXCEPT ![l] = Append(@, report)]
    BY <1>2 DEF Moving, MotorRuns, Hearing
  <2>2. trail[l] \in Seq(Reports) /\ Len(trail[l]) >= 1 /\ trail \in [Lids -> Seq(Reports)]
    BY DEF HandlersInv, EarsTyped, HeardRight
  <2>3. CASE k = l
    <3>1. trail'[k] = Append(trail[l], report) /\ Len(Append(trail[l], report)) = Len(trail[l]) + 1
      BY <2>1, <2>2, <2>3
    <3>2. Len(<<v>>) = 1 /\ Len(trail[l]) \in Nat
      BY <2>2
    <3> QED
      BY <2>1, <2>2, <3>1, <3>2
  <2>4. CASE k # l
    BY <2>1, <2>2, <2>4
  <2> QED
    BY <2>3, <2>4
<1>3. CASE Tick
  BY <1>3 DEF Tick
<1>4. ~Die
  <2>1. Die => count'.lives = count.lives + 1 /\ count.lives \in Nat
    BY DEF Die, HandlersInv, LinkInv, LinkTyped, Counts
  <2> QED
    BY <2>1
<1>5. CASE ~Tick /\ ~(\E l \in Lids : Moving(l) \/ Stands(l) \/ MotorRuns(l))
  BY <1>4, <1>5, EarsFrame
<1> QED
  BY <1>1, <1>2, <1>3, <1>4, <1>5

\* A lid is reported as moved by hand exactly when what the node reported of it
\* shows such a move: at rest, under way with no motor report after, at rest at
\* the other end, the last event of this lid a debounce time old.
THEOREM HandMovesReported == HandlersSpec => LidEvents
<1>1. HandlersInv /\ [HandlersNext]_handlersVars =>
        [count'.lives = count.lives => \A l \in Lids, v \in {"closed", "open"} :
            (\E i \in DOMAIN events' \ DOMAIN events : events'[i] = [lid |-> l, to |-> v, at |-> clock])
            <=> (trail'[l] = <<v>> /\ trail[l] # <<v>> /\ ByHand(l, v))]_handlersVars
  BY LidEventStep
<1> QED
  BY <1>1, HandlersInvariance, PTL DEF HandlersSpec, LidEvents
=============================================================================
