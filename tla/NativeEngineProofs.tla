-------------------------- MODULE NativeEngineProofs --------------------------
(***************************************************************************)
(* First the stop handshake, TunnelSync: SyncInv is inductive for any set  *)
(* of threads, and with it no quit ever writes to a closed descriptor and  *)
(* at most two bytes are unread in the event socket.  The worker's steps   *)
(* and a quit's are lemmas of their own, for the composed system.          *)
(*                                                                         *)
(* Then the engine with its JNI layer, again for any set of threads:       *)
(* EngineInv is inductive and gives the safety properties and the          *)
(* refinement of EngineSpec; with RequestInv it shows that, until an       *)
(* initialisation has failed, no run ends that nobody asked to end.        *)
(***************************************************************************)
EXTENDS NativeEngine, TLAPS


LEMMA SyncInvInit == SyncInit => SyncInv
BY DEF SyncInit, SyncInv, SyncTypeOK, WaitIsALock, OpenWhileAnnounced, SenderHoldsFini,
       SentCountsBytes, SyncBits, WorkerPcs, QuitPcs, Inside, Announced, Writing

(* Steps of the worker thread leave every quit where it is. *)
LEMMA SyncInvWorker ==
    ASSUME SyncInv, MainEnters \/ WorkerSteps \/ TunDevice \/ MainReturns
    PROVE  SyncInv'
<1> USE DEF SyncInv, SyncTypeOK, WaitIsALock, OpenWhileAnnounced, SenderHoldsFini,
            SentCountsBytes, SyncBits, WorkerPcs, QuitPcs, Inside, Announced, Writing,
            WorkerGoes
<1>1. CASE MainEnters BY <1>1 DEF MainEnters
<1>2. CASE MainReturns BY <1>2 DEF MainReturns
<1>3. CASE TunDevice BY <1>3 DEF TunDevice, TunReadFails, TunReadRecovers
<1>4. CASE MainConfigures \/ MainGivesUp BY <1>4 DEF MainConfigures, MainGivesUp
<1>5. CASE InitOpensEventFds BY <1>5 DEF InitOpensEventFds
<1>6. CASE InitFails BY <1>6 DEF InitFails
<1>7. CASE InitAnnounces BY <1>7 DEF InitAnnounces
<1>8. CASE RunChecksStop BY <1>8 DEF RunChecksStop
<1>9. CASE EventTaskReads BY <1>9 DEF EventTaskReads
<1>10. CASE EventTaskClears BY <1>10 DEF EventTaskClears
<1>11. CASE TasksEnd BY <1>11 DEF TasksEnd
<1>12. CASE FiniWithdraws BY <1>12 DEF FiniWithdraws
<1>13. CASE FiniCloses BY <1>13 DEF FiniCloses
<1> QED BY <1>1, <1>2, <1>3, <1>4, <1>5, <1>6, <1>7, <1>8, <1>9, <1>10, <1>11, <1>12, <1>13
        DEF WorkerSteps

(* Steps of one thread's quit leave the worker where it is. *)
LEMMA SyncInvQuit ==
    ASSUME SyncInv, NEW t \in Threads, QuitCalled(t) \/ QuitSteps(t)
    PROVE  SyncInv'
<1> USE DEF SyncInv, SyncTypeOK, WaitIsALock, OpenWhileAnnounced, SenderHoldsFini,
            SentCountsBytes, SyncBits, WorkerPcs, QuitPcs, Inside, Announced, Writing,
            QuitGoes
<1>1. CASE QuitCalled(t) BY <1>1 DEF QuitCalled
<1>2. CASE QuitEnters(t) BY <1>2 DEF QuitEnters
<1>3. CASE QuitSends(t) BY <1>3 DEF QuitSends
<1>4. CASE QuitWrites(t) BY <1>4 DEF QuitWrites
<1>5. CASE QuitLatches(t) BY <1>5 DEF QuitLatches
<1>6. CASE QuitLeaves(t) BY <1>6 DEF QuitLeaves
<1> QED BY <1>1, <1>2, <1>3, <1>4, <1>5, <1>6 DEF QuitSteps

LEMMA SyncInvStutter == SyncInv /\ UNCHANGED syncVars => SyncInv'
BY DEF syncVars, SyncInv, SyncTypeOK, WaitIsALock, OpenWhileAnnounced, SenderHoldsFini,
       SentCountsBytes, Inside, Writing

(* The bits of tunnel_sync always say who is inside a quit and whether the *)
(* event socket is open.                                                   *)
THEOREM SyncInvariance == SyncSpec => []SyncInv
<1>1. SyncInv /\ [SyncNext]_syncVars => SyncInv'
  BY SyncInvWorker, SyncInvQuit, SyncInvStutter DEF SyncNext
<1> QED BY SyncInvInit, <1>1, PTL DEF SyncSpec

(* hev_socks5_tunnel_stop's write never reaches a descriptor that          *)
(* hev_socks5_tunnel_fini has closed, for any number of concurrent quits   *)
(* and any number of restarts.                                             *)
THEOREM NoWriteToClosedFdTheorem == SyncSpec => []NoWriteToClosedFd
<1>1. SyncInv => NoWriteToClosedFd
  BY DEF SyncInv, SenderHoldsFini, NoWriteToClosedFd
<1> QED BY SyncInvariance, <1>1, PTL

(* The event socket holds at most two bytes: a quit's blocking write never *)
(* blocks.                                                                 *)
THEOREM EventSocketBoundedTheorem == SyncSpec => []EventSocketBounded
<1>1. SyncInv => EventSocketBounded
  <2> SUFFICES ASSUME SyncInv PROVE bytes <= 2
    BY DEF EventSocketBounded
  <2> USE DEF SyncInv, SyncTypeOK, WorkerPcs, SentCountsBytes
  <2>1. CASE "SEND" \in tsync \/ wpc = "socket" BY <2>1
  <2>2. CASE "SEND" \notin tsync /\ wpc # "socket" BY <2>2
  <2> QED BY <2>1, <2>2
<1> QED BY SyncInvariance, <1>1, PTL

(* Both together: the write of a quit is safe. *)
THEOREM WritesAreSafeTheorem == SyncSpec => []WritesAreSafe
  BY NoWriteToClosedFdTheorem, EventSocketBoundedTheorem, PTL DEF WritesAreSafe

-----------------------------------------------------------------------------
(* The engine with its JNI layer *)


LEMMA EngineInit == Init => EngineInv
<1> SUFFICES ASSUME Init PROVE EngineInv
  OBVIOUS
<1>1. SyncInv /\ SyncTypeOK BY SyncInvInit DEF Init, SyncInv
<1>2. TypeOK BY <1>1 DEF Init, TypeOK, JniPcs
<1>3. MutexCoversCalls BY NoThreadAssumption DEF Init, SyncInit, MutexCoversCalls
<1>4. FlagsFollowWorker BY DEF Init, SyncInit, FlagsFollowWorker
<1> QED BY <1>1, <1>2, <1>3, <1>4 DEF EngineInv

(* SyncInv survives every step: each one is a step of TunnelSync or leaves *)
(* its variables alone.                                                    *)
LEMMA EngineSteps ==
    ASSUME [Next]_vars
    PROVE  \/ MainEnters \/ WorkerSteps \/ TunDevice \/ MainReturns
           \/ \E t \in Threads : QuitCalled(t) \/ QuitSteps(t)
           \/ UNCHANGED syncVars
BY DEF Next, vars, CallSteps, WorkerProgress, WorkerWorks, WorkerReturns, WorkerEnds, StartCalled,
       StopCalled, Locks, StartChecks, StartJoins, StartPrepares, StartSpawns,
       StartSpawnFails, StopChecks, StopJoins, Returns

LEMMA EngineKeepsSyncInv ==
    ASSUME SyncInv, [Next]_vars
    PROVE  SyncInv'
BY EngineSteps, SyncInvWorker, SyncInvQuit, SyncInvStutter

(* What a step of the worker inside main does not touch. *)
LEMMA WorkerInsideMain ==
    ASSUME WorkerSteps \/ TunDevice
    PROVE  wpc # "out" /\ wpc' # "out" /\ UNCHANGED quit
BY DEF WorkerSteps, TunDevice, WorkerGoes, MainConfigures, MainGivesUp,
       InitOpensEventFds, InitFails, InitAnnounces, RunChecksStop, EventTaskReads,
       EventTaskClears, TasksEnd, FiniWithdraws, FiniCloses, TunReadFails, TunReadRecovers

(* What a step of a quit does not touch. *)
LEMMA QuitInsideStop ==
    ASSUME SyncTypeOK, NEW t \in Threads, QuitSteps(t)
    PROVE  /\ quit[t] # "idle"
           /\ UNCHANGED wpc
           /\ \A s \in Threads : s # t => quit'[s] = quit[s]
BY DEF SyncTypeOK, QuitSteps, QuitGoes, QuitEnters, QuitSends, QuitWrites, QuitLatches, QuitLeaves

LEMMA EngineStep ==
    ASSUME EngineInv, [Next]_vars
    PROVE  EngineInv'
<1> USE DEF EngineInv
<1>1. SyncInv' /\ SyncTypeOK'
  BY EngineKeepsSyncInv DEF SyncInv
<1> SUFFICES (TypeOK /\ MutexCoversCalls /\ FlagsFollowWorker)'
  BY <1>1
<1> USE <1>1, NoThreadAssumption
    DEF TypeOK, MutexCoversCalls, FlagsFollowWorker, JniPcs, StartPcs, StopPcs, DonePcs, Goes,
        history
<1>2. CASE UNCHANGED vars
  BY <1>2 DEF vars, syncVars, jniVars, history
<1>3. CASE WorkerWorks \/ (TunDevice /\ UNCHANGED jniVars)
  BY <1>3, WorkerInsideMain DEF WorkerWorks, jniVars, history
<1>4. CASE WorkerReturns
  BY <1>4 DEF WorkerReturns, MainReturns, WorkerGoes
<1>5. CASE WorkerEnds
  BY <1>5 DEF WorkerEnds, syncVars
<1>6. ASSUME NEW t \in Threads, StartCalled(t) \/ StopCalled(t)
      PROVE  (TypeOK /\ MutexCoversCalls /\ FlagsFollowWorker)'
  BY <1>6 DEF StartCalled, StopCalled, syncVars
<1>7. ASSUME NEW t \in Threads, CallSteps(t)
      PROVE  (TypeOK /\ MutexCoversCalls /\ FlagsFollowWorker)'
  <2>1. CASE Locks(t) BY <2>1 DEF Locks, syncVars
  <2>2. CASE StartChecks(t) BY <2>2 DEF StartChecks, syncVars
  <2>3. CASE StartJoins(t) BY <2>3 DEF StartJoins, syncVars
  <2>4. CASE StartPrepares(t)
    <3>1. CASE Goes(t, "startCreate", "startSpawn") /\ isRunning' = TRUE
      BY <2>4, <3>1 DEF StartPrepares, syncVars
    <3>2. CASE Goes(t, "startCreate", "startFalse") /\ UNCHANGED isRunning
      BY <2>4, <3>2 DEF StartPrepares, syncVars
    <3> QED BY <2>4, <3>1, <3>2 DEF StartPrepares
  <2>5. CASE StartSpawns(t) BY <2>5 DEF StartSpawns, MainEnters, WorkerGoes
  <2>6. CASE StartSpawnFails(t) BY <2>6 DEF StartSpawnFails, syncVars
  <2>7. CASE StopChecks(t)
    BY ZenonT(40), <2>7 DEF StopChecks, syncVars, QuitCalled, QuitGoes, SyncTypeOK
  <2>8. CASE StopJoins(t) BY <2>8 DEF StopJoins, syncVars
  <2>9. CASE Returns(t) BY <2>9 DEF Returns, syncVars
  <2>10. CASE QuitSteps(t) /\ UNCHANGED jniVars
    BY <2>10, QuitInsideStop DEF jniVars, SyncTypeOK
  <2> QED BY <1>7, <2>1, <2>2, <2>3, <2>4, <2>5, <2>6, <2>7, <2>8, <2>9, <2>10 DEF CallSteps
<1> QED BY <1>2, <1>3, <1>4, <1>5, <1>6, <1>7 DEF Next, WorkerProgress

(* In every state of the library one worker at most exists, what native_stop *)
(* and native_run know of it is true, and the handshake below is sound.    *)
THEOREM EngineInvariance == Spec => []EngineInv
BY EngineInit, EngineStep, PTL DEF Spec

(* One worker at a time, and one owner of its handle. *)
THEOREM OneWorkerTheorem == Spec => []OneWorker
<1>1. EngineInv => OneWorker BY DEF EngineInv, FlagsFollowWorker, OneWorker
<1> QED BY EngineInvariance, <1>1, PTL

(* TProxyIsRunning is false only outside hev_socks5_tunnel_main. *)
THEOREM NotRunningMeansOutTheorem == Spec => []NotRunningMeansOut
<1>1. EngineInv => NotRunningMeansOut BY DEF EngineInv, FlagsFollowWorker, NotRunningMeansOut
<1> QED BY EngineInvariance, <1>1, PTL

(* A stop that has returned leaves no worker and no open descriptor. *)
THEOREM StoppedMeansGoneTheorem == Spec => []StoppedMeansGone
<1>1. EngineInv => StoppedMeansGone
  BY DEF EngineInv, FlagsFollowWorker, MutexCoversCalls, StoppedMeansGone, SyncInv,
         OpenWhileAnnounced
<1> QED BY EngineInvariance, <1>1, PTL

-----------------------------------------------------------------------------
(* Refinement *)

LEMMA SpecInit == Init => Engine!Init
BY DEF Init, Engine!Init, Phase, CallOf, StartPcs, StopPcs

(* Every step of the engine and its callers is a step of EngineSpec or     *)
(* leaves its variables alone.                                             *)
LEMMA SpecStep ==
    ASSUME EngineInv, [Next]_vars
    PROVE  [Engine!Next]_Engine!specVars
<1> USE DEF EngineInv, TypeOK, MutexCoversCalls, FlagsFollowWorker, JniPcs, StartPcs,
            StopPcs, DonePcs, Goes, Phase, CallOf, Engine!specVars
<1>1. CASE UNCHANGED vars
  BY <1>1 DEF vars, jniVars
<1>2. CASE WorkerWorks \/ (TunDevice /\ UNCHANGED jniVars)
  BY <1>2 DEF WorkerWorks, jniVars
<1>3. CASE WorkerReturns
  BY <1>3 DEF WorkerReturns, MainReturns, WorkerGoes, Engine!Next, Engine!End
<1>4. CASE WorkerEnds
  BY <1>4 DEF WorkerEnds
<1>5. ASSUME NEW t \in Threads, StartCalled(t) \/ StopCalled(t)
      PROVE  Engine!Next
  <2> DEFINE call == [s \in Threads |-> CallOf(jni[s])]
             called(c) == [call EXCEPT ![t] = c]
  <2>1. call[t] = "none" /\ UNCHANGED Phase
    BY <1>5 DEF StartCalled, StopCalled
  <2>2. call' = called("start") \/ call' = called("stop")
    <3>1. CASE StartCalled(t)
      <4>1. call' = called("start") BY <3>1 DEF StartCalled
      <4> QED BY <4>1
    <3>2. CASE StopCalled(t)
      <4>1. call' = called("stop") BY <3>2 DEF StopCalled
      <4> QED BY <4>1
    <3> QED BY <1>5, <3>1, <3>2
  <2>3. Engine!Invoke(t)
    BY <2>1, <2>2 DEF Engine!Invoke, Engine!Calls
  <2> QED BY <2>3 DEF Engine!Next
<1>6. ASSUME NEW t \in Threads, CallSteps(t)
      PROVE  [Engine!Next]_Engine!specVars
  <2>1. CASE Locks(t) BY <2>1 DEF Locks
  <2>2. CASE StartChecks(t)
    <3>1. CASE isRunning /\ Goes(t, "startCheck", "startFalse")
      <4>1. Engine!Refuse(t)
        BY <2>2, <3>1 DEF StartChecks, Engine!Refuse, Engine!Result
      <4> QED BY <4>1 DEF Engine!Next
    <3>2. CASE jni'[t] # "startFalse"
      BY <2>2, <3>2 DEF StartChecks
    <3> QED BY <2>2, <3>1, <3>2 DEF StartChecks
  <2>3. CASE StartJoins(t)
    <3>1. Engine!Collect(t)
      BY <2>3 DEF StartJoins, Engine!Collect
    <3> QED BY <3>1 DEF Engine!Next
  <2>4. CASE StartPrepares(t)
    <3>1. CASE Goes(t, "startCreate", "startSpawn")
      BY <2>4, <3>1 DEF StartPrepares
    <3>2. CASE Goes(t, "startCreate", "startFalse")
      <4>1. Engine!Refuse(t)
        BY <2>4, <3>2 DEF StartPrepares, Engine!Refuse, Engine!Result
      <4> QED BY <4>1 DEF Engine!Next
    <3> QED BY <2>4, <3>1, <3>2 DEF StartPrepares
  <2>5. CASE StartSpawns(t)
    <3>1. Engine!Start(t)
      BY <2>5 DEF StartSpawns, Engine!Start, Engine!Result
    <3> QED BY <3>1 DEF Engine!Next
  <2>6. CASE StartSpawnFails(t)
    <3>1. Engine!Refuse(t)
      BY <2>6 DEF StartSpawnFails, Engine!Refuse, Engine!Result
    <3> QED BY <3>1 DEF Engine!Next
  <2>7. CASE StopChecks(t)
    <3>1. CASE ~joinable /\ Goes(t, "stopCheck", "stopTrue")
      <4>1. Engine!Stop(t)
        BY <2>7, <3>1 DEF StopChecks, Engine!Stop, Engine!Result
      <4> QED BY <4>1 DEF Engine!Next
    <3>2. CASE Goes(t, "stopCheck", "stopJoin")
      BY <2>7, <3>2 DEF StopChecks
    <3> QED BY <2>7, <3>1, <3>2 DEF StopChecks
  <2>8. CASE StopJoins(t)
    <3>1. Engine!Stop(t)
      BY <2>8 DEF StopJoins, Engine!Stop, Engine!Result
    <3> QED BY <3>1 DEF Engine!Next
  <2>9. CASE Returns(t)
    <3>1. Engine!Return(t)
      BY <2>9 DEF Returns, Engine!Return, Engine!Results
    <3> QED BY <3>1 DEF Engine!Next
  <2>10. CASE QuitSteps(t) /\ UNCHANGED jniVars BY <2>10 DEF jniVars
  <2> QED BY <1>6, <2>1, <2>2, <2>3, <2>4, <2>5, <2>6, <2>7, <2>8, <2>9, <2>10 DEF CallSteps
<1> QED BY <1>1, <1>2, <1>3, <1>4, <1>5, <1>6 DEF Next, WorkerProgress

(* Every call of the JNI interface takes effect at one instant, whatever   *)
(* calls overlap it and whenever the worker ends.                          *)
THEOREM Refinement == Spec => ImplementsEngineSpec
BY EngineInvariance, SpecInit, SpecStep, PTL DEF Spec, ImplementsEngineSpec, Engine!Spec

-----------------------------------------------------------------------------
(* Who asked for the end of a run *)

LEMMA RequestInit == Init => RequestInv
BY DEF Init, SyncInit, RequestInv, Ended, Delivering

LEMMA RequestStep ==
    ASSUME EngineInv, RequestInv, [Next]_vars
    PROVE  RequestInv'
<1> USE DEF EngineInv, RequestInv, Ended, Delivering, QuitPcs, history
<1>1. SyncTypeOK /\ TypeOK /\ SentCountsBytes /\ MutexCoversCalls /\ FlagsFollowWorker
  BY DEF SyncInv
<1>2. CASE UNCHANGED vars
  BY <1>2 DEF vars, syncVars, jniVars, history
<1>3. CASE WorkerWorks
  <2>1. /\ UNCHANGED <<worker, jni, asked>>
        /\ botched' = (botched \/ (wpc \in {"config", "init", "socket"} /\ wpc' \in {"done", "fini"}))
    BY <1>3 DEF WorkerWorks
  <2>2. UNCHANGED quit /\ (Delivering' <=> Delivering)
    BY <1>3, WorkerInsideMain DEF WorkerWorks
  <2> SUFFICES ASSUME ~botched'
               PROVE  /\ "STOP" \in tsync' \/ bytes' > 0 => asked /\ worker = "main" /\ ~Delivering
                      /\ ~("STOP" \in tsync' /\ bytes' > 0)
                      /\ wpc' \in Ended => asked /\ "STOP" \notin tsync' /\ bytes' = 0 /\ ~Delivering
    BY <1>1, <1>3, <2>1, <2>2, WorkerInsideMain DEF WorkerWorks, FlagsFollowWorker
  <2>3. /\ "STOP" \in tsync \/ bytes > 0 => asked /\ worker = "main" /\ ~Delivering
        /\ ~("STOP" \in tsync /\ bytes > 0)
        /\ wpc \in Ended => asked /\ "STOP" \notin tsync /\ bytes = 0 /\ ~Delivering
        /\ bytes \in Nat
    BY <1>1, <2>1 DEF SyncTypeOK
  <2> HIDE DEF RequestInv, Delivering, EngineInv
  <2> USE DEF WorkerGoes
  <2>4. CASE MainConfigures \/ MainGivesUp BY <2>1, <2>3, <2>4 DEF MainConfigures, MainGivesUp
  <2>5. CASE InitOpensEventFds BY <2>1, <2>3, <2>5 DEF InitOpensEventFds
  <2>6. CASE InitFails BY <2>1, <2>3, <2>6 DEF InitFails
  <2>7. CASE InitAnnounces BY <2>1, <2>3, <2>7 DEF InitAnnounces
  <2>8. CASE RunChecksStop BY <2>1, <2>3, <2>8 DEF RunChecksStop
  <2>9. CASE EventTaskReads BY <1>1, <2>1, <2>3, <2>9 DEF EventTaskReads, SentCountsBytes
  <2>10. CASE EventTaskClears BY <2>1, <2>3, <2>10 DEF EventTaskClears
  <2>11. CASE TasksEnd BY <2>1, <2>3, <2>11 DEF TasksEnd
  <2>12. CASE FiniWithdraws BY <2>1, <2>3, <2>12 DEF FiniWithdraws
  <2>13. CASE FiniCloses BY <2>1, <2>3, <2>13 DEF FiniCloses
  <2> QED BY <1>3, <2>4, <2>5, <2>6, <2>7, <2>8, <2>9, <2>10, <2>11, <2>12, <2>13
          DEF WorkerWorks, WorkerSteps
<1>8. CASE TunDevice /\ UNCHANGED jniVars
  BY <1>1, <1>8 DEF jniVars, TunDevice, TunReadFails, TunReadRecovers, WorkerGoes, FlagsFollowWorker, SyncTypeOK
<1>4. CASE WorkerReturns
  BY <1>1, <1>4 DEF WorkerReturns, MainReturns, WorkerGoes, FlagsFollowWorker
<1>5. CASE WorkerEnds
  BY <1>1, <1>5 DEF WorkerEnds, syncVars, FlagsFollowWorker
<1>6. ASSUME NEW t \in Threads, StartCalled(t) \/ StopCalled(t)
      PROVE  RequestInv'
  BY <1>1, <1>6 DEF StartCalled, StopCalled, syncVars, Goes, TypeOK
<1>7. ASSUME NEW t \in Threads, CallSteps(t)
      PROVE  RequestInv'
  <2> USE DEF Goes, TypeOK, SyncTypeOK, MutexCoversCalls, FlagsFollowWorker
  <2>1. CASE Locks(t) BY <1>1, <2>1 DEF Locks, syncVars
  <2>2. CASE StartChecks(t) BY <1>1, <2>2 DEF StartChecks, syncVars
  <2>3. CASE StartJoins(t) BY <1>1, <2>3 DEF StartJoins, syncVars
  <2>4. CASE StartPrepares(t) BY <1>1, <2>4 DEF StartPrepares, syncVars
  <2>5. CASE StartSpawns(t) BY <1>1, <2>5 DEF StartSpawns, MainEnters, WorkerGoes
  <2>6. CASE StartSpawnFails(t) BY <1>1, <2>6 DEF StartSpawnFails, syncVars
  <2>7. CASE StopChecks(t) BY <1>1, <2>7 DEF StopChecks, syncVars, QuitCalled, QuitGoes
  <2>8. CASE StopJoins(t) BY <1>1, <2>8 DEF StopJoins, syncVars
  <2>9. CASE Returns(t) BY <1>1, <2>9 DEF Returns, syncVars, DonePcs
  <2>10. CASE QuitSteps(t) /\ UNCHANGED jniVars
    <3> USE DEF QuitGoes, jniVars
    <3>1. CASE QuitEnters(t) BY <1>1, <2>10, <3>1 DEF QuitEnters
    <3>2. CASE QuitSends(t) BY <1>1, <2>10, <3>2 DEF QuitSends
    <3>3. CASE QuitWrites(t) BY <1>1, <2>10, <3>3 DEF QuitWrites
    <3>4. CASE QuitLatches(t) BY <1>1, <2>10, <3>4 DEF QuitLatches
    <3>5. CASE QuitLeaves(t) BY <1>1, <2>10, <3>5 DEF QuitLeaves
    <3> QED BY <2>10, <3>1, <3>2, <3>3, <3>4, <3>5 DEF QuitSteps
  <2> QED BY <1>7, <2>1, <2>2, <2>3, <2>4, <2>5, <2>6, <2>7, <2>8, <2>9, <2>10 DEF CallSteps
<1> QED BY <1>2, <1>3, <1>4, <1>5, <1>6, <1>7, <1>8 DEF Next, WorkerProgress

(* What a run owes to the quits: who asked for what, in every state.       *)
THEOREM RequestInvariance == Spec => []RequestInv
BY EngineInit, EngineStep, RequestInit, RequestStep, PTL DEF Spec

(* Until an initialisation has failed, an engine ends only because a quit  *)
(* was called for it: a stop is never inherited from an earlier run.       *)
THEOREM RunEndsOnlyIfAskedTheorem == Spec => RunEndsOnlyIfAsked
<1>1. EngineInv /\ RequestInv /\ [Next]_vars => [RunEnds => asked \/ botched]_vars
  <2> SUFFICES ASSUME EngineInv, RequestInv, Next, RunEnds, ~botched PROVE asked
    BY DEF vars
  <2>1. WorkerSteps
    BY EngineSteps, QuitInsideStop DEF RunEnds, vars, syncVars, EngineInv, SyncInv,
       QuitCalled, MainEnters, MainReturns, WorkerGoes, TunDevice, TunReadFails, TunReadRecovers
  <2>2. CASE RunChecksStop BY <2>2 DEF RunChecksStop, RunEnds, RequestInv
  <2>3. CASE EventTaskReads BY <2>3 DEF EventTaskReads, RequestInv
  <2> QED
    BY <2>1, <2>2, <2>3 DEF WorkerSteps, RunEnds, WorkerGoes, MainConfigures, MainGivesUp,
       InitOpensEventFds, InitFails, InitAnnounces, EventTaskClears, TasksEnd, FiniWithdraws,
       FiniCloses
<1> QED BY EngineInvariance, RequestInvariance, <1>1, PTL DEF Spec, RunEndsOnlyIfAsked

=============================================================================
