----------------------------- MODULE NativeEngine -----------------------------
(***************************************************************************)
(* The JNI layer of the tunnel engine, src/hev-jni.c: TProxyStartService,  *)
(* TProxyStopService and the worker thread they create and join, around    *)
(* the life of hev_socks5_tunnel_main (TunnelSync).                        *)
(***************************************************************************)
EXTENDS TunnelSync

CONSTANT NoThread  \* the owner of a free mutex

ASSUME NoThreadAssumption == NoThread \notin Threads

VARIABLES
    mutex,        \* the thread that holds the JNI mutex, or NoThread
    isRunning,    \* the atomic is_running
    joinable,     \* thread_joinable
    worker,       \* the pthread: "none", "main", "ending", "exited"
    jni,          \* where each thread is in a JNI call
    asked,        \* history: quit was called since the worker was created
    botched       \* history: an initialisation of the engine has failed

history == <<asked, botched>>
jniVars == <<mutex, isRunning, joinable, worker, jni, history>>
vars == <<syncVars, jniVars>>

StartPcs == {"startLock", "startCheck", "startJoin", "startCreate", "startSpawn"}
StopPcs == {"stopLock", "stopCheck", "stopJoin"}
DonePcs == {"startTrue", "startFalse", "stopTrue"}
JniPcs == {"none"} \cup StartPcs \cup StopPcs \cup DonePcs

TypeOK ==
    /\ SyncTypeOK
    /\ mutex \in Threads \cup {NoThread}
    /\ isRunning \in BOOLEAN
    /\ joinable \in BOOLEAN
    /\ worker \in {"none", "main", "ending", "exited"}
    /\ jni \in [Threads -> JniPcs]
    /\ asked \in BOOLEAN /\ botched \in BOOLEAN

Init ==
    /\ SyncInit
    /\ mutex = NoThread
    /\ isRunning = FALSE
    /\ joinable = FALSE
    /\ worker = "none"
    /\ jni = [t \in Threads |-> "none"]
    /\ asked = FALSE /\ botched = FALSE

-----------------------------------------------------------------------------
(* A thread's calls: jni[t] goes from one line to the next *)

Goes(t, from, to) == jni[t] = from /\ jni' = [jni EXCEPT ![t] = to]

StartCalled(t) ==
    /\ Goes(t, "none", "startLock")
    /\ UNCHANGED <<syncVars, mutex, isRunning, joinable, worker, history>>

StopCalled(t) ==
    /\ Goes(t, "none", "stopLock")
    /\ UNCHANGED <<syncVars, mutex, isRunning, joinable, worker, history>>

(* pthread_mutex_lock *)
Locks(t) ==
    /\ mutex = NoThread
    /\ mutex' = t
    /\ Goes(t, "startLock", "startCheck") \/ Goes(t, "stopLock", "stopCheck")
    /\ UNCHANGED <<syncVars, isRunning, joinable, worker, history>>

(* Mutant: the thread of an engine that ended is not joined. *)
StartChecksForgetsJoin(t) ==
    /\ \/ isRunning /\ Goes(t, "startCheck", "startFalse")
       \/ ~isRunning /\ Goes(t, "startCheck", "startCreate")
    /\ UNCHANGED <<syncVars, mutex, isRunning, joinable, worker, history>>

(* native_start_service: refused while an engine runs; the thread of one   *)
(* that ended is joined first.                                             *)
StartChecks(t) ==
    /\ \/ isRunning /\ Goes(t, "startCheck", "startFalse")
       \/ ~isRunning /\ joinable /\ Goes(t, "startCheck", "startJoin")
       \/ ~isRunning /\ ~joinable /\ Goes(t, "startCheck", "startCreate")
    /\ UNCHANGED <<syncVars, mutex, isRunning, joinable, worker, history>>

StartJoins(t) ==
    /\ Goes(t, "startJoin", "startCreate")
    /\ worker = "exited"
    /\ worker' = "none"
    /\ joinable' = FALSE
    /\ UNCHANGED <<syncVars, mutex, isRunning, history>>

(* The thread data is allocated and is_running set, or memory is short. *)
StartPrepares(t) ==
    /\ \/ Goes(t, "startCreate", "startSpawn") /\ isRunning' = TRUE
       \/ Goes(t, "startCreate", "startFalse") /\ UNCHANGED isRunning
    /\ UNCHANGED <<syncVars, mutex, joinable, worker, history>>

(* pthread_create *)
StartSpawns(t) ==
    /\ Goes(t, "startSpawn", "startTrue")
    /\ MainEnters
    /\ worker' = "main"
    /\ joinable' = TRUE
    /\ asked' = FALSE
    /\ UNCHANGED <<mutex, isRunning, botched>>

StartSpawnFails(t) ==
    /\ Goes(t, "startSpawn", "startFalse")
    /\ isRunning' = FALSE
    /\ UNCHANGED <<syncVars, mutex, joinable, worker, history>>

(* Mutant: an engine that says it ended is not joined. *)
StopChecksTrustsFlag(t) ==
    /\ \/ /\ ~isRunning
          /\ Goes(t, "stopCheck", "stopTrue")
          /\ UNCHANGED <<syncVars, history>>
       \/ /\ isRunning
          /\ Goes(t, "stopCheck", "stopJoin")
          /\ QuitCalled(t)
          /\ asked' = TRUE /\ UNCHANGED botched
    /\ UNCHANGED <<mutex, isRunning, joinable, worker>>

(* native_stop_service: nothing to stop, or quit is called if the worker   *)
(* still says it runs, and then the worker is joined with the mutex held.  *)
StopChecks(t) ==
    /\ \/ /\ ~joinable
          /\ Goes(t, "stopCheck", "stopTrue")
          /\ UNCHANGED <<syncVars, history>>
       \/ /\ joinable /\ isRunning
          /\ Goes(t, "stopCheck", "stopJoin")
          /\ QuitCalled(t)
          /\ asked' = TRUE /\ UNCHANGED botched
       \/ /\ joinable /\ ~isRunning
          /\ Goes(t, "stopCheck", "stopJoin")
          /\ UNCHANGED <<syncVars, history>>
    /\ UNCHANGED <<mutex, isRunning, joinable, worker>>

(* Mutant: the worker is detached instead of joined. *)
StopDetaches(t) ==
    /\ quit[t] = "idle"
    /\ Goes(t, "stopJoin", "stopTrue")
    /\ worker' = "none"
    /\ joinable' = FALSE
    /\ isRunning' = FALSE
    /\ UNCHANGED <<syncVars, mutex, history>>

StopJoins(t) ==
    /\ quit[t] = "idle"
    /\ Goes(t, "stopJoin", "stopTrue")
    /\ worker = "exited"
    /\ worker' = "none"
    /\ joinable' = FALSE
    /\ isRunning' = FALSE
    /\ UNCHANGED <<syncVars, mutex, history>>

(* pthread_mutex_unlock and return *)
Returns(t) ==
    /\ \E r \in DonePcs : Goes(t, r, "none")
    /\ mutex' = NoThread
    /\ UNCHANGED <<syncVars, isRunning, joinable, worker, history>>

(* The steps that a call in progress takes by itself. *)
CallSteps(t) ==
    \/ Locks(t)
    \/ StartChecks(t) \/ StartJoins(t) \/ StartPrepares(t)
    \/ StartSpawns(t) \/ StartSpawnFails(t)
    \/ StopChecks(t) \/ StopJoins(t)
    \/ Returns(t)
    \/ QuitSteps(t) /\ UNCHANGED jniVars

-----------------------------------------------------------------------------
(* thread_handler *)

(* hev_socks5_tunnel_main returns and is_running is cleared. *)
WorkerReturns ==
    /\ MainReturns
    /\ worker' = "ending"
    /\ isRunning' = FALSE
    /\ UNCHANGED <<mutex, joinable, jni, history>>

(* It frees its data and exits. *)
WorkerEnds ==
    /\ worker = "ending"
    /\ worker' = "exited"
    /\ UNCHANGED <<syncVars, mutex, isRunning, joinable, jni, history>>

(* A step inside hev_socks5_tunnel_main. *)
WorkerWorks ==
    /\ WorkerSteps
    /\ botched' = (botched \/ (wpc \in {"config", "init", "socket"} /\ wpc' \in {"done", "fini"}))
    /\ UNCHANGED <<mutex, isRunning, joinable, worker, jni, asked>>

WorkerProgress ==
    \/ WorkerWorks
    \/ WorkerReturns
    \/ WorkerEnds

Next ==
    \/ WorkerProgress
    \/ TunDevice /\ UNCHANGED jniVars
    \/ \E t \in Threads : StartCalled(t) \/ StopCalled(t) \/ CallSteps(t)

Spec == Init /\ [][Next]_vars

(* The kernel runs every thread that can run, and the task system gives    *)
(* the event task a turn whenever the io task yields (hence the strong     *)
(* fairness: the turn may come and go).  Calls begin when the caller       *)
(* wishes, and the tun device owes nothing.                                *)
Fairness ==
    /\ SF_vars(WorkerProgress)
    /\ \A t \in Threads : WF_vars(CallSteps(t))

FairSpec == Spec /\ Fairness

-----------------------------------------------------------------------------
(* Properties *)

(* A thread is the worker's only owner from pthread_create to pthread_join *)
(* whatever calls overlap: no pthread_create overwrites work_thread while  *)
(* it is unjoined, and none is joined twice.                               *)
OneWorker ==
    /\ joinable <=> worker # "none"
    /\ \A t \in Threads : jni[t] = "startSpawn" => worker = "none"
    /\ \A t \in Threads : jni[t] = "stopJoin" => worker # "none"

(* The lock-free TProxyIsRunning says no only when no thread is in         *)
(* hev_socks5_tunnel_main any more: cleanupTunnel closes the tun file      *)
(* without stopping the engine when it hears no.                           *)
NotRunningMeansOut == ~isRunning => wpc = "out"

(* When TProxyStopService returns, the worker is gone and with it every    *)
(* use of the tun and of the event descriptors.                            *)
StoppedMeansGone ==
    \A t \in Threads : jni[t] = "stopTrue" =>
        worker = "none" /\ wpc = "out" /\ fds = "none" /\ ~isRunning

(* An engine that was started runs until a quit was called for it, or an   *)
(* error occurs in its initialisation (hev-main.h): no run ends because of *)
(* what happened before it - as long as no initialisation has failed.      *)
RunEnds == wpc \in {"armed", "loop"} /\ wpc' \in {"fini", "event"}
RunEndsOnlyIfAsked == [][RunEnds => asked \/ botched]_vars

(* hev-main.h says it without that exception. *)
EveryRunEndsOnlyIfAsked == [][RunEnds => asked]_vars

(* A stop whose quit finds the event descriptors announced always returns: *)
(* with the JNI mutex held and on the app's main thread, so nothing else   *)
(* starts or stops meanwhile.  Only a tun whose reads fail, and fail again, *)
(* can hold it up: the io task does not yield then.                        *)
ArmedStopReturns ==
    \A t \in Threads :
        (jni[t] = "stopJoin" /\ quit[t] = "enter" /\ "SEND" \in tsync) ~> (jni[t] = "none" \/ wpc = "spin")

(* Whenever a stop finds a worker, the stop returns. *)
StopReturns == \A t \in Threads : jni[t] = "stopCheck" ~> jni[t] = "none"

(* The wait of fini for the quits in progress ends, although new ones may  *)
(* come, and the worker with it.                                           *)
FiniEnds == wpc = "fini" ~> worker = "exited"

(* What makes the safety properties hold.  The mutex covers every call     *)
(* from its lock to its return, and a quit happens only inside a stop.     *)
MutexCoversCalls ==
    /\ \A t \in Threads : jni[t] \notin {"none", "startLock", "stopLock"} <=> mutex = t
    /\ \A t \in Threads : quit[t] # "idle" => jni[t] = "stopJoin"

(* The two flags follow the worker, except while a start has announced a   *)
(* thread it has not created yet.                                          *)
FlagsFollowWorker ==
    /\ joinable <=> worker # "none"
    /\ isRunning <=> worker = "main" \/ \E t \in Threads : jni[t] = "startSpawn"
    /\ worker = "main" <=> wpc # "out"
    /\ \A t \in Threads :
         /\ jni[t] \in {"startCreate", "startSpawn", "stopTrue"} => worker = "none"
         /\ jni[t] = "startJoin" => worker \in {"ending", "exited"}
         /\ jni[t] = "stopJoin" => worker # "none"

EngineInv == TypeOK /\ SyncInv /\ MutexCoversCalls /\ FlagsFollowWorker

(* Before the first failed initialisation, every request belongs to the    *)
(* worker that is there: a quit that is still to be delivered, the latched *)
(* SYNC_STOP and the unread byte exclude each other, and are gone when     *)
(* the run ends.                                                           *)
Delivering == \E t \in Threads : quit[t] \in QuitPcs \ {"idle", "leave"}
Ended == {"event", "drain", "fini", "close", "done"}

RequestInv ==
    /\ (\E t \in Threads : quit[t] # "idle") => asked
    /\ asked /\ worker # "none" => \E t \in Threads : jni[t] = "stopJoin"
    /\ ~botched =>
         /\ "STOP" \in tsync \/ bytes > 0 => asked /\ worker = "main" /\ ~Delivering
         /\ ~("STOP" \in tsync /\ bytes > 0)
         /\ wpc \in Ended \/ worker \in {"ending", "exited"} =>
              asked /\ "STOP" \notin tsync /\ bytes = 0 /\ ~Delivering

(* Each call takes effect at one instant between its call and its return.  *)
Phase == IF worker = "none" THEN "idle" ELSE IF isRunning THEN "live" ELSE "over"

CallOf(pc) ==
    IF pc \in StartPcs THEN "start" ELSE IF pc \in StopPcs THEN "stop" ELSE pc

Engine == INSTANCE EngineSpec WITH phase <- Phase, call <- [t \in Threads |-> CallOf(jni[t])]

ImplementsEngineSpec == Engine!Spec

=============================================================================
