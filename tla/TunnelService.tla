----------------------------- MODULE TunnelService -----------------------------
(***************************************************************************)
(* The app around the engine: AiUnblockVpnService, TunnelStateStore and    *)
(* the switch of MainActivity, with the parts of Android that call them.   *)
(*                                                                         *)
(* Three kinds of threads meet here.  The main thread runs one handler at  *)
(* a time (onStartCommand, onDestroy, the activity's callbacks).  A binder *)
(* thread runs onRevoke when the system takes the VPN away.  The scheduler *)
(* thread of each GatewaySelector runs onSelectionUpdated.  A handler      *)
(* takes one step per statement that touches what another thread may use.  *)
(*                                                                         *)
(* Everything one successful or failed startTunnel creates carries the     *)
(* number of that session; 0 is null.  The engine is EngineSpec's: running *)
(* on the tun of one session or not running.                               *)
(***************************************************************************)
EXTENDS Naturals, Sequences

CONSTANTS
    MaxCalls,      \* bound: startService calls of the user and the system
    MaxInstances,  \* bound: service objects that Android creates
    MaxCrashes,    \* bound: deaths of the process
    Events         \* what else may happen: see Happens

ASSUME BoundsAssumption ==
    /\ MaxCalls \in Nat /\ MaxInstances \in Nat \ {0} /\ MaxCrashes \in Nat

Happens == {"dialog",      \* Android has to ask the user for a permission
            "external",    \* a start by the system: always-on or sticky restart
            "revoke",      \* another app or the settings take the VPN away
            "overlap",     \* ... even while startTunnel is at work
            "callback",    \* a selector finishes a refresh
            "late",        \* ... and says On for a tunnel that is down by now
            "engineEnds",  \* the engine's worker ends by itself
            "failures"}    \* a step of startTunnel fails

ASSUME EventsAssumption == Events \subseteq Happens

(* A session is made by a CONNECT, and a CONNECT by a call or a restart. *)
Sessions == 1 .. MaxCalls + MaxCrashes
Counts == 0 .. MaxCalls + MaxCrashes
Instances == 1 .. MaxInstances
Resources == {"sel", "relay", "tun"}
Threads == {"main", "binder"}

VARIABLES
    store,     \* TunnelStateStore: the phase, and the session whose summary it shows
    field,     \* per service object: gatewaySelector, socksRelay, tunInterface
    open,      \* per resource: the sessions whose selector, relay, tun is not closed
    engine,    \* the session whose tun the engine runs on
    died,      \* it has ended by itself, and nobody has stopped or started it since
    owner,     \* per session: the service object that made it
    scheduled, \* the sessions whose selector was started
    callback,  \* per session: where its onSelectionUpdated is
    thread,    \* per thread: statement, service object, session, why it cleans up
    sessions,  \* sessions created so far
    queue,     \* messages waiting for the main thread
    ams,       \* what the activity manager knows of the service
    dialog,    \* the activity waits for a permission dialog
    calls,     \* startService calls so far
    crashes    \* process deaths so far

appVars == <<store, field, open, engine, died, owner, scheduled, callback, thread, sessions>>
systemVars == <<queue, ams, dialog, calls, crashes>>
vars == <<appVars, systemVars>>

CleanupPcs == {"closeSel", "nullSel", "stopEngine", "closeTun", "nullTun",
               "closeRelay", "nullRelay"}
StartPcs == {"guard", "starting", "newSel", "setSel", "newRelay", "setRelay",
             "newTun", "setTun", "getFd", "startEngine", "on", "startSel"}
EndPcs == {"off", "error", "stopSelf"}

Phases == {"Off", "Starting", "On", "Error"}
State(p, k) == [phase |-> p, session |-> k]

NoResources == [r \in Resources |-> 0]
Resting == [pc |-> "idle", inst |-> 0, session |-> 0, then |-> "off"]

TypeOK ==
    /\ store \in [phase : Phases, session : Counts]
    /\ field \in [Instances -> [Resources -> Counts]]
    /\ open \in [Resources -> SUBSET Sessions]
    /\ engine \in Counts
    /\ died \in BOOLEAN
    /\ owner \in [Sessions -> 0 .. MaxInstances]
    /\ scheduled \subseteq Sessions
    /\ callback \in [Sessions -> {"none", "entered", "seen"}]
    /\ thread \in [Threads -> [pc : {"idle"} \cup CleanupPcs \cup StartPcs \cup EndPcs,
                               inst : 0 .. MaxInstances, session : Counts,
                               then : {"off", "error"}]]
    /\ sessions \in Counts
    /\ queue \in Seq([kind : {"CONNECT", "DISCONNECT", "DESTROY"}, inst : Instances])
    /\ ams \in [inst : 0 .. MaxInstances, alive : BOOLEAN, started : BOOLEAN,
                bound : BOOLEAN, sticky : BOOLEAN, notified : BOOLEAN]
    /\ dialog \in BOOLEAN
    /\ calls \in 0 .. MaxCalls
    /\ crashes \in 0 .. MaxCrashes

Init ==
    /\ store = State("Off", 0)
    /\ field = [i \in Instances |-> NoResources]
    /\ open = [r \in Resources |-> {}]
    /\ engine = 0 /\ died = FALSE
    /\ owner = [k \in Sessions |-> 0]
    /\ scheduled = {}
    /\ callback = [k \in Sessions |-> "none"]
    /\ thread = [t \in Threads |-> Resting]
    /\ sessions = 0
    /\ queue = <<>>
    /\ ams = [inst |-> 0, alive |-> FALSE, started |-> FALSE, bound |-> FALSE,
              sticky |-> TRUE, notified |-> FALSE]
    /\ dialog = FALSE
    /\ calls = 0
    /\ crashes = 0

-----------------------------------------------------------------------------
(* Android's side (external) *)

(* The service object is created when a call finds none. *)
CanDeliver == ams.alive \/ ams.inst < MaxInstances
Reached == IF ams.alive THEN ams.inst ELSE ams.inst + 1
Message(kind, i) == [kind |-> kind, inst |-> i]

(* startService: the message goes to the main thread. *)
Delivers(kind) ==
    /\ CanDeliver
    /\ queue' = Append(queue, Message(kind, Reached))
    /\ ams' = [ams EXCEPT !.inst = Reached, !.alive = TRUE, !.started = TRUE,
                          !.sticky = ams.alive => @]

(* Always-on VPN, or the restart of a sticky service: a null intent, which *)
(* onStartCommand treats as CONNECT.                                       *)
SystemStarts ==
    /\ "external" \in Events /\ calls < MaxCalls
    /\ Delivers("CONNECT")
    /\ calls' = calls + 1
    /\ UNCHANGED <<appVars, dialog, crashes>>

(* The binding of the system ends after the last interface is closed. *)
SystemUnbinds ==
    /\ ams.bound /\ open["tun"] = {}
    /\ ams' = [ams EXCEPT !.bound = FALSE]
    /\ UNCHANGED <<appVars, queue, dialog, calls, crashes>>

(* A service that is neither started nor bound is destroyed: its onDestroy *)
(* waits its turn on the main thread.                                      *)
SystemDestroys ==
    /\ ams.alive /\ ~ams.started /\ ~ams.bound
    /\ ams' = [ams EXCEPT !.alive = FALSE, !.notified = FALSE]
    /\ queue' = Append(queue, Message("DESTROY", ams.inst))
    /\ UNCHANGED <<appVars, dialog, calls, crashes>>

(* The process dies with all it holds; a started sticky service comes back *)
(* with a null intent.                                                     *)
ProcessDies ==
    /\ crashes < MaxCrashes
    /\ crashes' = crashes + 1
    /\ LET back == ams.alive /\ ams.started /\ ams.sticky /\ ams.inst < MaxInstances
       IN  /\ queue' = IF back THEN <<Message("CONNECT", ams.inst + 1)>> ELSE <<>>
           /\ ams' = [ams EXCEPT !.inst = IF back THEN @ + 1 ELSE @, !.alive = back,
                                 !.started = back, !.bound = FALSE, !.sticky = TRUE,
                                 !.notified = FALSE]
    /\ store' = State("Off", 0)
    /\ field' = [i \in Instances |-> NoResources]
    /\ open' = [r \in Resources |-> {}]
    /\ engine' = 0 /\ died' = FALSE
    /\ owner' = [k \in Sessions |-> 0]
    /\ scheduled' = {}
    /\ callback' = [k \in Sessions |-> "none"]
    /\ thread' = [t \in Threads |-> Resting]
    /\ dialog' = FALSE
    /\ UNCHANGED <<sessions, calls>>

(* The "off" button of the notification that startInForeground shows. *)
NotificationStops ==
    /\ ams.notified /\ calls < MaxCalls
    /\ Delivers("DISCONNECT")
    /\ calls' = calls + 1
    /\ UNCHANGED <<appVars, dialog, crashes>>

-----------------------------------------------------------------------------
(* MainActivity: callbacks on the main thread, between two handlers *)

MainIdle == thread["main"].pc = "idle"

(* onToggle while the state is On or Starting: stopVpnService. *)
ToggleOff ==
    /\ MainIdle /\ ~dialog /\ calls < MaxCalls
    /\ store.phase \in {"On", "Starting"}
    /\ Delivers("DISCONNECT")
    /\ calls' = calls + 1
    /\ UNCHANGED <<appVars, dialog, crashes>>

(* onToggle otherwise: the permissions are asked for, and the answer comes *)
(* to a later callback.                                                    *)
ToggleOn ==
    /\ "dialog" \in Events
    /\ MainIdle /\ ~dialog /\ calls < MaxCalls
    /\ store.phase \notin {"On", "Starting"}
    /\ dialog' = TRUE
    /\ UNCHANGED <<appVars, queue, ams, calls, crashes>>

(* startVpnService: at once if the permissions are there, or by the        *)
(* dialog's result, whatever the state has become meanwhile.               *)
StartVpnService ==
    /\ MainIdle /\ calls < MaxCalls
    /\ dialog \/ store.phase \notin {"On", "Starting"}
    /\ dialog' = FALSE
    /\ store' = State("Starting", 0)
    /\ Delivers("CONNECT")
    /\ calls' = calls + 1
    /\ UNCHANGED <<field, open, engine, died, owner, scheduled, callback, thread, sessions, crashes>>

PermissionDenied ==
    /\ MainIdle /\ dialog
    /\ dialog' = FALSE
    /\ UNCHANGED <<appVars, queue, ams, calls, crashes>>

-----------------------------------------------------------------------------
(* AiUnblockVpnService: the handlers *)

At(t, pc) == thread[t].pc = pc
Goes(t, pc) == thread' = [thread EXCEPT ![t].pc = pc]
Enters(t, pc, i, then) ==
    thread' = [thread EXCEPT ![t] = [pc |-> pc, inst |-> i, session |-> 0, then |-> then]]

StartInProgress == thread["main"].pc \in StartPcs
Overlaps == "overlap" \in Events

(* The main thread takes the next message: onStartCommand, which shows the *)
(* notification before startTunnel, or onDestroy.                          *)
MainTakes ==
    /\ MainIdle /\ queue # <<>>
    /\ Overlaps \/ At("binder", "idle") \/ Head(queue).kind # "CONNECT"
    /\ queue' = Tail(queue)
    /\ LET m == Head(queue)
       IN  /\ Enters("main", IF m.kind = "CONNECT" THEN "guard" ELSE "closeSel", m.inst, "off")
           /\ ams' = IF m.kind = "DESTROY" THEN ams
                     ELSE [ams EXCEPT !.sticky = m.kind = "CONNECT",
                                      !.notified = @ \/ m.kind = "CONNECT"]
    /\ UNCHANGED <<store, field, open, engine, died, owner, scheduled, callback, sessions, dialog, calls, crashes>>

(* onRevoke arrives on a binder thread; the system lets go of the service. *)
Revokes ==
    /\ "revoke" \in Events
    /\ ams.bound /\ At("binder", "idle")
    /\ Overlaps \/ ~StartInProgress
    /\ ams' = [ams EXCEPT !.bound = FALSE]
    /\ Enters("binder", "closeSel", ams.inst, "off")
    /\ UNCHANGED <<store, field, open, engine, died, owner, scheduled, callback, sessions, queue, dialog, calls, crashes>>

(* startTunnel, statement by statement, on the main thread *)

(* Mutant of Fails: the catch forgets cleanupTunnel. *)
FailsWithoutCleanup ==
    /\ "failures" \in Events
    /\ thread' = [thread EXCEPT !["main"].pc = "error", !["main"].then = "error"]

Fails == /\ "failures" \in Events
         /\ thread' = [thread EXCEPT !["main"].pc = "closeSel", !["main"].then = "error"]

(* Mutant of StartGuard: only the engine is looked at. *)
StartGuardIgnoresTun ==
    /\ At("main", "guard")
    /\ Goes("main", IF engine # 0 THEN "idle" ELSE "starting")
    /\ UNCHANGED <<store, field, open, engine, died, owner, scheduled, callback, sessions, systemVars>>

StartGuard ==
    /\ At("main", "guard")
    /\ LET up == field[thread["main"].inst]["tun"] # 0 \/ engine # 0
       IN  Goes("main", IF up THEN "idle" ELSE "starting")
    /\ UNCHANGED <<store, field, open, engine, died, owner, scheduled, callback, sessions, systemVars>>

StartAnnounces ==
    /\ At("main", "starting")
    /\ store' = State("Starting", 0)
    /\ Goes("main", "newSel")
    /\ UNCHANGED <<field, open, engine, died, owner, scheduled, callback, sessions, systemVars>>

(* GatewaySelector(...), unless no selected package is installed. *)
StartMakesSelector ==
    /\ At("main", "newSel")
    /\ \/ LET k == sessions + 1
           IN  /\ sessions' = k
               /\ thread' = [thread EXCEPT !["main"].pc = "setSel", !["main"].session = k]
               /\ open' = [open EXCEPT !["sel"] = @ \cup {k}]
               /\ owner' = [owner EXCEPT ![k] = thread["main"].inst]
       \/ Fails /\ UNCHANGED <<sessions, open, owner>>
    /\ UNCHANGED <<store, field, engine, died, scheduled, callback, systemVars>>

(* relay.start () *)
StartOpensRelay ==
    /\ At("main", "newRelay")
    /\ \/ /\ open' = [open EXCEPT !["relay"] = @ \cup {thread["main"].session}]
          /\ Goes("main", "setRelay")
       \/ Fails /\ UNCHANGED open
    /\ UNCHANGED <<store, field, engine, died, owner, scheduled, callback, sessions, systemVars>>

(* builder.establish (): the system binds the service as long as there is  *)
(* an interface.                                                           *)
StartEstablishes ==
    /\ At("main", "newTun")
    /\ \/ /\ open' = [open EXCEPT !["tun"] = @ \cup {thread["main"].session}]
          /\ ams' = IF CanDeliver
                    THEN [ams EXCEPT !.bound = TRUE, !.alive = TRUE, !.inst = Reached]
                    ELSE [ams EXCEPT !.bound = TRUE]
          /\ Goes("main", "setTun")
       \/ Fails /\ UNCHANGED <<open, ams>>
    /\ UNCHANGED <<store, field, engine, died, owner, scheduled, callback, sessions, queue, dialog, calls, crashes>>

(* gatewaySelector = selector, socksRelay = relay, tunInterface = established *)
SetBy == [setSel |-> "sel", setRelay |-> "relay", setTun |-> "tun"]
AfterSet == [setSel |-> "newRelay", setRelay |-> "newTun", setTun |-> "getFd"]

StartSets ==
    /\ thread["main"].pc \in DOMAIN SetBy
    /\ LET pc == thread["main"].pc
       IN  /\ field' = [field EXCEPT ![thread["main"].inst][SetBy[pc]] = thread["main"].session]
           /\ Goes("main", AfterSet[pc])
    /\ UNCHANGED <<store, open, engine, died, owner, scheduled, callback, sessions, systemVars>>

(* The configuration is written and established.fd read, which throws if   *)
(* the interface has been closed.                                          *)
StartGetsFd ==
    /\ At("main", "getFd")
    /\ IF thread["main"].session \in open["tun"]
       THEN Goes("main", "startEngine")
       ELSE thread' = [thread EXCEPT !["main"].pc = "closeSel", !["main"].then = "error"]
    /\ UNCHANGED <<store, field, open, engine, died, owner, scheduled, callback, sessions, systemVars>>

(* Mutant of StartEngine: the result of TProxyStartService is ignored. *)
StartEngineUnchecked ==
    /\ At("main", "startEngine")
    /\ engine' \in {engine, thread["main"].session}
    /\ Goes("main", "on")
    /\ UNCHANGED <<store, field, open, died, owner, scheduled, callback, sessions, systemVars>>

(* TProxyStartService: Start of EngineSpec, or Refuse. *)
StartEngine ==
    /\ At("main", "startEngine")
    /\ \/ engine = 0 /\ engine' = thread["main"].session /\ died' = FALSE /\ Goes("main", "on")
       \/ engine # 0 /\ UNCHANGED <<engine, died>>
          /\ thread' = [thread EXCEPT !["main"].pc = "closeSel", !["main"].then = "error"]
       \/ Fails /\ UNCHANGED <<engine, died>>
    /\ UNCHANGED <<store, field, open, owner, scheduled, callback, sessions, systemVars>>

(* Mutant of StartSucceeds: On is left to the first refresh. *)
StartSucceedsSilently ==
    /\ At("main", "on")
    /\ Goes("main", "startSel")
    /\ UNCHANGED <<store, field, open, engine, died, owner, scheduled, callback, sessions, systemVars>>

StartSucceeds ==
    /\ At("main", "on")
    /\ store' = State("On", thread["main"].session)
    /\ Goes("main", "startSel")
    /\ UNCHANGED <<field, open, engine, died, owner, scheduled, callback, sessions, systemVars>>

(* selector.start (), which a closed selector ignores. *)
StartsSelector ==
    /\ At("main", "startSel")
    /\ scheduled' = scheduled \cup ({thread["main"].session} \cap open["sel"])
    /\ Goes("main", "idle")
    /\ UNCHANGED <<store, field, open, engine, died, owner, callback, sessions, systemVars>>

(* cleanupTunnel, statement by statement, on any thread *)

ClosedBy == [closeSel |-> "sel", closeTun |-> "tun", closeRelay |-> "relay"]
NulledBy == [nullSel |-> "sel", nullTun |-> "tun", nullRelay |-> "relay"]

(* Mutants of AfterCleanup: the tun is closed before the engine stops; the *)
(* relay is forgotten.                                                     *)
AfterCleanupTunFirst(t) ==
    [closeSel |-> "nullSel", nullSel |-> "closeTun", closeTun |-> "nullTun",
     nullTun |-> "stopEngine", stopEngine |-> "closeRelay", closeRelay |-> "nullRelay",
     nullRelay |-> thread[t].then]
AfterCleanupNoRelay(t) ==
    [closeSel |-> "nullSel", nullSel |-> "stopEngine", stopEngine |-> "closeTun",
     closeTun |-> "nullTun", nullTun |-> "nullRelay", closeRelay |-> "nullRelay",
     nullRelay |-> thread[t].then]

AfterCleanup(t) == [closeSel |-> "nullSel", nullSel |-> "stopEngine", stopEngine |-> "closeTun",
                    closeTun |-> "nullTun", nullTun |-> "closeRelay", closeRelay |-> "nullRelay",
                    nullRelay |-> thread[t].then]

Advances(t) == Goes(t, AfterCleanup(t)[thread[t].pc])

(* gatewaySelector?.close(), tunInterface?.close(), socksRelay?.close() *)
Closes(t) ==
    /\ thread[t].pc \in DOMAIN ClosedBy
    /\ LET r == ClosedBy[thread[t].pc]
       IN  open' = [open EXCEPT ![r] = @ \ {field[thread[t].inst][r]}]
    /\ Advances(t)
    /\ UNCHANGED <<store, field, engine, died, owner, scheduled, callback, sessions, systemVars>>

(* ... and the field becomes null. *)
Nulls(t) ==
    /\ thread[t].pc \in DOMAIN NulledBy
    /\ field' = [field EXCEPT ![thread[t].inst][NulledBy[thread[t].pc]] = 0]
    /\ Advances(t)
    /\ UNCHANGED <<store, open, engine, died, owner, scheduled, callback, sessions, systemVars>>

(* TProxyStopService, if TProxyIsRunning: Stop of EngineSpec. *)
StopsEngine(t) ==
    /\ At(t, "stopEngine")
    /\ engine' = 0 /\ died' = FALSE
    /\ Advances(t)
    /\ UNCHANGED <<store, field, open, owner, scheduled, callback, sessions, systemVars>>

(* stopTunnel announces Off; the catch of startTunnel announces Error. *)
Announces(t) ==
    /\ thread[t].pc \in {"off", "error"}
    /\ store' = State(IF At(t, "off") THEN "Off" ELSE "Error", 0)
    /\ Goes(t, "stopSelf")
    /\ UNCHANGED <<field, open, engine, died, owner, scheduled, callback, sessions, systemVars>>

(* stopForeground and stopSelf (): not started any more, whatever starts   *)
(* are on their way.                                                       *)
StopsSelf(t) ==
    /\ At(t, "stopSelf")
    /\ ams' = IF ams.alive /\ ams.inst = thread[t].inst
              THEN [ams EXCEPT !.started = FALSE, !.notified = FALSE] ELSE ams
    /\ Goes(t, "idle")
    /\ UNCHANGED <<store, field, open, engine, died, owner, scheduled, callback, sessions, queue, dialog, calls, crashes>>

-----------------------------------------------------------------------------
(* The scheduler thread of session k's selector *)

(* The refresh is done and finds the selector not closed. *)
CallbackEnters(k) ==
    /\ "callback" \in Events
    /\ k \in scheduled /\ k \in open["sel"] /\ callback[k] = "none"
    /\ callback' = [callback EXCEPT ![k] = "entered"]
    /\ UNCHANGED <<store, field, open, engine, died, owner, scheduled, thread, sessions, systemVars>>

(* The service object's tunInterface is looked at. *)
CallbackLooks(k) ==
    /\ callback[k] = "entered"
    /\ callback' = [callback EXCEPT ![k] =
                       IF field[owner[k]]["tun"] # 0 THEN "seen" ELSE "none"]
    /\ UNCHANGED <<store, field, open, engine, died, owner, scheduled, thread, sessions, systemVars>>

(* onSelectionUpdated says On.  By then the tunnel it looked at may be     *)
(* down, or replaced by another session's: such a callback is late.        *)
CallbackUpdates(k) ==
    /\ callback[k] = "seen"
    /\ "late" \in Events \/ field[owner[k]]["tun"] = k
    /\ callback' = [callback EXCEPT ![k] = "none"]
    /\ store' = State("On", k)
    /\ UNCHANGED <<field, open, engine, died, owner, scheduled, thread, sessions, systemVars>>

(* End of EngineSpec: the worker ends by itself and nobody is told.        *)
EngineEnds ==
    /\ "engineEnds" \in Events
    /\ engine # 0
    /\ engine' = 0 /\ died' = TRUE
    /\ UNCHANGED <<store, field, open, owner, scheduled, callback, thread, sessions, systemVars>>

-----------------------------------------------------------------------------
StartSteps ==
    \/ StartGuard \/ StartAnnounces \/ StartMakesSelector \/ StartOpensRelay
    \/ StartEstablishes \/ StartSets \/ StartGetsFd \/ StartEngine \/ StartSucceeds \/ StartsSelector

StopSteps(t) == Closes(t) \/ Nulls(t) \/ StopsEngine(t) \/ Announces(t) \/ StopsSelf(t)

User == NotificationStops \/ ToggleOff \/ ToggleOn \/ StartVpnService \/ PermissionDenied
System == SystemStarts \/ SystemUnbinds \/ SystemDestroys \/ ProcessDies \/ Revokes

Next ==
    \/ MainTakes \/ StartSteps \/ \E t \in Threads : StopSteps(t)
    \/ \E k \in Sessions : CallbackEnters(k) \/ CallbackLooks(k) \/ CallbackUpdates(k)
    \/ EngineEnds
    \/ User \/ System

Spec == Init /\ [][Next]_vars

(* Threads run, messages are taken, and the activity manager does what it  *)
(* has decided; users, crashes and refreshes owe nothing.                  *)
Fairness ==
    /\ WF_vars(MainTakes) /\ WF_vars(StartSteps)
    /\ \A t \in Threads : WF_vars(StopSteps(t))
    /\ \A k \in Sessions : WF_vars(CallbackLooks(k) \/ CallbackUpdates(k))
    /\ WF_vars(SystemUnbinds) /\ WF_vars(SystemDestroys)

FairSpec == Spec /\ Fairness

-----------------------------------------------------------------------------
(* Properties *)

DestroyWaits(i) == \E n \in DOMAIN queue : queue[n] = Message("DESTROY", i)
AtRest == /\ \A t \in Threads : At(t, "idle")
          /\ \A i \in Instances : ~DestroyWaits(i)

(* Once the state says that the VPN is off or has failed, and no handler   *)
(* is at work and no onDestroy on its way, nothing of any session is left: *)
(* no engine, no tun that swallows the chosen apps' traffic, no listening  *)
(* relay, no selector that goes on probing.                                *)
DownMeansReleased ==
    AtRest /\ store.phase \in {"Off", "Error"} =>
        engine = 0 /\ \A r \in Resources : open[r] = {}

(* Once the state says On, it is true, whichever of startTunnel and the    *)
(* refreshes said so last: the session whose summary is shown has its tun, *)
(* its relay, its selector and an engine that runs on its tun, unless the  *)
(* engine has ended by itself (nobody is told of that).                    *)
OnIsBacked ==
    AtRest /\ store.phase = "On" =>
        /\ engine = store.session \/ died
        /\ \A r \in Resources : open[r] = {store.session}

(* The engine reads and writes a tun that is open, always: startTunnel and *)
(* cleanupTunnel order the two, in whatever order the handlers come.       *)
EngineOnOpenTun == engine # 0 => engine \in open["tun"]

(* Sessions do not overlap, even over crashes, restarts of the service and *)
(* starts that fail half-way: what a new one opens is all there is.        *)
OneSession == \A r \in Resources : \A j, k \in open[r] : j = k

(* Nothing open is lost: whatever is not closed yet can be found in a      *)
(* field of the living service object, of one whose onDestroy is still to  *)
(* come, or in the hands of a handler that is about to store or close it.  *)
NothingLost ==
    \A r \in Resources : \A k \in open[r] :
        \/ thread["main"].session = k /\ thread["main"].pc \in {s \in DOMAIN SetBy : SetBy[s] = r}
        \/ \E i \in Instances :
              /\ field[i][r] = k
              /\ \/ ams.alive /\ ams.inst = i
                 \/ DestroyWaits(i)
                 \/ \E t \in Threads : thread[t].inst = i /\ ~At(t, "idle")

(* "Connecting" does not last: the start it announces succeeds or fails. *)
StartingResolves == store.phase = "Starting" ~> store.phase # "Starting"

=============================================================================
