---------------------------- MODULE TunnelSessions ----------------------------
(***************************************************************************)
(* What runs inside hev_socks5_tunnel_run: the cooperative tasks of the    *)
(* engine and the set of its sessions, src/hev-socks5-tunnel.c,            *)
(* src/hev-socks5-session.c and the frames of their TCP and UDP splices.   *)
(*                                                                         *)
(* One task runs at a time and keeps the processor until it yields: turn   *)
(* names it, or is "none" while the scheduler chooses.  The io task hands  *)
(* packets to lwIP, whose callbacks make sessions, wake them or take their *)
(* pcb away.  A session ends because its splice does, because a wait takes *)
(* longer than its timeout, or because it is terminated: its timeout       *)
(* becomes 0, which every later wait notices.                              *)
(*                                                                         *)
(* Allocations succeed here.                                               *)
(***************************************************************************)
EXTENDS Integers, Sequences, SequencesExt

CONSTANTS
    Sessions,     \* the sessions that may come, each one once
    TcpSessions,  \* those of them that are TCP
    MaxSessions   \* max-session-count; 0 means unlimited

ASSUME KindAssumption ==
    TcpSessions \subseteq Sessions /\ Sessions \cap {"event", "io", "timer", "none"} = {}

(* With a limit of 1 the session that is being inserted is the first of    *)
(* the set, and waking its task, which has not been run yet, aborts.       *)
ASSUME LimitAssumption == MaxSessions \in Nat \ {1}

VARIABLES
    run,          \* the engine's run flag
    sessions,     \* session_set, least recently active first
    place,        \* where the task of each session is
    timeout,      \* -1 none, 0 terminated, 1 a time
    pcb,          \* the sessions that have an lwIP pcb
    event,        \* what event_task waits for
    task,         \* the state of every task
    turn          \* the task that runs

sessionVars == <<run, sessions, place, timeout, pcb, event, task, turn>>

Tasks == Sessions \cup {"event", "io", "timer"}

Places == {"unborn", "born", "connect", "handshake", "splice", "drain", "leave", "dead"}

SessionsInit ==
    /\ run = TRUE
    /\ sessions = <<>>
    /\ place = [s \in Sessions |-> "unborn"]
    /\ timeout = [s \in Sessions |-> -1]
    /\ pcb = {}
    /\ event = "byte"
    /\ task = [t \in Tasks |-> IF t \in Sessions THEN "stopped"
                               ELSE IF t = "event" THEN "waiting" ELSE "ready"]
    /\ turn = "none"

-----------------------------------------------------------------------------
(* Tasks and the timeout of a session *)

Asleep(t) == task[t] \in {"waiting", "sleeping"}

(* hev_task_wakeup of every task in T: those that run are skipped. *)
Woken(T) == [t \in Tasks |-> IF t \in T /\ Asleep(t) THEN "ready" ELSE task[t]]

(* Task t gives the processor back and is then in state st. *)
Yields(t, st) == turn = t /\ turn' = "none" /\ task' = [task EXCEPT ![t] = st]

Goes(s, to) == place' = [place EXCEPT ![s] = to]

(* hev_socks5_set_timeout: a timeout of 0 stays. *)
SetTimeout(old, new) == IF old = 0 THEN 0 ELSE new

(* Mutant: the task of a terminated session is not woken. *)
TerminateSilently(T, woken) ==
    /\ timeout' = [s \in Sessions |-> IF s \in T THEN 0 ELSE timeout[s]]
    /\ task' = Woken(woken)

(* hev_socks5_session_terminate of the sessions in T, while other tasks    *)
(* are woken as well.                                                      *)
Terminate(T, woken) ==
    /\ timeout' = [s \in Sessions |-> IF s \in T THEN SetTimeout(timeout[s], 0) ELSE timeout[s]]
    /\ task' = Woken(T \cup woken)

-----------------------------------------------------------------------------
(* The io task: packets of one slice, then a wait *)

(* A wait of the io task ends, or the scheduler takes it: the loop goes on *)
(* while run is set, otherwise the task ends and wakes who joins it.       *)
IoRuns ==
    /\ turn = "none" /\ task["io"] = "ready"
    /\ \/ run /\ turn' = "io" /\ UNCHANGED task
       \/ ~run /\ task' = [Woken(IF event = "io" THEN {"event"} ELSE {}) EXCEPT !["io"] = "stopped"]
               /\ UNCHANGED turn
    /\ UNCHANGED <<run, sessions, place, timeout, pcb, event>>

(* The tun has no more packets. *)
IoWaits == Yields("io", "waiting") /\ UNCHANGED <<run, sessions, place, timeout, pcb, event>>

TunReadable ==
    /\ turn = "none" /\ task["io"] = "waiting"
    /\ task' = Woken({"io"})
    /\ UNCHANGED <<run, sessions, place, timeout, pcb, event, turn>>

(* hev_socks5_tunnel_insert_session's victim: the first of the set, which  *)
(* may have been terminated before.                                        *)
Victim(set) == IF MaxSessions > 0 /\ Len(set) >= MaxSessions THEN {Head(set)} ELSE {}

(* Mutant: the timer task is not told of the new session. *)
AcceptForgetsTimer(s) ==
    /\ turn = "io" /\ place[s] = "unborn"
    /\ sessions' = Append(sessions, s)
    /\ Goes(s, "born")
    /\ pcb' = pcb \cup {s}
    /\ timeout' = [v \in Sessions |-> IF v \in Victim(sessions') THEN 0 ELSE timeout[v]]
    /\ task' = [Woken(Victim(sessions')) EXCEPT ![s] = "ready"]
    /\ UNCHANGED <<run, event, turn>>

(* tcp_accept_handler and udp_recv_handler: a session, its task, its place *)
(* in the set, the limit, and the timer task.                              *)
Accept(s) ==
    /\ turn = "io" /\ place[s] = "unborn"
    /\ sessions' = Append(sessions, s)
    /\ Goes(s, "born")
    /\ pcb' = pcb \cup {s}
    /\ timeout' = [v \in Sessions |-> IF v \in Victim(sessions') THEN 0 ELSE timeout[v]]
    /\ task' = [Woken(Victim(sessions') \cup {"timer"}) EXCEPT ![s] = "ready"]
    /\ UNCHANGED <<run, event, turn>>

(* tcp_recv_handler, tcp_sent_handler, udp_recv_handler of a session. *)
TunData(s) ==
    /\ turn = "io" /\ s \in pcb
    /\ Asleep(s)
    /\ task' = Woken({s})
    /\ UNCHANGED <<run, sessions, place, timeout, pcb, event, turn>>

(* tcp_err_handler, called by lwIP for a reset of the peer ... *)
TunReset(s) ==
    /\ turn = "io" /\ s \in pcb \cap TcpSessions
    /\ pcb' = pcb \ {s}
    /\ Terminate({s}, {})
    /\ UNCHANGED <<run, sessions, place, event, turn>>

(* ... and by the timers of lwIP for the connections in lost.              *)
(* lwip_timer_task_entry: while run is set, a tick and then a sleep if     *)
(* there are sessions, or a wait until somebody wakes the task.            *)
TimerRuns(lost) ==
    /\ turn = "none" /\ task["timer"] = "ready"
    /\ IF run
       THEN /\ pcb' = pcb \ lost
            /\ timeout' = [s \in Sessions |-> IF s \in lost THEN 0 ELSE timeout[s]]
            /\ task' = [Woken(lost) EXCEPT !["timer"] = IF sessions = <<>> THEN "waiting" ELSE "sleeping"]
       ELSE /\ lost = {}
            /\ task' = [Woken(IF event = "timer" THEN {"event"} ELSE {}) EXCEPT !["timer"] = "stopped"]
            /\ UNCHANGED <<pcb, timeout>>
    /\ UNCHANGED <<run, sessions, place, event, turn>>

TimerTicks ==
    /\ turn = "none" /\ task["timer"] = "sleeping"
    /\ task' = Woken({"timer"})
    /\ UNCHANGED <<run, sessions, place, timeout, pcb, event, turn>>

-----------------------------------------------------------------------------
(* The event task *)

(* The byte of a quit is in the event socket. *)
StopAsked ==
    /\ turn = "none" /\ event = "byte" /\ task["event"] = "waiting"
    /\ task' = Woken({"event"})
    /\ UNCHANGED <<run, sessions, place, timeout, pcb, event, turn>>

(* event_task_entry: no new work, every session terminated, then the wait  *)
(* for the io task.                                                        *)
EventStops ==
    /\ turn = "none" /\ event = "byte" /\ task["event"] = "ready"
    /\ run' = FALSE
    /\ event' = "io"
    /\ timeout' = [s \in Sessions |-> IF s \in ToSet(sessions) THEN 0 ELSE timeout[s]]
    /\ task' = [Woken(ToSet(sessions) \cup {"io"}) EXCEPT !["event"] = "waiting"]
    /\ UNCHANGED <<sessions, place, pcb, turn>>

(* Mutant: hev_task_join waits without waking. *)
JoinSleeps(t, next) ==
    /\ turn = "none" /\ event = t /\ task["event"] = "ready"
    /\ IF task[t] = "stopped"
       THEN /\ event' = next
            /\ task' = IF next = "done" THEN [task EXCEPT !["event"] = "stopped"] ELSE task
       ELSE /\ task' = [task EXCEPT !["event"] = "waiting"]
            /\ UNCHANGED event
    /\ UNCHANGED <<run, sessions, place, timeout, pcb, turn>>

(* hev_task_join: wake the task and wait, until it has stopped. *)
Join(t, next) ==
    /\ turn = "none" /\ event = t /\ task["event"] = "ready"
    /\ IF task[t] = "stopped"
       THEN /\ event' = next
            /\ task' = IF next = "done" THEN [task EXCEPT !["event"] = "stopped"] ELSE task
       ELSE /\ task' = [Woken({t}) EXCEPT !["event"] = "waiting"]
            /\ UNCHANGED event
    /\ UNCHANGED <<run, sessions, place, timeout, pcb, turn>>

EventJoins == Join("io", "timer") \/ Join("timer", "done")

-----------------------------------------------------------------------------
(* The task of session s *)

Others(s) == RemoveAt(sessions, CHOOSE i \in DOMAIN sessions : sessions[i] = s)

MovedToTail(s) == Append(Others(s), s)

(* The task goes on after a yield; in a splice or its drain, task_io_yielder *)
(* calls hev_socks5_tunnel_update_session.                                   *)
SessionResumes(s) ==
    /\ turn = "none" /\ task[s] = "ready"
    /\ turn' = s
    /\ sessions' = IF MaxSessions > 0 /\ place[s] \in {"splice", "drain"}
                   THEN MovedToTail(s) ELSE sessions
    /\ UNCHANGED <<run, place, timeout, pcb, event, task>>

(* hev_socks5_session_run: from connect to handshake to splice, each with  *)
(* a timeout of its own.                                                   *)
Advances(s) ==
    /\ turn = s
    /\ \/ place[s] = "born" /\ Goes(s, "connect")
       \/ place[s] = "connect" /\ Goes(s, "handshake")
       \/ place[s] = "handshake" /\ Goes(s, IF s \in pcb THEN "splice" ELSE "leave")
    /\ timeout' = [timeout EXCEPT ![s] = SetTimeout(@, 1)]
    /\ UNCHANGED <<run, sessions, pcb, event, task, turn>>

(* The server refuses, answers badly or goes away; both directions of the  *)
(* splice have ended; the peer has acknowledged all, or its pcb is gone.   *)
AfterSplice(s) == IF s \in TcpSessions THEN "drain" ELSE "leave"

PhaseEnds(s) ==
    /\ turn = s
    /\ \/ place[s] \in {"connect", "handshake", "drain"} /\ Goes(s, "leave")
       \/ place[s] = "splice" /\ Goes(s, AfterSplice(s))
    /\ UNCHANGED <<run, sessions, timeout, pcb, event, task, turn>>

(* Something moved: the splice yields and is ready at once, whatever its   *)
(* timeout.                                                                *)
Busy(s) ==
    /\ place[s] = "splice"
    /\ Yields(s, "ready")
    /\ UNCHANGED <<run, sessions, place, timeout, pcb, event>>

(* Nothing moves: a sleep of the timeout, or the end of this phase when    *)
(* that is 0.                                                              *)
Waits(s) ==
    /\ turn = s
    /\ place[s] \in {"connect", "handshake", "splice"} \/ (place[s] = "drain" /\ s \in pcb)
    /\ IF timeout[s] = 0
       THEN Goes(s, IF place[s] = "splice" THEN AfterSplice(s) ELSE "leave") /\ UNCHANGED <<task, turn>>
       ELSE Yields(s, "sleeping") /\ UNCHANGED place
    /\ UNCHANGED <<run, sessions, timeout, pcb, event>>

(* The server's socket is ready. *)
SocketReady(s) ==
    /\ turn = "none" /\ task[s] = "sleeping"
    /\ task' = Woken({s})
    /\ UNCHANGED <<run, sessions, place, timeout, pcb, event, turn>>

(* The sleep has lasted its time. *)
TimesOut(s) ==
    /\ turn = "none" /\ task[s] = "sleeping"
    /\ task' = Woken({s})
    /\ Goes(s, IF place[s] = "splice" THEN AfterSplice(s) ELSE "leave")
    /\ UNCHANGED <<run, sessions, timeout, pcb, event, turn>>

(* hev_socks5_session_task_entry after the session: out of the set, pcb    *)
(* aborted, socket closed, task gone.                                      *)
Leaves(s) ==
    /\ place[s] = "leave" /\ Goes(s, "dead")
    /\ Yields(s, "stopped")
    /\ sessions' = Others(s)
    /\ pcb' = pcb \ {s}
    /\ UNCHANGED <<run, timeout, event>>

-----------------------------------------------------------------------------

Lost == {{}} \cup {{s} : s \in pcb \cap TcpSessions}

SessionSteps(s) == Advances(s) \/ PhaseEnds(s) \/ Busy(s) \/ Waits(s) \/ Leaves(s)

SessionsNext ==
    \/ IoRuns \/ IoWaits \/ TunReadable
    \/ \E lost \in Lost : TimerRuns(lost)
    \/ TimerTicks
    \/ StopAsked \/ EventStops \/ EventJoins
    \/ \E s \in Sessions :
         \/ Accept(s) \/ TunData(s) \/ TunReset(s)
         \/ SessionResumes(s) \/ SessionSteps(s)
         \/ SocketReady(s) \/ TimesOut(s)

(* The scheduler gives every ready task its turn and the io task runs out  *)
(* of packets.  A session's socket is not ready for ever: again and again  *)
(* there is nothing to move.  Neither timeouts nor sockets are owed.       *)
SessionsFairness ==
    /\ SF_sessionVars(IoRuns) /\ WF_sessionVars(IoWaits)
    /\ SF_sessionVars(\E lost \in Lost : TimerRuns(lost))
    /\ SF_sessionVars(EventStops) /\ SF_sessionVars(EventJoins)
    /\ \A s \in Sessions :
         /\ SF_sessionVars(SessionResumes(s))
         /\ WF_sessionVars(SessionSteps(s))
         /\ SF_sessionVars(Waits(s))

SessionsSpec == SessionsInit /\ [][SessionsNext]_sessionVars
FairSessionsSpec == SessionsSpec /\ SessionsFairness

-----------------------------------------------------------------------------
(* Properties *)

SessionsTypeOK ==
    /\ run \in BOOLEAN
    /\ sessions \in Seq(Sessions)
    /\ place \in [Sessions -> Places]
    /\ timeout \in [Sessions -> {-1, 0, 1}]
    /\ pcb \subseteq Sessions
    /\ event \in {"byte", "io", "timer", "done"}
    /\ task \in [Tasks -> {"ready", "waiting", "sleeping", "stopped"}]
    /\ turn \in Tasks \cup {"none"}

Alive == {s \in Sessions : place[s] \notin {"unborn", "dead"}}

(* The set that the event task walks, the limit counts and the timer looks *)
(* at is that of the sessions whose object exists: none is freed while it  *)
(* is in it, none is in it twice, and lwIP calls back only those.          *)
SetIsAlive ==
    /\ ToSet(sessions) = Alive /\ IsInjective(sessions)
    /\ pcb \subseteq Alive
    /\ \A s \in Sessions : task[s] = "stopped" <=> s \notin Alive

(* lwIP's timers run as long as there is a session: the timer task waits   *)
(* for a wakeup only while the set is empty.                               *)
TimerServesSessions == sessions # <<>> => task["timer"] # "waiting"

(* Once the engine stops, every session is terminated, and stays so through *)
(* the timeouts that its connect and its handshake set; so no wait of a     *)
(* stopping engine lasts.                                                   *)
StoppedAreEnding == ~run => \A s \in Alive : timeout[s] = 0

(* No session is lost to those who keep it going or end it: the set, the   *)
(* timer task, and the stop.                                               *)
SessionsInv == SessionsTypeOK /\ SetIsAlive /\ TimerServesSessions /\ StoppedAreEnding

(* A terminated session ends, whether the limit, a reset or the stop chose *)
(* it, and although it may be busy and be moved away from the head of the  *)
(* set.                                                                    *)
EndingEnds == \A s \in Sessions : timeout[s] = 0 ~> place[s] = "dead"

(* A stop ends the engine: every task stops, and hev_task_system_run       *)
(* returns.                                                                *)
StopEndsTasks == ~run ~> \A t \in Tasks : task[t] = "stopped"

=============================================================================
