----------------------------- MODULE TaskSystem -----------------------------
(***************************************************************************)
(* The task system under the engine (hev-task-system): one thread, tasks   *)
(* that give it up by themselves, a scheduler that lets the task with the  *)
(* smallest key go on, timers, joins, and the mutex that guards lwIP.      *)
(*                                                                         *)
(* Every other module of the engine says "this task eventually goes on".   *)
(* Here that is a property of the scheduler: the only fairness assumed is  *)
(* that the running task yields and that the scheduler runs.               *)
(*                                                                         *)
(* Keys are differences to the smallest key (nothing else of them is ever  *)
(* used); which of several tasks with the same key is first is left open.  *)
(***************************************************************************)
EXTENDS Integers, FiniteSets, FiniteSetsExt, Sequences

CONSTANTS
    Tasks,
    Nobody,
    Priority,   \* HEV_TASK_PRIORITY_MIN, 0, never gives way: no task of the engine has it
    MaxRuntime  \* bound: what one turn of a task can cost

ASSUME TaskAssumption ==
    /\ Nobody \notin Tasks
    /\ Priority \in [Tasks -> 1 .. 15]
    /\ MaxRuntime \in Nat \ {0}

VARIABLES
    doing,    \* each task: "new", "run", "io", "sleep", "lock", "join", "stopped"
    ready,    \* ctx->running_tasks
    key,      \* sched_key
    current,  \* ctx->current_task, or Nobody while the scheduler itself runs
    locker,   \* the mutex is taken
    waiters,  \* those who wait for it, the last one first
    inside,   \* history: the tasks that lock () returned to and that have not unlocked
    timers,   \* the sleeping tasks, the next to expire first
    expired,  \* how many of them have expired
    joiner    \* who joins a task

taskVars == <<doing, ready, key, current, locker, waiters, inside, timers, expired, joiner>>
mutexVars == <<locker, waiters, inside>>
timerVars == <<timers, expired>>

TaskInit ==
    /\ \E first \in Tasks :
        /\ doing = [t \in Tasks |-> IF t = first THEN "run" ELSE "new"]
        /\ ready = {first}
    /\ key = [t \in Tasks |-> 0]
    /\ current = Nobody
    /\ locker = FALSE /\ waiters = <<>> /\ inside = {}
    /\ timers = <<>> /\ expired = 0
    /\ joiner = [t \in Tasks |-> Nobody]

-----------------------------------------------------------------------------
(* The scheduler *)

(* The keys k of the tasks in S, as differences to the smallest of them.   *)
Rebased(k, S) ==
    [t \in Tasks |-> IF t \in S THEN k[t] - Min({k[u] : u \in S}) ELSE 0]

(* hev_task_system_wakeup_task_with_context: a task that waits comes in    *)
(* behind the smallest key by its priority; to one that is ready nothing   *)
(* happens.                                                                *)
Woken(W) == [t \in Tasks |-> IF t \in W \ ready THEN key[t] + Priority[t] ELSE key[t]]

Wake(W) ==
    /\ ready' = ready \cup W
    /\ key' = Rebased(Woken(W), ready \cup W)

(* HEV_TASK_YIELD: update_sched_key, reinsert_current_task. *)
Switch(runtime) ==
    /\ key' = Rebased([key EXCEPT ![current] = @ + (1 + runtime) * Priority[current]], ready)
    /\ current' = Nobody
    /\ UNCHANGED ready

(* HEV_TASK_WAITIO: remove_current_task; W are woken before. *)
WaitAfterWaking(W) ==
    LET S == (ready \cup W) \ {current}
    IN  /\ ready' = S
        /\ key' = Rebased([Woken(W) EXCEPT ![current] = 0], S)
        /\ current' = Nobody

(* hev_task_system_pick_current_task: unless every task is ready, poll for *)
(* events - waiting for one if no task is ready - and look at the first    *)
(* timer; then the first task goes on.                                     *)
Alive == {t \in Tasks : doing[t] \notin {"new", "stopped"}}

Waiting == Alive \ ready

FirstTimer == IF expired > 0 THEN {Head(timers)} ELSE {}

(* Mutant: a timer is looked at only when there is nothing else to do. *)
PollTimersLast(events) ==
    LET W == IF ready \cup events = {} THEN FirstTimer ELSE events
    IN  /\ current = Nobody /\ Waiting # {} /\ ready \cup W # {}
        /\ ready' = ready \cup W
        /\ key' = Rebased(Woken(W), ready')
        /\ current' \in {t \in ready' : key'[t] = 0}
        /\ UNCHANGED <<doing, mutexVars, timerVars, joiner>>

Poll(events) ==
    LET W == events \cup FirstTimer
        first == IF events # {} THEN events ELSE FirstTimer
    IN  /\ current = Nobody /\ Waiting # {} /\ ready \cup W # {}
        /\ ready' = ready \cup W
        /\ IF ready # {} THEN key' = Rebased(Woken(W), ready')
           ELSE \E f \in first : key' = Rebased([Woken(W) EXCEPT ![f] = 0], ready')
        /\ current' \in {t \in ready' : key'[t] = 0}
        /\ UNCHANGED <<doing, mutexVars, timerVars, joiner>>

Pick ==
    /\ current = Nobody /\ Waiting = {} /\ ready # {}
    /\ current' \in {t \in ready : key[t] = 0}
    /\ UNCHANGED <<doing, ready, key, mutexVars, timerVars, joiner>>

(* Time goes on. *)
Expires ==
    /\ expired < Len(timers)
    /\ expired' = expired + 1
    /\ UNCHANGED <<doing, ready, key, current, mutexVars, timers, joiner>>

-----------------------------------------------------------------------------
(* What the current task does.  It yields ... *)

Runs == current # Nobody /\ doing[current] = "run"

Yields(runtime) ==
    /\ Runs
    /\ Switch(runtime)
    /\ UNCHANGED <<doing, mutexVars, timerVars, joiner>>

(* ... waits for events ... *)
WaitsForEvents ==
    /\ Runs
    /\ WaitAfterWaking({})
    /\ doing' = [doing EXCEPT ![current] = "io"]
    /\ UNCHANGED <<mutexVars, timerVars, joiner>>

(* ... sleeps (hev_task_timer_wait): its timer comes after those that have *)
(* expired and anywhere among the others ...                               *)
Sleeps(position) ==
    /\ Runs
    /\ position \in expired .. Len(timers)
    /\ timers' = SubSeq(timers, 1, position) \o <<current>> \o SubSeq(timers, position + 1, Len(timers))
    /\ WaitAfterWaking({})
    /\ doing' = [doing EXCEPT ![current] = "sleep"]
    /\ UNCHANGED <<mutexVars, expired, joiner>>

(* ... starts another task, or wakes one that has not ended ... *)
Starts(t) ==
    /\ Runs /\ doing[t] = "new"
    /\ doing' = [doing EXCEPT ![t] = "run"]
    /\ Wake({t})
    /\ UNCHANGED <<current, mutexVars, timerVars, joiner>>

WakesOther(t) ==
    /\ Runs /\ t \in Waiting
    /\ Wake({t})
    /\ UNCHANGED <<doing, current, mutexVars, timerVars, joiner>>

(* ... waits for another's end, which it also wakes (hev_task_join) ... *)
Joins(t) ==
    /\ Runs /\ doing[t] # "new" /\ t # current /\ joiner[t] = Nobody
    /\ joiner' = [joiner EXCEPT ![t] = current]
    /\ IF doing[t] = "stopped" THEN UNCHANGED <<doing, ready, key, current>>
       ELSE /\ WaitAfterWaking({t})
            /\ doing' = [doing EXCEPT ![current] = "join"]
    /\ UNCHANGED <<mutexVars, timerVars>>

(* ... or ends, and wakes who joins it: hev_task_executer. *)
Exits ==
    /\ Runs /\ current \notin inside
    /\ WaitAfterWaking({joiner[current]} \ {Nobody})
    /\ doing' = [doing EXCEPT ![current] = "stopped"]
    /\ UNCHANGED <<mutexVars, timerVars, joiner>>

-----------------------------------------------------------------------------
(* The mutex *)

Takes ==
    /\ locker' = TRUE
    /\ inside' = inside \cup {current}

(* hev_task_mutex_lock: a free mutex is taken even while others wait. *)
Locks ==
    /\ Runs /\ current \notin inside
    /\ IF ~locker
       THEN /\ Takes
            /\ UNCHANGED <<doing, ready, key, current, waiters>>
       ELSE /\ waiters' = <<current>> \o waiters
            /\ doing' = [doing EXCEPT ![current] = "lock"]
            /\ WaitAfterWaking({})
            /\ UNCHANGED <<locker, inside>>
    /\ UNCHANGED <<timerVars, joiner>>

TryLocks ==
    /\ Runs /\ ~locker
    /\ Takes
    /\ UNCHANGED <<doing, ready, key, current, waiters, timerVars, joiner>>

(* Mutant: the task that has waited longest is woken. *)
UnlocksWakingTheOldest ==
    /\ Runs /\ current \in inside
    /\ locker' = FALSE
    /\ inside' = inside \ {current}
    /\ Wake(IF waiters # <<>> THEN {waiters[Len(waiters)]} ELSE {})
    /\ UNCHANGED <<doing, current, waiters, timerVars, joiner>>

(* hev_task_mutex_unlock *)
Unlocks ==
    /\ Runs /\ current \in inside
    /\ locker' = FALSE
    /\ inside' = inside \ {current}
    /\ Wake(IF waiters # <<>> THEN {waiters[1]} ELSE {})
    /\ UNCHANGED <<doing, current, waiters, timerVars, joiner>>

-----------------------------------------------------------------------------
(* What a task does first when it goes on *)

(* hev_task_yield returned: of several events nothing is remembered here.  *)
HasEvents ==
    /\ current # Nobody /\ doing[current] = "io"
    /\ doing' = [doing EXCEPT ![current] = "run"]
    /\ UNCHANGED <<ready, key, current, mutexVars, timerVars, joiner>>

(* hev_task_timer_wait goes on, in time or woken before: the timer goes,   *)
(* and the next one is woken if it has expired and this one was the first  *)
(* of all (or had been, when it was set).                                  *)
Others(t) ==
    LET i == CHOOSE j \in DOMAIN timers : timers[j] = t
    IN  SubSeq(timers, 1, i - 1) \o SubSeq(timers, i + 1, Len(timers))

Awakes(passOn) ==
    LET late == \E i \in 1 .. expired : timers[i] = current
        left == IF late THEN expired - 1 ELSE expired
    IN  /\ current # Nobody /\ doing[current] = "sleep"
        /\ (Head(timers) = current) => passOn
        /\ doing' = [doing EXCEPT ![current] = "run"]
        /\ timers' = Others(current)
        /\ expired' = left
        /\ Wake(IF passOn /\ left > 0 THEN {Head(Others(current))} ELSE {})
        /\ UNCHANGED <<current, mutexVars, joiner>>

(* hev_task_mutex_lock goes on *)
LooksAgain ==
    /\ current # Nobody /\ doing[current] = "lock"
    /\ IF ~locker /\ waiters[1] = current
       THEN /\ Takes
            /\ waiters' = Tail(waiters)
            /\ doing' = [doing EXCEPT ![current] = "run"]
            /\ UNCHANGED <<ready, key, current>>
       ELSE /\ WaitAfterWaking({})
            /\ UNCHANGED <<doing, mutexVars>>
    /\ UNCHANGED <<timerVars, joiner>>

(* hev_task_join goes on *)
JoinsOn ==
    /\ current # Nobody /\ doing[current] = "join"
    /\ \E t \in Tasks :
        /\ joiner[t] = current /\ doing[t] # "stopped"
        /\ WaitAfterWaking({t})
    /\ UNCHANGED <<doing, mutexVars, timerVars, joiner>>

Joined ==
    /\ current # Nobody /\ doing[current] = "join"
    /\ \A t \in Tasks : joiner[t] = current => doing[t] = "stopped"
    /\ doing' = [doing EXCEPT ![current] = "run"]
    /\ UNCHANGED <<ready, key, current, mutexVars, timerVars, joiner>>

GoesOn == HasEvents \/ (\E passOn \in BOOLEAN : Awakes(passOn)) \/ LooksAgain \/ JoinsOn \/ Joined

Schedules == (\E events \in SUBSET Waiting : Poll(events)) \/ Pick

Turn == \E runtime \in 0 .. MaxRuntime : Yields(runtime)

TaskNext ==
    \/ Schedules \/ Expires \/ GoesOn \/ Turn
    \/ WaitsForEvents \/ (\E position \in expired .. Len(timers) : Sleeps(position))
    \/ (\E t \in Tasks : Starts(t) \/ WakesOther(t) \/ Joins(t))
    \/ Exits \/ Locks \/ TryLocks \/ Unlocks

TaskSpec == TaskInit /\ [][TaskNext]_taskVars

-----------------------------------------------------------------------------
(* Properties *)

Names(list) == {list[i] : i \in DOMAIN list}

TaskTypeOK ==
    /\ doing \in [Tasks -> {"new", "run", "io", "sleep", "lock", "join", "stopped"}]
    /\ ready \subseteq Alive
    /\ key \in [Tasks -> Nat]
    /\ current \in ready \cup {Nobody}
    /\ locker \in BOOLEAN
    /\ inside \subseteq Tasks
    /\ expired \in 0 .. Len(timers)
    /\ joiner \in [Tasks -> Tasks \cup {Nobody}]

(* What the scheduler lives by: the running task is a first one, a timer   *)
(* is set exactly while its task sleeps, and a task that can go on is      *)
(* among the ready ones.                                                   *)
ReadyIsRanked ==
    /\ current # Nobody => key[current] = 0
    /\ ready # {} => \E t \in ready : key[t] = 0
    /\ Names(timers) = {t \in Tasks : doing[t] = "sleep"}
    /\ \A t \in Tasks : doing[t] = "run" => t \in ready

(* The mutex is exclusive although a task that comes by may take it from   *)
(* the one that was just woken for it.                                     *)
MutexIsExclusive ==
    /\ locker <=> inside # {}
    /\ \A t, u \in inside : t = u

(* No wakeup is lost: whenever the mutex is free and tasks wait for it,    *)
(* the one at the top is among the ready tasks.                            *)
TopWaiterIsReady == (~locker /\ waiters # <<>>) => waiters[1] \in ready

(* No task that can go on is forgotten, by the scheduler, the timers or    *)
(* the mutex.                                                              *)
SchedulerInv == TaskTypeOK /\ ReadyIsRanked /\ MutexIsExclusive /\ TopWaiterIsReady

(* Nobody starves: a ready task runs, whatever the others do, however long *)
(* they run and however often they are woken.                              *)
ReadyTaskRuns == \A t \in Tasks : (t \in ready) ~> (current = t)

(* Only the first expired timer wakes its task: it has to wake the next.   *)
SleepersAwake ==
    \A t \in Tasks : (\E i \in 1 .. expired : timers[i] = t) ~> (doing[t] # "sleep")

(* Who joins a task that has ended goes on.                                *)
JoinReturns ==
    \A t \in Tasks :
        (doing[t] = "join" /\ \A u \in Tasks : joiner[u] = t => doing[u] = "stopped")
            ~> (doing[t] # "join")

(* Whatever a task waits for, it goes on once that has come.               *)
NobodyStarves == ReadyTaskRuns /\ SleepersAwake /\ JoinReturns

=============================================================================
