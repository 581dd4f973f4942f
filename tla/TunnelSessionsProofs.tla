------------------------- MODULE TunnelSessionsProofs -------------------------
(***************************************************************************)
(* No session is lost to those who keep it going or end it, for any        *)
(* sessions, any limit and any stop.                                       *)
(***************************************************************************)
EXTENDS TunnelSessions, SequenceTheorems, TLAPS

(* One taken out of a list, index by index and as a whole. *)
LEMMA Without ==
    ASSUME NEW s \in Seq(Sessions), NEW k \in DOMAIN s
    PROVE  LET r == SubSeq(s, 1, k - 1) \o SubSeq(s, k + 1, Len(s))
           IN  /\ r \in Seq(Sessions) /\ Len(r) = Len(s) - 1
               /\ \A i \in 1 .. Len(s) - 1 : r[i] = IF i < k THEN s[i] ELSE s[i + 1]
<1>1. k \in 1 .. Len(s) /\ \A i \in 1 .. Len(s) : s[i] \in Sessions
  OBVIOUS
<1> DEFINE a == SubSeq(s, 1, k - 1)
           b == SubSeq(s, k + 1, Len(s))
<1>2. a \in Seq(Sessions) /\ Len(a) = k - 1 /\ \A i \in 1 .. k - 1 : a[i] = s[i]
  BY <1>1, SubSeqProperties
<1>3. b \in Seq(Sessions) /\ Len(b) = Len(s) - k /\ \A i \in 1 .. Len(s) - k : b[i] = s[k + i]
  BY <1>1, SubSeqProperties
<1> HIDE DEF a, b
<1>4. /\ a \o b \in Seq(Sessions) /\ Len(a \o b) = Len(s) - 1
      /\ \A i \in 1 .. Len(s) - 1 : (a \o b)[i] = IF i <= k - 1 THEN a[i] ELSE b[i - (k - 1)]
  BY SMTT(30), <1>1, <1>2, <1>3, ConcatProperties
<1>5. ASSUME NEW i \in 1 .. Len(s) - 1
      PROVE  (a \o b)[i] = IF i < k THEN s[i] ELSE s[i + 1]
  <2>1. CASE i < k
    BY <1>1, <1>2, <1>4, <2>1
  <2>2. CASE i >= k
    <3>1. i - (k - 1) \in 1 .. Len(s) - k /\ k + (i - (k - 1)) = i + 1
      BY <1>1, <2>2
    <3>2. b[i - (k - 1)] = s[i + 1]
      BY <1>3, <3>1
    <3>3. (a \o b)[i] = b[i - (k - 1)]
      BY <1>1, <1>4, <2>2
    <3>4. ~(i < k)
      BY <1>1, <2>2
    <3> QED BY <3>2, <3>3, <3>4
  <2>3. i < k \/ i >= k
    BY <1>1
  <2> QED BY <2>1, <2>2, <2>3
<1> QED BY <1>4, <1>5 DEF a, b

LEMMA TakenOut ==
    ASSUME NEW s \in Seq(Sessions), IsInjective(s), NEW k \in DOMAIN s,
           NEW r \in Seq(Sessions), Len(r) = Len(s) - 1,
           \A i \in 1 .. Len(s) - 1 : r[i] = IF i < k THEN s[i] ELSE s[i + 1]
    PROVE  IsInjective(r) /\ ToSet(r) = ToSet(s) \ {s[k]}
<1>1. DOMAIN r = 1 .. Len(s) - 1 /\ DOMAIN s = 1 .. Len(s) /\ Len(s) \in Nat /\ k \in 1 .. Len(s)
  OBVIOUS
<1>2. \A i \in DOMAIN r : \E j \in DOMAIN s : r[i] = s[j] /\ j # k /\ j = IF i < k THEN i ELSE i + 1
  BY <1>1
<1>3. IsInjective(r)
  BY <1>1, <1>2 DEF IsInjective
<1>4. \A i \in DOMAIN r : r[i] \in ToSet(s) \ {s[k]}
  BY <1>1, <1>2 DEF ToSet, IsInjective
<1>5. ASSUME NEW i \in DOMAIN s, s[i] # s[k] PROVE \E j \in DOMAIN r : r[j] = s[i]
  <2>1. CASE i < k
    BY <1>1, <2>1
  <2>2. CASE i > k
    <3>1. i - 1 \in DOMAIN r /\ r[i - 1] = s[(i - 1) + 1]
      BY <1>1, <2>2
    <3> QED BY <1>1, <3>1
  <2> QED BY <1>1, <1>5, <2>1, <2>2
<1> QED BY <1>3, <1>4, <1>5 DEF ToSet

(* One more at the end of a list. *)
LEMMA Appended ==
    ASSUME NEW q \in Seq(Sessions), IsInjective(q), NEW s \in Sessions, s \notin ToSet(q)
    PROVE  /\ Append(q, s) \in Seq(Sessions) /\ Append(q, s) # <<>>
           /\ IsInjective(Append(q, s)) /\ ToSet(Append(q, s)) = ToSet(q) \cup {s}
<1> DEFINE r == Append(q, s)
<1>1. /\ r \in Seq(Sessions) /\ Len(r) = Len(q) + 1 /\ r[Len(q) + 1] = s
      /\ \A i \in 1 .. Len(q) : r[i] = q[i]
  BY AppendProperties
<1>2. Len(q) \in Nat /\ DOMAIN q = 1 .. Len(q) /\ DOMAIN r = 1 .. Len(q) + 1
  BY <1>1
<1> HIDE DEF r
<1>3. \A i \in DOMAIN q : q[i] # s
  BY DEF ToSet
<1>4. IsInjective(r)
  BY <1>1, <1>2, <1>3 DEF IsInjective
<1>5. ToSet(r) = ToSet(q) \cup {s}
  BY <1>1, <1>2 DEF ToSet
<1>6. r # <<>>
  BY <1>1, <1>2
<1> QED BY <1>1, <1>4, <1>5, <1>6 DEF r

LEMMA OthersOf ==
    ASSUME sessions \in Seq(Sessions), IsInjective(sessions), NEW s \in ToSet(sessions)
    PROVE  Others(s) \in Seq(Sessions) /\ IsInjective(Others(s)) /\ ToSet(Others(s)) = ToSet(sessions) \ {s}
<1> DEFINE k == CHOOSE i \in DOMAIN sessions : sessions[i] = s
<1>1. k \in DOMAIN sessions /\ sessions[k] = s
  BY DEF ToSet
<1>2. Others(s) = SubSeq(sessions, 1, k - 1) \o SubSeq(sessions, k + 1, Len(sessions))
  BY DEF Others, RemoveAt
<1> HIDE DEF k
<1>3. LET r == SubSeq(sessions, 1, k - 1) \o SubSeq(sessions, k + 1, Len(sessions))
      IN  /\ r \in Seq(Sessions) /\ Len(r) = Len(sessions) - 1
          /\ \A i \in 1 .. Len(sessions) - 1 : r[i] = IF i < k THEN sessions[i] ELSE sessions[i + 1]
  BY <1>1, Without
<1>4. /\ Others(s) \in Seq(Sessions) /\ Len(Others(s)) = Len(sessions) - 1
      /\ \A i \in 1 .. Len(sessions) - 1 : Others(s)[i] = IF i < k THEN sessions[i] ELSE sessions[i + 1]
  BY <1>2, <1>3
<1>5. IsInjective(Others(s)) /\ ToSet(Others(s)) = ToSet(sessions) \ {sessions[k]}
  BY <1>1, <1>4, TakenOut
<1> QED BY <1>1, <1>4, <1>5

-----------------------------------------------------------------------------
(* The inductive invariant: with SessionsInv, whose turn it is.            *)

TurnIsDue ==
    /\ turn = "io" => run
    /\ turn \in Sessions => turn \in Alive

Living == SessionsInv /\ TurnIsDue

LEMMA LivingInit == SessionsInit => Living
<1> SUFFICES ASSUME SessionsInit PROVE Living
  OBVIOUS
<1>1. sessions = <<>> /\ sessions \in Seq(Sessions) /\ DOMAIN sessions = {}
  BY DEF SessionsInit
<1>2. ToSet(sessions) = {} /\ IsInjective(sessions) /\ Alive = {}
  BY <1>1 DEF SessionsInit, ToSet, IsInjective, Alive
<1>3. SessionsTypeOK
  BY <1>1, KindAssumption DEF SessionsInit, SessionsTypeOK, Places, Tasks
<1>4. SetIsAlive
  BY <1>2 DEF SessionsInit, SetIsAlive, Tasks
<1>5. TurnIsDue
  BY KindAssumption DEF SessionsInit, TurnIsDue
<1> QED BY <1>1, <1>3, <1>4, <1>5 DEF SessionsInit, Living, SessionsInv, TimerServesSessions, StoppedAreEnding

LEMMA WokenTasks ==
    ASSUME SessionsTypeOK, NEW T
    PROVE  /\ Woken(T) \in [Tasks -> {"ready", "waiting", "sleeping", "stopped"}]
           /\ \A t \in Tasks : Woken(T)[t] = "stopped" <=> task[t] = "stopped"
           /\ \A t \in Tasks : Woken(T)[t] = "waiting" => task[t] = "waiting" /\ t \notin T
BY DEF SessionsTypeOK, Woken, Asleep

(* The tasks of the engine are no sessions. *)
LEMMA Kinds ==
    /\ Sessions \subseteq Tasks /\ {"event", "io", "timer"} \subseteq Tasks
    /\ \A s \in Sessions : s \notin {"event", "io", "timer", "none"}
BY KindAssumption DEF Tasks

(* A session that exists goes to another place of its life. *)
LEMMA StaysAlive ==
    ASSUME SessionsTypeOK, NEW s \in Alive, NEW to \in Places \ {"unborn", "dead"}, Goes(s, to)
    PROVE  Alive' = Alive /\ place' \in [Sessions -> Places]
<1>1. s \in Sessions /\ place' = [place EXCEPT ![s] = to] /\ place \in [Sessions -> Places]
  BY DEF Alive, Goes, SessionsTypeOK
<1>2. \A v \in Sessions : place'[v] = IF v = s THEN to ELSE place[v]
  BY <1>1
<1>3. \A v \in Sessions : place'[v] \notin {"unborn", "dead"} <=> place[v] \notin {"unborn", "dead"}
  BY <1>1, <1>2 DEF Alive
<1> QED BY <1>1, <1>3 DEF Alive

(* The set of the sessions, its object and the timer task, in a step that  *)
(* neither makes nor frees a session.                                      *)
LEMMA SetStays ==
    ASSUME Living, sessions' = sessions, Alive' = Alive, pcb' \subseteq pcb,
           \A s \in Sessions : task'[s] = "stopped" <=> task[s] = "stopped",
           task'["timer"] = "waiting" => task["timer"] = "waiting" \/ sessions = <<>>
    PROVE  SetIsAlive' /\ TimerServesSessions'
BY DEF Living, SessionsInv, SetIsAlive, TimerServesSessions

(* A step that changes nothing but tasks and turns. *)
LEMMA TasksOnly ==
    ASSUME Living, UNCHANGED <<run, sessions, place, timeout, pcb>>,
           task' \in [Tasks -> {"ready", "waiting", "sleeping", "stopped"}],
           event' \in {"byte", "io", "timer", "done"},
           turn' \in Tasks \cup {"none"},
           \A s \in Sessions : task'[s] = "stopped" <=> task[s] = "stopped",
           task'["timer"] = "waiting" => task["timer"] = "waiting" \/ sessions = <<>>,
           TurnIsDue'
    PROVE  Living'
<1>1. Alive' = Alive
  BY DEF Alive
<1>2. SetIsAlive' /\ TimerServesSessions'
  BY <1>1, SetStays
<1>3. SessionsTypeOK'
  BY DEF Living, SessionsInv, SessionsTypeOK
<1>4. StoppedAreEnding'
  BY <1>1 DEF Living, SessionsInv, StoppedAreEnding
<1> QED BY <1>2, <1>3, <1>4 DEF Living, SessionsInv

(* The io task and the scheduler. *)
LEMMA IoKeeps ==
    ASSUME Living,
           \/ IoRuns \/ IoWaits \/ TunReadable \/ TimerTicks \/ StopAsked \/ EventJoins
           \/ \E s \in Sessions : TunData(s) \/ Busy(s) \/ SocketReady(s)
    PROVE  Living'
<1> USE Kinds
<1>0. /\ SessionsTypeOK /\ TurnIsDue
      /\ task \in [Tasks -> {"ready", "waiting", "sleeping", "stopped"}]
      /\ event \in {"byte", "io", "timer", "done"} /\ turn \in Tasks \cup {"none"}
  BY DEF Living, SessionsInv, SessionsTypeOK
<1> DEFINE Keeps(f) ==
             /\ f \in [Tasks -> {"ready", "waiting", "sleeping", "stopped"}]
             /\ \A s \in Sessions : f[s] = "stopped" <=> task[s] = "stopped"
             /\ f["timer"] = "waiting" => task["timer"] = "waiting"
<1>1. \A T : Keeps(Woken(T))
  BY <1>0, WokenTasks
<1>2. ASSUME NEW f, Keeps(f), NEW t \in {"event", "io"},
             NEW st \in {"ready", "waiting", "sleeping", "stopped"}
      PROVE  Keeps([f EXCEPT ![t] = st])
  BY <1>2
<1>3. Keeps(task)
  BY <1>0
<1>4. UNCHANGED place => Alive' = Alive
  BY DEF Alive
<1> DEFINE Same == UNCHANGED <<run, sessions, place, timeout, pcb>>
<1>5. ASSUME Same, Keeps(task'), event' \in {"byte", "io", "timer", "done"},
             turn' \in {"none", turn} \/ (turn' = "io" /\ run)
      PROVE  Living'
  <2>1. turn' \in Tasks \cup {"none"} /\ TurnIsDue'
    BY <1>0, <1>4, <1>5 DEF TurnIsDue
  <2> QED BY <1>5, <2>1, TasksOnly
<1> HIDE DEF Keeps
<1>6. CASE IoRuns
  BY <1>0, <1>1, <1>2, <1>3, <1>5, <1>6 DEF IoRuns
<1>7. CASE IoWaits
  BY <1>0, <1>2, <1>3, <1>5, <1>7 DEF IoWaits, Yields
<1>8. CASE TunReadable \/ TimerTicks \/ StopAsked
  BY <1>0, <1>1, <1>5, <1>8 DEF TunReadable, TimerTicks, StopAsked
<1>9. CASE EventJoins
  <2>1. /\ Same /\ turn' = turn /\ turn = "none" /\ event' \in {event, "timer", "done"}
        /\ \/ task' = task
           \/ task' = [task EXCEPT !["event"] = "stopped"]
           \/ \E t : task' = [Woken({t}) EXCEPT !["event"] = "waiting"]
    BY <1>9 DEF EventJoins, Join
  <2>2. Keeps(task')
    BY <1>1, <1>2, <1>3, <2>1
  <2> QED BY <1>0, <1>5, <2>1, <2>2
<1>10. CASE \E s \in Sessions : TunData(s) \/ SocketReady(s)
  BY <1>0, <1>1, <1>5, <1>10 DEF TunData, SocketReady
<1>11. ASSUME NEW s \in Sessions, Busy(s) PROVE Living'
  <2>1. turn = s /\ s \in Alive /\ task[s] # "stopped"
    BY <1>0, <1>11 DEF Busy, Yields, TurnIsDue, Living, SessionsInv, SetIsAlive
  <2>2. Keeps(task')
    BY <1>0, <1>11, <2>1 DEF Busy, Yields, Keeps
  <2> QED BY <1>0, <1>5, <1>11, <2>2 DEF Busy, Yields
<1> QED BY <1>6, <1>7, <1>8, <1>9, <1>10, <1>11

(* Those who terminate sessions: a reset, lwIP's timers and the stop. *)
LEMMA EndersKeep ==
    ASSUME Living, EventStops \/ (\E lost \in Lost : TimerRuns(lost)) \/ (\E s \in Sessions : TunReset(s))
    PROVE  Living'
<1> USE Kinds
<1>0. SessionsTypeOK /\ SetIsAlive /\ TurnIsDue /\ StoppedAreEnding
  BY DEF Living, SessionsInv
<1>1. UNCHANGED <<sessions, place>> /\ Alive' = Alive
  BY DEF EventStops, TimerRuns, TunReset, Alive
<1>2. ASSUME pcb' \subseteq pcb, run' \in BOOLEAN, event' \in {"byte", "io", "timer", "done"},
             task' \in [Tasks -> {"ready", "waiting", "sleeping", "stopped"}],
             \A s \in Sessions : task'[s] = "stopped" <=> task[s] = "stopped",
             task'["timer"] = "waiting" => task["timer"] = "waiting" \/ sessions = <<>>,
             turn' = turn, turn = "io" => run',
             NEW T, timeout' = [s \in Sessions |-> IF s \in T THEN 0 ELSE timeout[s]],
             run' = run \/ Alive \subseteq T
      PROVE  Living'
  <2>1. SetIsAlive' /\ TimerServesSessions'
    BY <1>1, <1>2, SetStays
  <2>2. SessionsTypeOK'
    BY <1>0, <1>1, <1>2 DEF SessionsTypeOK
  <2>3. StoppedAreEnding'
    BY <1>0, <1>1, <1>2 DEF StoppedAreEnding, Alive
  <2>4. TurnIsDue'
    BY <1>0, <1>1, <1>2 DEF TurnIsDue
  <2> QED BY <2>1, <2>2, <2>3, <2>4 DEF Living, SessionsInv
<1>3. \A T : /\ Woken(T) \in [Tasks -> {"ready", "waiting", "sleeping", "stopped"}]
             /\ \A t \in Tasks : Woken(T)[t] = "stopped" <=> task[t] = "stopped"
             /\ \A t \in Tasks : Woken(T)[t] = "waiting" => task[t] = "waiting" /\ t \notin T
  BY <1>0, WokenTasks
<1>4. CASE EventStops
  <2>1. task' = [Woken(ToSet(sessions) \cup {"io"}) EXCEPT !["event"] = "waiting"]
    BY <1>4 DEF EventStops
  <2>2. task' \in [Tasks -> {"ready", "waiting", "sleeping", "stopped"}]
    BY <1>3, <2>1
  <2>3. \A s \in Sessions : task'[s] = "stopped" <=> task[s] = "stopped"
    BY <1>3, <2>1
  <2>4. task'["timer"] = "waiting" => task["timer"] = "waiting"
    BY <1>3, <2>1
  <2>5. ToSet(sessions) = Alive
    BY <1>0 DEF SetIsAlive
  <2> QED BY <1>2, <1>4, <2>2, <2>3, <2>4, <2>5 DEF EventStops
<1>5. ASSUME NEW lost \in Lost, TimerRuns(lost) PROVE Living'
  <2>1. CASE run
    <3>1. task' = [Woken(lost) EXCEPT !["timer"] = IF sessions = <<>> THEN "waiting" ELSE "sleeping"]
      BY <1>5, <2>1 DEF TimerRuns
    <3>2. task' \in [Tasks -> {"ready", "waiting", "sleeping", "stopped"}]
      BY <1>3, <3>1
    <3>3. \A s \in Sessions : task'[s] = "stopped" <=> task[s] = "stopped"
      BY <1>3, <3>1
    <3>4. task'["timer"] = "waiting" => sessions = <<>>
      BY <1>3, <3>1
    <3> QED BY <1>0, <1>2, <1>5, <2>1, <3>2, <3>3, <3>4 DEF TimerRuns, SessionsTypeOK
  <2>2. CASE ~run
    <3>1. task' = [Woken(IF event = "timer" THEN {"event"} ELSE {}) EXCEPT !["timer"] = "stopped"]
      BY <1>5, <2>2 DEF TimerRuns
    <3>2. task' \in [Tasks -> {"ready", "waiting", "sleeping", "stopped"}]
      BY <1>3, <3>1
    <3>3. \A s \in Sessions : task'[s] = "stopped" <=> task[s] = "stopped"
      BY <1>3, <3>1
    <3>4. task'["timer"] # "waiting"
      BY <1>3, <3>1
    <3>5. timeout' = [s \in Sessions |-> IF s \in {} THEN 0 ELSE timeout[s]]
      BY <1>0, <1>5, <2>2 DEF TimerRuns, SessionsTypeOK
    <3> QED BY <1>0, <1>2, <1>5, <2>2, <3>2, <3>3, <3>4, <3>5 DEF TimerRuns, SessionsTypeOK, TurnIsDue
  <2> QED BY <2>1, <2>2
<1>6. ASSUME NEW s \in Sessions, TunReset(s) PROVE Living'
  <2>1. task' = Woken({s} \cup {})
    BY <1>6 DEF TunReset, Terminate
  <2>2. timeout' = [v \in Sessions |-> IF v \in {s} THEN 0 ELSE timeout[v]]
    BY <1>6 DEF TunReset, Terminate, SetTimeout
  <2>3. task' \in [Tasks -> {"ready", "waiting", "sleeping", "stopped"}]
    BY <1>3, <2>1
  <2>4. \A v \in Sessions : task'[v] = "stopped" <=> task[v] = "stopped"
    BY <1>3, <2>1
  <2>5. task'["timer"] = "waiting" => task["timer"] = "waiting"
    BY <1>3, <2>1
  <2> QED BY <1>0, <1>2, <1>6, <2>2, <2>3, <2>4, <2>5 DEF TunReset, SessionsTypeOK, TurnIsDue
<1> QED BY <1>4, <1>5, <1>6

(* A session on its way through its places. *)
LEMMA WayKeeps ==
    ASSUME Living, NEW s \in Sessions, Advances(s) \/ PhaseEnds(s) \/ Waits(s) \/ TimesOut(s)
    PROVE  Living'
<1> USE Kinds
<1>0. SessionsTypeOK /\ SetIsAlive /\ TurnIsDue /\ StoppedAreEnding
  BY DEF Living, SessionsInv
<1>1. s \in Alive /\ task[s] # "stopped"
  BY <1>0 DEF Advances, PhaseEnds, Waits, TimesOut, TurnIsDue, SetIsAlive
<1>2. PICK to \in Places \ {"unborn", "dead"} : Goes(s, to) \/ UNCHANGED place
  BY DEF Advances, PhaseEnds, Waits, TimesOut, AfterSplice, Places
<1>3. Alive' = Alive /\ place' \in [Sessions -> Places]
  BY <1>0, <1>1, <1>2, StaysAlive DEF Alive, SessionsTypeOK
<1>4. UNCHANGED <<run, sessions, pcb, event>>
  BY DEF Advances, PhaseEnds, Waits, TimesOut
<1>5. turn' \in {turn, "none"}
  BY DEF Advances, PhaseEnds, Waits, TimesOut, Yields
<1>6. /\ task' \in [Tasks -> {"ready", "waiting", "sleeping", "stopped"}]
      /\ \A v \in Sessions : task'[v] = "stopped" <=> task[v] = "stopped"
      /\ task'["timer"] = "waiting" => task["timer"] = "waiting"
  <2>1. CASE UNCHANGED task
    BY <1>0, <2>1 DEF SessionsTypeOK
  <2>2. CASE task' = Woken({s})
    BY <1>0, <2>2, WokenTasks
  <2>3. CASE task' = [task EXCEPT ![s] = "sleeping"]
    BY <1>0, <1>1, <2>3 DEF SessionsTypeOK
  <2> QED BY <2>1, <2>2, <2>3 DEF Advances, PhaseEnds, Waits, TimesOut, Yields
<1>7. timeout' \in [Sessions -> {-1, 0, 1}] /\ \A v \in Sessions : timeout[v] = 0 => timeout'[v] = 0
  <2>1. CASE UNCHANGED timeout
    BY <1>0, <2>1 DEF SessionsTypeOK
  <2>2. CASE timeout' = [timeout EXCEPT ![s] = SetTimeout(@, 1)]
    BY <1>0, <2>2 DEF SessionsTypeOK, SetTimeout
  <2> QED BY <2>1, <2>2 DEF Advances, PhaseEnds, Waits, TimesOut
<1>8. SetIsAlive' /\ TimerServesSessions'
  BY <1>3, <1>4, <1>6, SetStays
<1>9. SessionsTypeOK'
  BY <1>0, <1>3, <1>4, <1>5, <1>6, <1>7 DEF SessionsTypeOK
<1>10. StoppedAreEnding'
  BY <1>0, <1>3, <1>4, <1>7 DEF StoppedAreEnding, Alive
<1>11. TurnIsDue'
  BY <1>0, <1>3, <1>4, <1>5 DEF TurnIsDue
<1> QED BY <1>8, <1>9, <1>10, <1>11 DEF Living, SessionsInv

(* A new session enters the set, at its tail. *)
LEMMA AcceptKeeps ==
    ASSUME Living, NEW s \in Sessions, Accept(s)
    PROVE  Living'
<1> USE Kinds
<1>0. SessionsTypeOK /\ SetIsAlive /\ TurnIsDue
  BY DEF Living, SessionsInv
<1>1. run /\ run' = run /\ turn' = "io" /\ event' = event /\ place[s] = "unborn" /\ turn = "io"
  BY <1>0 DEF Accept, TurnIsDue
<1>2. s \notin ToSet(sessions)
  BY <1>0, <1>1 DEF SetIsAlive, Alive
<1>3. /\ sessions' \in Seq(Sessions) /\ IsInjective(sessions')
      /\ ToSet(sessions') = ToSet(sessions) \cup {s}
  BY <1>0, <1>2, Appended DEF Accept, SetIsAlive, SessionsTypeOK
<1>4. place' \in [Sessions -> Places] /\ Alive' = Alive \cup {s}
  <2>1. \A v \in Sessions : place'[v] = IF v = s THEN "born" ELSE place[v]
    BY <1>0 DEF Accept, Goes, SessionsTypeOK
  <2>2. place' \in [Sessions -> Places]
    BY <1>0 DEF Accept, Goes, SessionsTypeOK, Places
  <2> QED BY <2>1, <2>2 DEF Alive
<1> DEFINE W == Woken(Victim(sessions') \cup {"timer"})
<1>5. /\ W \in [Tasks -> {"ready", "waiting", "sleeping", "stopped"}]
      /\ \A t \in Tasks : W[t] = "stopped" <=> task[t] = "stopped"
      /\ W["timer"] # "waiting"
  BY <1>0, WokenTasks
<1>6. task' = [W EXCEPT ![s] = "ready"]
  BY DEF Accept
<1> HIDE DEF W
<1>7. /\ task' \in [Tasks -> {"ready", "waiting", "sleeping", "stopped"}]
      /\ task'["timer"] # "waiting"
      /\ \A v \in Sessions : task'[v] = "stopped" <=> task[v] = "stopped" /\ v # s
  BY <1>5, <1>6
<1>8. timeout' \in [Sessions -> {-1, 0, 1}]
  BY <1>0 DEF Accept, SessionsTypeOK
<1>9. pcb' = pcb \cup {s}
  BY DEF Accept
<1>10. SessionsTypeOK'
  BY <1>0, <1>1, <1>3, <1>4, <1>7, <1>8, <1>9 DEF SessionsTypeOK
<1>11. SetIsAlive'
  BY <1>0, <1>3, <1>4, <1>7, <1>9 DEF SetIsAlive
<1>12. TimerServesSessions' /\ StoppedAreEnding' /\ TurnIsDue'
  BY <1>1, <1>7 DEF TimerServesSessions, StoppedAreEnding, TurnIsDue
<1> QED BY <1>10, <1>11, <1>12 DEF Living, SessionsInv

(* The task of a session goes on, and may move it to the tail of the set. *)
LEMMA ResumeKeeps ==
    ASSUME Living, NEW s \in Sessions, SessionResumes(s)
    PROVE  Living'
<1> USE Kinds
<1>0. SessionsTypeOK /\ SetIsAlive /\ StoppedAreEnding /\ TimerServesSessions
  BY DEF Living, SessionsInv
<1>1. /\ UNCHANGED <<run, place, timeout, pcb, event, task>> /\ turn' = s
      /\ task[s] = "ready" /\ Alive' = Alive
  BY DEF SessionResumes, Alive
<1>2. s \in Alive /\ s \in ToSet(sessions)
  BY <1>0, <1>1 DEF SetIsAlive
<1>3. CASE sessions' = sessions
  BY <1>0, <1>1, <1>2, <1>3 DEF Living, SessionsInv, SessionsTypeOK, SetIsAlive, StoppedAreEnding,
                               TimerServesSessions, TurnIsDue
<1>4. CASE sessions' = MovedToTail(s)
  <2>1. Others(s) \in Seq(Sessions) /\ IsInjective(Others(s)) /\ ToSet(Others(s)) = ToSet(sessions) \ {s}
    BY <1>0, <1>2, OthersOf DEF SessionsTypeOK, SetIsAlive
  <2> DEFINE q == Others(s)
  <2>a. sessions' = Append(q, s) /\ s \notin ToSet(q)
    BY <1>4, <2>1 DEF MovedToTail
  <2> HIDE DEF q
  <2>b. q \in Seq(Sessions) /\ IsInjective(q) /\ ToSet(q) = ToSet(sessions) \ {s}
    BY <2>1 DEF q
  <2>c. /\ Append(q, s) \in Seq(Sessions) /\ IsInjective(Append(q, s))
        /\ ToSet(Append(q, s)) = ToSet(q) \cup {s}
    BY <2>a, <2>b, Appended
  <2>2. /\ sessions' \in Seq(Sessions) /\ IsInjective(sessions')
        /\ ToSet(sessions') = ToSet(sessions)
    BY <1>2, <2>a, <2>b, <2>c
  <2>3. sessions # <<>>
    BY <1>2 DEF ToSet
  <2>4. SessionsTypeOK' /\ SetIsAlive'
    BY <1>0, <1>1, <2>2 DEF SessionsTypeOK, SetIsAlive
  <2>5. TimerServesSessions' /\ StoppedAreEnding' /\ TurnIsDue'
    BY <1>0, <1>1, <1>2, <2>3 DEF TimerServesSessions, StoppedAreEnding, TurnIsDue
  <2> QED BY <2>4, <2>5 DEF Living, SessionsInv
<1> QED BY <1>3, <1>4 DEF SessionResumes

(* A session leaves the set and is freed. *)
LEMMA LeaveKeeps ==
    ASSUME Living, NEW s \in Sessions, Leaves(s)
    PROVE  Living'
<1> USE Kinds
<1>0. SessionsTypeOK /\ SetIsAlive /\ StoppedAreEnding /\ TimerServesSessions
  BY DEF Living, SessionsInv
<1>1. /\ UNCHANGED <<run, timeout, event>> /\ turn' = "none" /\ place[s] = "leave"
      /\ task' = [task EXCEPT ![s] = "stopped"] /\ pcb' = pcb \ {s}
  BY DEF Leaves, Yields
<1>2. s \in Alive /\ s \in ToSet(sessions)
  BY <1>0, <1>1 DEF SetIsAlive, Alive
<1>3. /\ sessions' \in Seq(Sessions) /\ IsInjective(sessions')
      /\ ToSet(sessions') = ToSet(sessions) \ {s}
  BY <1>0, <1>2, OthersOf DEF Leaves, SessionsTypeOK, SetIsAlive
<1>4. place' \in [Sessions -> Places] /\ Alive' = Alive \ {s}
  <2>1. \A v \in Sessions : place'[v] = IF v = s THEN "dead" ELSE place[v]
    BY <1>0 DEF Leaves, Goes, SessionsTypeOK
  <2>2. place' \in [Sessions -> Places]
    BY <1>0 DEF Leaves, Goes, SessionsTypeOK, Places
  <2> QED BY <2>1, <2>2 DEF Alive
<1>5. sessions # <<>>
  BY <1>2 DEF ToSet
<1>6. /\ task' \in [Tasks -> {"ready", "waiting", "sleeping", "stopped"}]
      /\ task'["timer"] = task["timer"]
      /\ \A v \in Sessions : task'[v] = "stopped" <=> task[v] = "stopped" \/ v = s
  BY <1>0, <1>1 DEF SessionsTypeOK
<1>7. SessionsTypeOK'
  BY <1>0, <1>1, <1>3, <1>4, <1>6 DEF SessionsTypeOK
<1>8. SetIsAlive'
  BY <1>0, <1>1, <1>3, <1>4, <1>6 DEF SetIsAlive
<1>9. TimerServesSessions' /\ StoppedAreEnding' /\ TurnIsDue'
  BY <1>0, <1>1, <1>4, <1>5, <1>6 DEF TimerServesSessions, StoppedAreEnding, TurnIsDue
<1> QED BY <1>7, <1>8, <1>9 DEF Living, SessionsInv

LEMMA LivingStep == Living /\ [SessionsNext]_sessionVars => Living'
<1> SUFFICES ASSUME Living, [SessionsNext]_sessionVars PROVE Living'
  OBVIOUS
<1>1. CASE UNCHANGED sessionVars
  BY <1>1 DEF sessionVars, Living, SessionsInv, SessionsTypeOK, SetIsAlive, TimerServesSessions,
             StoppedAreEnding, TurnIsDue, Alive
<1>2. CASE SessionsNext
  BY <1>2, IoKeeps, EndersKeep, WayKeeps, AcceptKeeps, ResumeKeeps, LeaveKeeps
     DEF SessionsNext, SessionSteps
<1> QED BY <1>1, <1>2

-----------------------------------------------------------------------------
(* In every state of the engine the set is that of the living sessions,    *)
(* their timer runs, those of a stopping engine are terminated, and the io *)
(* task hands out packets only while the engine runs.                      *)
THEOREM LivingInvariance == SessionsSpec => []Living
BY LivingInit, LivingStep, PTL DEF SessionsSpec

(* hev-socks5-tunnel.c keeps its set of sessions true: however sessions    *)
(* come, move, are terminated and leave, none of them is lost to the timer *)
(* task, the limit or the stop.                                            *)
THEOREM SessionsInvariance == SessionsSpec => []SessionsInv
<1>1. Living => SessionsInv
  BY DEF Living
<1> QED BY <1>1, LivingInvariance, PTL

=============================================================================
