------------------------- MODULE TunnelServiceProofs -------------------------
(***************************************************************************)
(* The VPN service's invariants, for any number of calls, service objects  *)
(* and crashes.                                                            *)
(*                                                                         *)
(* Three invariants, each on top of the one before it.  BaseInv: types,    *)
(* the count that keeps the session numbers in range, and the order of the *)
(* main thread's messages, which holds whatever happens.  HeldInv: who     *)
(* holds what is open and how far each handler has come, which needs that  *)
(* onRevoke does not fall into a startTunnel at work.  BackedInv: what the *)
(* phase On stands for, which also needs that no refresh says On for a     *)
(* tunnel that is down.                                                    *)
(***************************************************************************)
EXTENDS TunnelService, FiniteSetTheorems, TLAPS

-----------------------------------------------------------------------------
(* The invariants *)

(* Each session is paid for by a call or a crash: those still to be made   *)
(* are CONNECTs in the queue, or the one startTunnel is about to make.     *)
Connects(q) == {n \in DOMAIN q : q[n].kind = "CONNECT"}
Pending(pc) == IF pc \in {"guard", "starting", "newSel"} THEN 1 ELSE 0
Counted == sessions + Pending(thread["main"].pc) + Cardinality(Connects(queue))
               <= calls + crashes

(* The service object that the main thread works for, or did last. *)
Here == thread["main"].inst

InstancesKnown ==
    /\ ams.alive \/ ams.bound => ams.inst \in Instances
    /\ \A t \in Threads : thread[t].pc # "idle" => thread[t].inst \in Instances
    /\ Here <= ams.inst

SessionKnown ==
    thread["main"].pc \in StartPcs \ {"guard", "starting", "newSel"}
        => thread["main"].session \in Sessions

(* An onDestroy is still to come for i, now or later. *)
Owed(i) == (ams.alive /\ ams.inst = i) \/ DestroyWaits(i)

(* Messages come service object by service object, the DESTROY last, and   *)
(* none is for a service object that is no longer owed one.                *)
Before(x, y) == x.inst <= y.inst /\ (x.kind = "DESTROY" => x.inst < y.inst)
Ordered(q) == \A n, k \in DOMAIN q : n < k => Before(q[n], q[k])
InPlace(x) == /\ Here <= x.inst /\ x.inst <= ams.inst
              /\ Owed(x.inst)
              /\ x.kind = "DESTROY" => ~(ams.alive /\ ams.inst = x.inst)
QueueInOrder == Ordered(queue) /\ \A n \in DOMAIN queue : InPlace(queue[n])

BaseInv == TypeOK /\ Counted /\ InstancesKnown /\ SessionKnown /\ QueueInOrder

(* How far a cleanupTunnel has come: the statements behind which a resource*)
(* is closed, its field null, the engine stopped.                          *)
ClosedPcs == [sel   |-> {"nullSel", "stopEngine", "closeTun", "nullTun", "closeRelay", "nullRelay"} \cup EndPcs,
              tun   |-> {"nullTun", "closeRelay", "nullRelay"} \cup EndPcs,
              relay |-> {"nullRelay"} \cup EndPcs]
NulledPcs == [sel   |-> {"stopEngine", "closeTun", "nullTun", "closeRelay", "nullRelay"} \cup EndPcs,
              tun   |-> {"closeRelay", "nullRelay"} \cup EndPcs,
              relay |-> EndPcs]
StoppedPcs == {"closeTun", "nullTun", "closeRelay", "nullRelay"} \cup EndPcs

CleanupKeeps ==
    \A t \in Threads :
        /\ \A r \in Resources :
              /\ thread[t].pc \in ClosedPcs[r] => field[thread[t].inst][r] \notin open[r]
              /\ thread[t].pc \in NulledPcs[r] => field[thread[t].inst][r] = 0
        /\ thread[t].pc \in StoppedPcs => engine = 0

(* How far a startTunnel has come: the statements before which a field is  *)
(* null, and behind which a resource is open, its field set.               *)
NullPcs == [sel   |-> {"starting", "newSel", "setSel"},
            relay |-> {"starting", "newSel", "setSel", "newRelay", "setRelay"},
            tun   |-> {"starting", "newSel", "setSel", "newRelay", "setRelay", "newTun", "setTun"}]
OpenPcs == [sel   |-> {"setSel", "newRelay", "setRelay", "newTun", "setTun", "getFd", "startEngine", "on", "startSel"},
            relay |-> {"setRelay", "newTun", "setTun", "getFd", "startEngine", "on", "startSel"},
            tun   |-> {"setTun", "getFd", "startEngine", "on", "startSel"}]
SetPcs == [sel   |-> {"newRelay", "setRelay", "newTun", "setTun", "getFd", "startEngine", "on", "startSel"},
           relay |-> {"newTun", "setTun", "getFd", "startEngine", "on", "startSel"},
           tun   |-> {"getFd", "startEngine", "on", "startSel"}]
EnginelessPcs == {"starting", "newSel", "setSel", "newRelay", "setRelay",
                  "newTun", "setTun", "getFd", "startEngine"}

StartKeeps ==
    LET main == thread["main"]
    IN  /\ \A r \in Resources :
              /\ main.pc \in NullPcs[r] => field[main.inst][r] = 0
              /\ main.pc \in OpenPcs[r] => main.session \in open[r]
              /\ main.pc \in SetPcs[r] => field[main.inst][r] = main.session
        /\ main.pc \in EnginelessPcs => engine = 0
        /\ main.pc = "startSel" => store.phase = "On"

(* onRevoke and startTunnel exclude each other, by assumption. *)
Apart == thread["binder"].pc # "idle" => thread["main"].pc \notin StartPcs

Zero(i) == \A r \in Resources : field[i][r] = 0

(* Only the service object at hand has something, which it will be made to *)
(* give back, and what is open is in its fields or about to be stored.     *)
OnlyHere ==
    /\ \A i \in Instances \ {Here} : Zero(i)
    /\ Here \in Instances
          /\ (thread["main"].pc \in StartPcs \/ (thread["main"].pc = "idle" /\ ~Zero(Here)))
          => Owed(Here)

Storing(r, k) == /\ thread["main"].session = k
                 /\ thread["main"].pc \in {s \in DOMAIN SetBy : SetBy[s] = r}

OpenIsHeld ==
    \A r \in Resources : \A k \in open[r] :
        Storing(r, k) \/ (Here \in Instances /\ field[Here][r] = k)

(* Between two handlers of the main thread, a service object without a tun *)
(* has nothing at all, unless onRevoke is about to take the rest.          *)
TunIsLast ==
    thread["main"].pc \in {"idle", "guard"} /\ Here \in Instances
        /\ (thread["binder"].pc = "idle" \/ thread["binder"].inst # Here)
        => (field[Here]["tun"] = 0 => Zero(Here))

(* The state says Off or Error, or onRevoke will say so for a service      *)
(* object that has nothing: then nothing is left or onDestroy will see to  *)
(* it.                                                                     *)
DownHere ==
    Here \in Instances =>
        /\ thread["main"].pc \in {"idle", "guard"} /\ store.phase \in {"Off", "Error"}
              => Zero(Here) \/ DestroyWaits(Here)
        /\ thread["main"].pc = "idle" /\ thread["binder"].pc # "idle" /\ thread["binder"].inst # Here
              => Zero(Here) \/ DestroyWaits(Here)

HeldInv ==
    /\ BaseInv
    /\ Apart /\ CleanupKeeps /\ StartKeeps
    /\ OnlyHere /\ OpenIsHeld /\ TunIsLast /\ DownHere /\ EngineOnOpenTun

(* The phase On is true, or a cleanup is about to change it, or an          *)
(* onDestroy on its way is.                                                *)
Backed(k) == (engine = k \/ died) /\ \A r \in Resources : open[r] = {k}
UndoingPcs == CleanupPcs \cup {"off", "error"}
Undoing == \E t \in Threads : thread[t].pc \in UndoingPcs
Awaited == \E i \in Instances : DestroyWaits(i)
OnHolds == store.phase = "On" => Backed(store.session) \/ Undoing \/ Awaited

(* So is the tun that a refresh finds in the field, between two handlers:  *)
(* it stands for a whole session.                                          *)
TunHolds ==
    Here \in Instances /\ thread["main"].pc \in {"idle", "guard"} /\ field[Here]["tun"] # 0
        => Backed(field[Here]["tun"]) \/ Undoing \/ Awaited

(* A startTunnel that has announced itself says Starting until it says On, *)
(* by when its engine runs or has ended by itself.                         *)
AnnouncedPcs == StartPcs \ {"guard", "starting", "startSel"}
StartSays ==
    /\ thread["main"].pc \in AnnouncedPcs => store.phase = "Starting"
    /\ thread["main"].pc \in {"on", "startSel"} => engine = thread["main"].session \/ died

(* Only sessions whose startTunnel is over refresh.                        *)
LatePcs == StartPcs \ {"guard", "starting", "newSel"}
RefreshersKnown ==
    /\ \A k \in Sessions : callback[k] # "none" => k \in scheduled
    /\ \A k \in scheduled : k <= sessions /\ owner[k] \in Instances
    /\ LET k == thread["main"].session
       IN  thread["main"].pc \in LatePcs
               => k <= sessions /\ k \notin scheduled /\ owner[k] \in Instances

BackedInv == HeldInv /\ OnHolds /\ TunHolds /\ StartSays /\ RefreshersKnown

-----------------------------------------------------------------------------
(* The messages of the main thread *)

Messages == [kind : {"CONNECT", "DISCONNECT", "DESTROY"}, inst : Instances]

LEMMA MessageType ==
    ASSUME NEW kind \in {"CONNECT", "DISCONNECT", "DESTROY"}, NEW i \in Instances
    PROVE  /\ Message(kind, i) \in Messages
           /\ Message(kind, i).kind = kind /\ Message(kind, i).inst = i
BY DEF Message, Messages

LEMMA AppendFacts ==
    ASSUME NEW S, NEW q \in Seq(S), NEW m \in S
    PROVE  /\ Append(q, m) \in Seq(S)
           /\ Len(q) \in Nat /\ DOMAIN q = 1 .. Len(q)
           /\ DOMAIN Append(q, m) = 1 .. Len(q) + 1
           /\ \A n \in 1 .. Len(q) : Append(q, m)[n] = q[n]
           /\ Append(q, m)[Len(q) + 1] = m
OBVIOUS

LEMMA TailFacts ==
    ASSUME NEW S, NEW q \in Seq(S), q # <<>>
    PROVE  /\ Tail(q) \in Seq(S) /\ Head(q) \in S /\ Head(q) = q[1]
           /\ Len(q) \in Nat \ {0} /\ DOMAIN q = 1 .. Len(q)
           /\ DOMAIN Tail(q) = 1 .. Len(q) - 1
           /\ \A n \in 1 .. Len(q) - 1 : Tail(q)[n] = q[n + 1]
OBVIOUS

LEMMA OrderedAppend ==
    ASSUME NEW q \in Seq(Messages), NEW m \in Messages, Ordered(q),
           \A n \in DOMAIN q : Before(q[n], m)
    PROVE  Ordered(Append(q, m))
<1> DEFINE a == Append(q, m)
<1>1. /\ Len(q) \in Nat /\ DOMAIN q = 1 .. Len(q) /\ DOMAIN a = 1 .. Len(q) + 1
      /\ \A n \in 1 .. Len(q) : a[n] = q[n]
      /\ a[Len(q) + 1] = m
  BY AppendFacts
<1> HIDE DEF a
<1>2. ASSUME NEW n \in DOMAIN a, NEW k \in DOMAIN a, n < k PROVE Before(a[n], a[k])
  <2>1. n \in 1 .. Len(q) BY <1>1, <1>2
  <2>2. CASE k = Len(q) + 1 BY <1>1, <2>1, <2>2
  <2>3. CASE k \in 1 .. Len(q) BY <1>1, <1>2, <2>1, <2>3 DEF Ordered
  <2> QED BY <1>1, <2>2, <2>3
<1>3. Ordered(a) BY <1>2 DEF Ordered
<1> QED BY <1>3 DEF a

LEMMA OrderedTail ==
    ASSUME NEW q \in Seq(Messages), q # <<>>, Ordered(q)
    PROVE  Ordered(Tail(q)) /\ \A n \in DOMAIN Tail(q) : Before(Head(q), Tail(q)[n])
<1> DEFINE a == Tail(q)
<1>1. /\ Head(q) = q[1] /\ Len(q) \in Nat \ {0} /\ DOMAIN q = 1 .. Len(q)
      /\ DOMAIN a = 1 .. Len(q) - 1
      /\ \A n \in 1 .. Len(q) - 1 : a[n] = q[n + 1]
  BY TailFacts
<1> HIDE DEF a
<1>2. Ordered(a) BY <1>1 DEF Ordered
<1>3. \A n \in DOMAIN a : Before(Head(q), a[n]) BY <1>1 DEF Ordered
<1> QED BY <1>2, <1>3 DEF a

LEMMA ConnectsFinite ==
    ASSUME NEW q \in Seq(Messages)
    PROVE  IsFiniteSet(Connects(q)) /\ Cardinality(Connects(q)) \in Nat
<1>1. IsFiniteSet(1 .. Len(q)) BY FS_Interval
<1>2. Connects(q) \subseteq 1 .. Len(q) BY DEF Connects
<1> QED BY <1>1, <1>2, FS_Subset, FS_CardinalityType

(* A CONNECT that joins the queue counts one. *)
LEMMA ConnectsAppend ==
    ASSUME NEW q \in Seq(Messages), NEW m \in Messages
    PROVE  Cardinality(Connects(Append(q, m)))
               = Cardinality(Connects(q)) + IF m.kind = "CONNECT" THEN 1 ELSE 0
<1>0. /\ Len(q) \in Nat /\ DOMAIN q = 1 .. Len(q)
      /\ DOMAIN Append(q, m) = 1 .. Len(q) + 1
      /\ \A n \in 1 .. Len(q) : Append(q, m)[n] = q[n]
      /\ Append(q, m)[Len(q) + 1] = m
  BY AppendFacts
<1>1. CASE m.kind = "CONNECT"
  <2>1. Connects(Append(q, m)) = Connects(q) \cup {Len(q) + 1} BY <1>0, <1>1 DEF Connects
  <2>2. Len(q) + 1 \notin Connects(q) BY <1>0 DEF Connects
  <2> QED BY <1>1, <2>1, <2>2, ConnectsFinite, FS_AddElement
<1>2. CASE m.kind # "CONNECT"
  <2>1. Connects(Append(q, m)) = Connects(q) BY <1>0, <1>2 DEF Connects
  <2> QED BY <1>2, <2>1, ConnectsFinite
<1> QED BY <1>1, <1>2

(* A CONNECT that leaves it is one less. *)
LEMMA ConnectsTail ==
    ASSUME NEW q \in Seq(Messages), q # <<>>
    PROVE  /\ Cardinality(Connects(Tail(q))) \in Nat
           /\ Cardinality(Connects(Tail(q))) + (IF Head(q).kind = "CONNECT" THEN 1 ELSE 0)
                 <= Cardinality(Connects(q))
<1> DEFINE Rest == Connects(q) \ {1}
           shift == [n \in Connects(Tail(q)) |-> n + 1]
<1>0. /\ Head(q) = q[1] /\ Len(q) \in Nat \ {0} /\ DOMAIN q = 1 .. Len(q)
      /\ DOMAIN Tail(q) = 1 .. Len(q) - 1
      /\ \A n \in 1 .. Len(q) - 1 : Tail(q)[n] = q[n + 1]
  BY TailFacts
<1>1. shift \in Injection(Connects(Tail(q)), Rest)
  <2>1. \A n \in Connects(Tail(q)) : n \in Nat \ {0} /\ n + 1 \in Rest
    BY <1>0 DEF Connects
  <2> QED BY <2>1 DEF Injection, IsInjective
<1>2. IsFiniteSet(Rest) /\ Cardinality(Rest) \in Nat
  BY ConnectsFinite, FS_Subset, FS_CardinalityType
<1>3. Cardinality(Connects(Tail(q))) <= Cardinality(Rest)
  BY <1>1, <1>2, FS_Injection
<1>4. Cardinality(Connects(Tail(q))) \in Nat BY TailFacts, ConnectsFinite
<1>5. CASE Head(q).kind = "CONNECT"
  <2>1. 1 \in Connects(q) BY <1>5, <1>0 DEF Connects
  <2>2. Cardinality(Rest) = Cardinality(Connects(q)) - 1
    BY <2>1, ConnectsFinite, FS_RemoveElement
  <2> QED BY <1>3, <1>4, <1>5, <2>2, ConnectsFinite
<1>6. CASE Head(q).kind # "CONNECT"
  <2>1. 1 \notin Connects(q) BY <1>6, <1>0 DEF Connects
  <2>2. Rest = Connects(q) BY <2>1
  <2>3. Cardinality(Connects(Tail(q))) <= Cardinality(Connects(q)) BY <1>3, <2>2
  <2> QED BY <1>4, <1>6, <2>3, ConnectsFinite
<1> QED BY <1>5, <1>6

LEMMA ConnectsNone == Cardinality(Connects(<<>>)) = 0
<1>1. Connects(<<>>) = {} BY DEF Connects
<1> QED BY <1>1, FS_EmptySet

-----------------------------------------------------------------------------
(* BaseInv: types, the count and the order of the messages *)

AllPcs == {"idle"} \cup CleanupPcs \cup StartPcs \cup EndPcs
Thread == [pc : AllPcs, inst : 0 .. MaxInstances, session : Counts, then : {"off", "error"}]
Ams == [inst : 0 .. MaxInstances, alive : BOOLEAN, started : BOOLEAN,
        bound : BOOLEAN, sticky : BOOLEAN, notified : BOOLEAN]

LEMMA Bounds ==
    /\ MaxCalls \in Nat /\ MaxInstances \in Nat \ {0} /\ MaxCrashes \in Nat
    /\ Counts \subseteq Nat /\ Sessions = Counts \ {0} /\ 0 \in Counts
BY BoundsAssumption DEF Counts, Sessions

LEMMA BaseInit == Init => BaseInv
<1> SUFFICES ASSUME Init PROVE BaseInv OBVIOUS
<1>1. TypeOK
  <2> USE Bounds DEF Init
  <2>1. store \in [phase : Phases, session : Counts] BY DEF Phases, State
  <2>2. field \in [Instances -> [Resources -> Counts]] BY DEF NoResources
  <2>3. thread \in [Threads -> Thread] BY DEF Thread, AllPcs, Resting
  <2>4. ams \in Ams BY DEF Ams
  <2>5. /\ open \in [Resources -> SUBSET Sessions] /\ engine \in Counts
        /\ owner \in [Sessions -> 0 .. MaxInstances] /\ scheduled \subseteq Sessions
        /\ callback \in [Sessions -> {"none", "entered", "seen"}]
    OBVIOUS
  <2>6. sessions \in Counts /\ dialog \in BOOLEAN /\ died \in BOOLEAN OBVIOUS
  <2>8. calls \in 0 .. MaxCalls /\ crashes \in 0 .. MaxCrashes BY BoundsAssumption
  <2>7. queue \in Seq(Messages) OBVIOUS
  <2> QED BY <2>1, <2>2, <2>3, <2>4, <2>5, <2>6, <2>7, <2>8 DEF TypeOK, Thread, AllPcs, Ams, Messages
<1>2. Counted BY ConnectsNone DEF Init, Counted, Pending, Resting, Threads
<1>3. InstancesKnown /\ SessionKnown
  <2>1. \A t \in Threads : thread[t].pc = "idle" /\ thread[t].inst = 0
    BY DEF Init, Resting
  <2>2. ~ams.alive /\ ~ams.bound /\ ams.inst = 0 BY DEF Init
  <2> QED BY <2>1, <2>2 DEF InstancesKnown, SessionKnown, StartPcs, Here, Threads
<1>4. QueueInOrder BY DEF Init, QueueInOrder, Ordered
<1> QED BY <1>1, <1>2, <1>3, <1>4 DEF BaseInv

(* What the queue and the activity manager's record are, with names. *)
LEMMA TypeFacts ==
    ASSUME TypeOK
    PROVE  /\ queue \in Seq(Messages) /\ ams \in Ams /\ thread \in [Threads -> Thread]
           /\ thread["main"] \in Thread /\ thread["binder"] \in Thread
           /\ DOMAIN queue = 1 .. Len(queue) /\ Len(queue) \in Nat
           /\ \A n \in DOMAIN queue : queue[n] \in Messages
<1>1. queue \in Seq(Messages) /\ ams \in Ams /\ thread \in [Threads -> Thread]
  BY DEF TypeOK, Messages, Ams, Thread, AllPcs
<1>2. thread["main"] \in Thread /\ thread["binder"] \in Thread BY <1>1 DEF Threads
<1>3. DOMAIN queue = 1 .. Len(queue) /\ Len(queue) \in Nat BY <1>1
<1>4. \A n \in DOMAIN queue : queue[n] \in Messages BY <1>1, <1>3
<1> QED BY <1>1, <1>2, <1>3, <1>4

(* A handler that leaves the messages and the service object alone. *)
LEMMA OrderKept ==
    ASSUME QueueInOrder, UNCHANGED queue, ams'.inst = ams.inst, ams'.alive = ams.alive,
           Here' = Here
    PROVE  QueueInOrder'
<1>1. \A i : Owed(i)' <=> Owed(i) BY DEF Owed, DestroyWaits
<1> QED BY <1>1 DEF QueueInOrder, Ordered, InPlace

(* An onDestroy on its way stays on its way while others join the queue.   *)
LEMMA WaitsAppended ==
    ASSUME TypeOK, NEW m \in Messages, queue' = Append(queue, m), NEW i
    PROVE  /\ DestroyWaits(i) => DestroyWaits(i)'
           /\ m = Message("DESTROY", i) => DestroyWaits(i)'
<1>1. /\ Len(queue) \in Nat /\ DOMAIN queue = 1 .. Len(queue)
      /\ DOMAIN queue' = 1 .. Len(queue) + 1
      /\ \A n \in 1 .. Len(queue) : queue'[n] = queue[n]
      /\ queue'[Len(queue) + 1] = m
  BY TypeFacts, AppendFacts
<1> QED BY <1>1 DEF DestroyWaits

(* ... and while others leave it. *)
LEMMA WaitsTaken ==
    ASSUME TypeOK, queue # <<>>, queue' = Tail(queue), NEW i,
           DestroyWaits(i), Head(queue) # Message("DESTROY", i)
    PROVE  DestroyWaits(i)'
<1>1. /\ Len(queue) \in Nat \ {0} /\ DOMAIN queue = 1 .. Len(queue) /\ Head(queue) = queue[1]
      /\ DOMAIN queue' = 1 .. Len(queue) - 1
      /\ \A n \in 1 .. Len(queue) - 1 : queue'[n] = queue[n + 1]
  BY TypeFacts, TailFacts
<1>2. PICK n \in DOMAIN queue : queue[n] = Message("DESTROY", i) BY DEF DestroyWaits
<1>3. n - 1 \in 1 .. Len(queue) - 1 BY <1>1, <1>2
<1>4. n - 1 \in DOMAIN queue' /\ queue'[n - 1] = Message("DESTROY", i) BY <1>1, <1>2, <1>3
<1> QED BY <1>4 DEF DestroyWaits

(* What appending a message takes to keep the order. *)
LEMMA OrderAppended ==
    ASSUME TypeOK, QueueInOrder, NEW m \in Messages, queue' = Append(queue, m),
           \A n \in DOMAIN queue : Before(queue[n], m) /\ InPlace(queue[n])',
           InPlace(m)'
    PROVE  QueueInOrder' /\ queue' \in Seq(Messages)
<1>1. /\ queue \in Seq(Messages) /\ Len(queue) \in Nat /\ DOMAIN queue = 1 .. Len(queue)
      /\ DOMAIN queue' = 1 .. Len(queue) + 1
      /\ \A n \in 1 .. Len(queue) : queue'[n] = queue[n]
      /\ queue'[Len(queue) + 1] = m
  BY TypeFacts, AppendFacts
<1>2. Ordered(queue') BY <1>1, OrderedAppend DEF QueueInOrder
<1>3. ASSUME NEW n \in DOMAIN queue' PROVE InPlace(queue[n])'
  <2>1. CASE n \in 1 .. Len(queue) BY <1>1, <2>1
  <2>2. CASE n = Len(queue) + 1 BY <1>1, <2>2 DEF InPlace
  <2> QED BY <1>1, <2>1, <2>2
<1>4. queue' \in Seq(Messages) BY <1>1, AppendFacts
<1> QED BY <1>2, <1>3, <1>4 DEF QueueInOrder

(* A call reaches the service object that lives, or a new one. *)
LEMMA DeliversKeeps ==
    ASSUME BaseInv, NEW kind \in {"CONNECT", "DISCONNECT"}, Delivers(kind),
           calls < MaxCalls, calls' = calls + 1, UNCHANGED <<thread, sessions, crashes>>
    PROVE  /\ queue' \in Seq(Messages) /\ ams' \in Ams /\ calls' \in 0 .. MaxCalls
           /\ Counted' /\ InstancesKnown' /\ QueueInOrder'
<1>0. TypeOK /\ Counted /\ InstancesKnown /\ QueueInOrder BY DEF BaseInv
<1>1. Reached \in Instances /\ ams.inst <= Reached
  BY <1>0, TypeFacts, Bounds DEF Delivers, CanDeliver, Reached, InstancesKnown, Ams, Instances
<1>2. PICK m \in Messages : m = Message(kind, Reached) /\ m.kind = kind /\ m.inst = Reached
  BY <1>1, MessageType
<1>3. queue' = Append(queue, m) BY <1>2 DEF Delivers
<1>4. /\ ams' \in Ams /\ ams'.inst = Reached /\ ams'.alive
  <2>1. /\ ams \in Ams /\ Reached \in 0 .. MaxInstances
        /\ (ams.alive => ams.sticky) \in BOOLEAN
    BY <1>0, <1>1, TypeFacts DEF Instances
  <2>2. ams' = [ams EXCEPT !.inst = Reached, !.alive = TRUE, !.started = TRUE,
                           !.sticky = (ams.alive => ams.sticky)]
    BY DEF Delivers
  <2> QED BY <2>1, <2>2 DEF Ams
<1>5. queue' \in Seq(Messages)
  <2>1. queue \in Seq(Messages) BY <1>0, TypeFacts
  <2>2. Append(queue, m) \in Seq(Messages) BY <2>1, AppendFacts
  <2> QED BY <1>3, <2>2
<1>6. calls' \in 0 .. MaxCalls
  <2>1. calls \in 0 .. MaxCalls BY <1>0 DEF TypeOK
  <2> QED BY <2>1, BoundsAssumption
<1>7. Counted'
  <2>1. Cardinality(Connects(queue')) <= Cardinality(Connects(queue)) + 1
    BY <1>0, <1>2, <1>3, TypeFacts, ConnectsAppend, ConnectsFinite
  <2>2. Cardinality(Connects(queue')) \in Nat /\ Cardinality(Connects(queue)) \in Nat
    BY <1>0, <1>5, TypeFacts, ConnectsFinite
  <2>3. sessions \in Nat /\ calls \in Nat /\ crashes \in Nat BY <1>0, Bounds DEF TypeOK
  <2> QED BY <1>0, <2>1, <2>2, <2>3 DEF Counted, Pending
<1>8. InstancesKnown'
  BY <1>0, <1>1, <1>4, TypeFacts DEF InstancesKnown, Here, Ams, Thread, Instances
<1>9. QueueInOrder' /\ queue' \in Seq(Messages)
  <2>1. Here' = Here /\ Here \in Nat /\ ams.inst \in Nat /\ Reached \in Nat
    BY <1>0, <1>1, TypeFacts DEF Here, Thread, Ams, Instances
  <2>2. \A i : Owed(i) => Owed(i)'
    BY <1>0, <1>2, <1>3, <1>4, WaitsAppended DEF Owed, Reached
  <2>3. InPlace(m)'
    BY <1>1, <1>2, <1>4, <1>8, <2>1 DEF InPlace, InstancesKnown, Owed, Instances
  <2>4. ASSUME NEW n \in DOMAIN queue PROVE Before(queue[n], m) /\ InPlace(queue[n])'
    <3>1. InPlace(queue[n]) /\ queue[n] \in Messages BY <1>0, TypeFacts DEF QueueInOrder
    <3>2. queue'[n] = queue[n] BY <1>0, <1>2, <1>3, TypeFacts, AppendFacts
    <3>3. queue[n].inst \in Nat /\ queue[n].inst <= Reached
      BY <1>1, <2>1, <3>1 DEF InPlace, Messages, Instances
    <3>4. queue[n].kind = "DESTROY" => queue[n].inst < Reached
      BY <2>1, <3>1, <3>3 DEF InPlace, Reached
    <3>5. Before(queue[n], m) BY <1>2, <3>3, <3>4 DEF Before
    <3>6. InPlace(queue[n])'
      BY <1>4, <2>1, <2>2, <3>1, <3>2, <3>3, <3>4 DEF InPlace
    <3> QED BY <3>5, <3>6
  <2> QED BY <1>0, <1>2, <1>3, <2>3, <2>4, OrderAppended
<1> QED BY <1>4, <1>6, <1>7, <1>8, <1>9

(* A step that moves no message, makes no session and leaves the service   *)
(* object alone; startTunnel may only give up its claim to a session.      *)
LEMMA QuietKeeps ==
    ASSUME BaseInv, UNCHANGED <<queue, sessions, calls, crashes>>,
           ams' \in Ams, ams'.inst = ams.inst, ams'.alive = ams.alive,
           ams'.bound => ams.bound,
           thread' \in [Threads -> Thread], Here' = Here,
           Pending(thread'["main"].pc) <= Pending(thread["main"].pc),
           \A t \in Threads : thread'[t].pc # "idle" => thread'[t].inst \in Instances
    PROVE  Counted' /\ InstancesKnown' /\ QueueInOrder'
<1>0. TypeOK /\ Counted /\ InstancesKnown /\ QueueInOrder BY DEF BaseInv
<1>1. Counted'
  <2>1. Cardinality(Connects(queue)) \in Nat BY <1>0, TypeFacts, ConnectsFinite
  <2>2. sessions \in Nat /\ calls \in Nat /\ crashes \in Nat BY <1>0, Bounds DEF TypeOK
  <2>3. Cardinality(Connects(queue))' = Cardinality(Connects(queue)) OBVIOUS
  <2> QED BY <1>0, <2>1, <2>2, <2>3 DEF Counted, Pending
<1>2. InstancesKnown' BY <1>0 DEF InstancesKnown
<1>3. QueueInOrder' BY <1>0, OrderKept
<1> QED BY <1>1, <1>2, <1>3

(* The calls of the user, the notification and the system. *)
LEMMA BaseCalls ==
    ASSUME BaseInv, SystemStarts \/ NotificationStops \/ ToggleOff \/ StartVpnService
    PROVE  BaseInv'
<1> USE DEF appVars
<1>1. /\ \E kind \in {"CONNECT", "DISCONNECT"} : Delivers(kind)
      /\ calls < MaxCalls /\ calls' = calls + 1
      /\ UNCHANGED <<field, open, engine, died, owner, scheduled, callback, thread, sessions, crashes>>
      /\ store' \in {store, State("Starting", 0)} /\ dialog' \in {dialog, FALSE}
  BY DEF SystemStarts, NotificationStops, ToggleOff, StartVpnService
<1>2. /\ queue' \in Seq(Messages) /\ ams' \in Ams /\ calls' \in 0 .. MaxCalls
      /\ Counted' /\ InstancesKnown' /\ QueueInOrder'
  BY <1>1, DeliversKeeps
<1>3. TypeOK'
  <2>1. store' \in [phase : Phases, session : Counts]
    BY <1>1, Bounds DEF BaseInv, TypeOK, State, Phases
  <2> QED BY <1>1, <1>2, <2>1 DEF BaseInv, TypeOK, Messages, Ams
<1>4. SessionKnown' BY <1>1 DEF BaseInv, SessionKnown
<1> QED BY <1>2, <1>3, <1>4 DEF BaseInv

(* The dialog, the end of the binding, the selectors' threads and the end  *)
(* of the worker.                                                          *)
LEMMA BaseOthers ==
    ASSUME BaseInv,
           \/ ToggleOn \/ PermissionDenied \/ SystemUnbinds \/ EngineEnds
           \/ \E k \in Sessions : CallbackEnters(k) \/ CallbackLooks(k) \/ CallbackUpdates(k)
    PROVE  BaseInv'
<1> USE DEF appVars, systemVars
<1>1. /\ UNCHANGED <<field, open, owner, scheduled, thread, sessions, queue, calls, crashes>>
      /\ ams' \in {ams, [ams EXCEPT !.bound = FALSE]} /\ dialog' \in BOOLEAN
      /\ engine' \in {engine, 0} /\ died' \in BOOLEAN
      /\ store' = store \/ \E k \in Sessions : store' = State("On", k)
      /\ \/ callback' = callback
         \/ \E k \in Sessions, v \in {"none", "entered", "seen"} : callback' = [callback EXCEPT ![k] = v]
  BY DEF BaseInv, TypeOK, ToggleOn, PermissionDenied, SystemUnbinds, EngineEnds, CallbackEnters,
         CallbackLooks, CallbackUpdates
<1>2. /\ TypeOK /\ ams \in Ams /\ thread \in [Threads -> Thread] BY TypeFacts DEF BaseInv
<1>3. ams' \in Ams /\ ams'.inst = ams.inst /\ ams'.alive = ams.alive /\ (ams'.bound => ams.bound)
  BY <1>1, <1>2 DEF Ams
<1>4. Counted' /\ InstancesKnown' /\ QueueInOrder'
  BY <1>1, <1>2, <1>3, QuietKeeps DEF Here, Pending, BaseInv, InstancesKnown
<1>5. TypeOK'
  <2>1. store' \in [phase : Phases, session : Counts]
    BY <1>1, <1>2, Bounds DEF TypeOK, State, Phases
  <2>2. callback' \in [Sessions -> {"none", "entered", "seen"}] BY <1>1, <1>2 DEF TypeOK
  <2>3. engine' \in Counts BY <1>1, <1>2, Bounds DEF TypeOK
  <2> QED BY <1>1, <1>2, <1>3, <2>1, <2>2, <2>3 DEF TypeOK, Ams
<1>6. SessionKnown' BY <1>1 DEF BaseInv, SessionKnown
<1> QED BY <1>4, <1>5, <1>6 DEF BaseInv

(* The service object is given up, and its onDestroy joins the queue as    *)
(* the last message it will get.                                           *)
LEMMA BaseDestroys == ASSUME BaseInv, SystemDestroys PROVE BaseInv'
<1> USE DEF appVars
<1>1. TypeOK /\ Counted /\ InstancesKnown /\ SessionKnown /\ QueueInOrder BY DEF BaseInv
<1>2. /\ ams.alive /\ ams.inst \in Instances /\ ams \in Ams
      /\ ams' = [ams EXCEPT !.alive = FALSE, !.notified = FALSE]
      /\ UNCHANGED <<thread, sessions, calls, crashes>>
  BY <1>1, TypeFacts DEF SystemDestroys, InstancesKnown
<1>3. ams' \in Ams /\ ~ams'.alive /\ ams'.inst = ams.inst /\ ams'.bound = ams.bound
  BY <1>2 DEF Ams
<1>4. PICK m \in Messages : m = Message("DESTROY", ams.inst) /\ m.kind = "DESTROY" /\ m.inst = ams.inst
  BY <1>2, MessageType
<1>5. queue' = Append(queue, m) BY <1>4 DEF SystemDestroys
<1>6. Here' = Here /\ Here \in Nat /\ ams.inst \in Nat
  BY <1>1, <1>2, TypeFacts DEF Here, Thread, Instances
<1>7. \A i : Owed(i) => Owed(i)'
  BY <1>1, <1>2, <1>4, <1>5, WaitsAppended DEF Owed
<1>8. InPlace(m)'
  BY <1>1, <1>2, <1>3, <1>4, <1>6, <1>7 DEF InPlace, InstancesKnown, Owed
<1>9. ASSUME NEW n \in DOMAIN queue PROVE Before(queue[n], m) /\ InPlace(queue[n])'
  <2>1. InPlace(queue[n]) /\ queue[n] \in Messages BY <1>1, TypeFacts DEF QueueInOrder
  <2>2. queue'[n] = queue[n] BY <1>1, <1>4, <1>5, TypeFacts, AppendFacts
  <2>3. Before(queue[n], m)
    BY <1>2, <1>4, <1>6, <2>1 DEF InPlace, Before, Messages, Instances
  <2>4. InPlace(queue[n])' BY <1>3, <1>6, <1>7, <2>1, <2>2 DEF InPlace
  <2> QED BY <2>3, <2>4
<1>10. QueueInOrder' /\ queue' \in Seq(Messages)
  BY <1>1, <1>4, <1>5, <1>8, <1>9, OrderAppended
<1>11. Counted'
  <2>1. Cardinality(Connects(queue')) = Cardinality(Connects(queue))
    BY <1>1, <1>4, <1>5, TypeFacts, ConnectsAppend, ConnectsFinite
  <2> QED BY <1>1, <1>2, <2>1 DEF Counted
<1>12. InstancesKnown' /\ SessionKnown'
  BY <1>1, <1>2, <1>3 DEF InstancesKnown, SessionKnown, Here
<1>13. TypeOK' BY <1>1, <1>3, <1>10 DEF TypeOK, SystemDestroys, Messages, Ams
<1> QED BY <1>10, <1>11, <1>12, <1>13 DEF BaseInv

(* A crash empties everything; the CONNECT that restarts a sticky service  *)
(* is the one the crash pays for.                                          *)
LEMMA BaseCrash == ASSUME BaseInv, ProcessDies PROVE BaseInv'
<1>1. TypeOK /\ Counted /\ InstancesKnown BY DEF BaseInv
<1>2. /\ ams \in Ams /\ crashes' = crashes + 1 /\ crashes < MaxCrashes
      /\ UNCHANGED <<sessions, calls>> /\ thread' = [t \in Threads |-> Resting]
  BY <1>1, TypeFacts DEF ProcessDies
<1> DEFINE back == ams.alive /\ ams.started /\ ams.sticky /\ ams.inst < MaxInstances
<1>3. /\ ams' \in Ams /\ queue' \in Seq(Messages) /\ QueueInOrder' /\ Here' = 0
      /\ Cardinality(Connects(queue')) \in {0, 1}
      /\ ams'.alive \/ ams'.bound => ams'.inst \in Instances
  <2>1. CASE back
    <3>1. ams.inst + 1 \in Instances BY <1>1, <1>2, <2>1, Bounds DEF InstancesKnown, Instances
    <3>2. PICK m \in Messages :
             m = Message("CONNECT", ams.inst + 1) /\ m.kind = "CONNECT" /\ m.inst = ams.inst + 1
      BY <3>1, MessageType
    <3>3. queue' = <<m>> BY <2>1, <3>2 DEF ProcessDies
    <3>4. ams' \in Ams /\ ams'.alive /\ ams'.inst = ams.inst + 1 /\ ~ams'.bound
      <4>1. ams' = [ams EXCEPT !.inst = ams.inst + 1, !.alive = TRUE, !.started = TRUE,
                               !.bound = FALSE, !.sticky = TRUE, !.notified = FALSE]
        BY <2>1 DEF ProcessDies
      <4>2. ams.inst + 1 \in 0 .. MaxInstances BY <3>1 DEF Instances
      <4> QED BY <1>2, <4>1, <4>2 DEF Ams
    <3>5. queue' \in Seq(Messages) /\ DOMAIN queue' = {1} /\ queue'[1] = m BY <3>3
    <3>6. Cardinality(Connects(queue')) = 1
      <4>1. Connects(queue') = {1} BY <3>2, <3>5 DEF Connects
      <4> QED BY <4>1, FS_Singleton
    <3>7. Here' = 0 BY <1>2 DEF Here, Resting, Threads
    <3>8. Ordered(queue') BY <3>5 DEF Ordered
    <3>9. QueueInOrder'
      BY <3>1, <3>2, <3>4, <3>5, <3>7, <3>8 DEF QueueInOrder, InPlace, Owed, Instances
    <3> QED BY <3>1, <3>4, <3>5, <3>6, <3>7, <3>9
  <2>2. CASE ~back
    <3>1. queue' = <<>> BY <2>2 DEF ProcessDies
    <3>2. ams' \in Ams /\ ~ams'.alive /\ ams'.inst = ams.inst /\ ~ams'.bound
      BY <1>2, <2>2 DEF ProcessDies, Ams
    <3>3. Here' = 0 BY <1>2 DEF Here, Resting, Threads
    <3>4. QueueInOrder' BY <3>1 DEF QueueInOrder, Ordered
    <3> QED BY <3>1, <3>2, <3>3, <3>4, ConnectsNone
  <2> QED BY <2>1, <2>2
<1>4. Counted'
  <2>1. thread'["main"].pc = "idle" BY <1>2 DEF Resting, Threads
  <2>2. sessions <= calls + crashes
    <3>1. Cardinality(Connects(queue)) \in Nat BY <1>1, TypeFacts, ConnectsFinite
    <3>2. sessions \in Nat /\ calls \in Nat /\ crashes \in Nat BY <1>1, Bounds DEF TypeOK
    <3> QED BY <1>1, <3>1, <3>2 DEF Counted, Pending
  <2>3. sessions \in Nat /\ calls \in Nat /\ crashes \in Nat BY <1>1, Bounds DEF TypeOK
  <2> QED BY <1>2, <1>3, <2>1, <2>2, <2>3 DEF Counted, Pending
<1>5. InstancesKnown' /\ SessionKnown'
  <2>1. \A t \in Threads : thread'[t].pc = "idle" BY <1>2 DEF Resting
  <2>2. ams'.inst \in Nat BY <1>3 DEF Ams
  <2> QED BY <1>3, <2>1, <2>2 DEF InstancesKnown, SessionKnown, Threads, StartPcs
<1>6. TypeOK'
  <2>1. store' \in [phase : Phases, session : Counts] BY Bounds DEF ProcessDies, State, Phases
  <2>2. thread' \in [Threads -> Thread] BY <1>2, Bounds DEF Resting, Thread, AllPcs
  <2>3. crashes' \in 0 .. MaxCrashes
    <3>1. crashes \in 0 .. MaxCrashes BY <1>1 DEF TypeOK
    <3> QED BY <1>2, <3>1, BoundsAssumption
  <2>4. field' \in [Instances -> [Resources -> Counts]] BY Bounds DEF ProcessDies, NoResources
  <2>5. /\ open' \in [Resources -> SUBSET Sessions] /\ engine' \in Counts
        /\ died' \in BOOLEAN /\ scheduled' \subseteq Sessions /\ dialog' \in BOOLEAN
    BY Bounds DEF ProcessDies
  <2>7. owner' \in [Sessions -> 0 .. MaxInstances] BY BoundsAssumption DEF ProcessDies
  <2>8. callback' \in [Sessions -> {"none", "entered", "seen"}] BY DEF ProcessDies
  <2>6. sessions' \in Counts /\ calls' \in 0 .. MaxCalls BY <1>1, <1>2 DEF TypeOK
  <2> QED BY <1>3, <2>1, <2>2, <2>3, <2>4, <2>5, <2>6, <2>7, <2>8 DEF TypeOK, Thread, AllPcs, Ams, Messages
<1> QED BY <1>3, <1>4, <1>5, <1>6 DEF BaseInv

(* The main thread takes the first message: the count moves from the queue *)
(* to the handler, and what stays in the queue is not for an older service *)
(* object.                                                                 *)
LEMMA BaseTakes == ASSUME BaseInv, MainTakes PROVE BaseInv'
<1>1. TypeOK /\ Counted /\ InstancesKnown /\ QueueInOrder BY DEF BaseInv
<1>2. PICK m \in Messages : m = Head(queue)
  BY <1>1, TypeFacts, TailFacts DEF MainTakes
<1>3. /\ queue # <<>> /\ queue' = Tail(queue)
      /\ thread["main"].pc = "idle"
      /\ Enters("main", IF m.kind = "CONNECT" THEN "guard" ELSE "closeSel", m.inst, "off")
      /\ UNCHANGED <<store, field, open, engine, died, owner, scheduled, callback, sessions,
                     dialog, calls, crashes>>
  BY <1>2 DEF MainTakes, MainIdle
<1>4. /\ queue \in Seq(Messages) /\ queue' \in Seq(Messages)
      /\ Len(queue) \in Nat \ {0} /\ DOMAIN queue = 1 .. Len(queue) /\ m = queue[1]
      /\ DOMAIN queue' = 1 .. Len(queue) - 1
      /\ \A n \in 1 .. Len(queue) - 1 : queue'[n] = queue[n + 1] /\ queue[n + 1] \in Messages
  BY <1>1, <1>2, <1>3, TypeFacts, TailFacts
<1>5. ams' \in Ams /\ ams'.inst = ams.inst /\ ams'.alive = ams.alive /\ ams'.bound = ams.bound
  <2>1. ams \in Ams BY <1>1, TypeFacts
  <2>2. CASE m.kind = "DESTROY" BY <1>2, <2>1, <2>2 DEF MainTakes
  <2>3. CASE m.kind # "DESTROY"
    <3>1. ams' = [ams EXCEPT !.sticky = (m.kind = "CONNECT"),
                             !.notified = (ams.notified \/ m.kind = "CONNECT")]
      BY <1>2, <2>3 DEF MainTakes
    <3> QED BY <2>1, <3>1 DEF Ams
  <2> QED BY <2>2, <2>3
<1>6. /\ thread' \in [Threads -> Thread] /\ thread'["binder"] = thread["binder"]
      /\ thread'["main"].inst = m.inst /\ m.inst \in Instances
      /\ thread'["main"].pc = IF m.kind = "CONNECT" THEN "guard" ELSE "closeSel"
  <2>1. /\ thread \in [Threads -> Thread]
        /\ m.inst \in Instances /\ m.inst \in 0 .. MaxInstances
    BY <1>1, <1>2, TypeFacts DEF Messages, Instances
  <2> QED BY <1>3, <2>1, Bounds DEF Enters, Threads, Thread, AllPcs, StartPcs, CleanupPcs
<1>7. Counted'
  <2>1. Cardinality(Connects(queue')) + (IF m.kind = "CONNECT" THEN 1 ELSE 0)
           <= Cardinality(Connects(queue))
        /\ Cardinality(Connects(queue')) \in Nat
    BY <1>2, <1>3, <1>4, ConnectsTail
  <2>2. Cardinality(Connects(queue)) \in Nat BY <1>4, ConnectsFinite
  <2>3. sessions \in Nat /\ calls \in Nat /\ crashes \in Nat BY <1>1, Bounds DEF TypeOK
  <2> QED BY <1>1, <1>3, <1>6, <2>1, <2>2, <2>3 DEF Counted, Pending
<1>8. Here' = m.inst /\ InPlace(m) /\ m.inst <= ams.inst
  BY <1>1, <1>4, <1>6 DEF Here, QueueInOrder, InPlace
<1>9. InstancesKnown' BY <1>1, <1>5, <1>6, <1>8 DEF InstancesKnown, Threads
<1>10. SessionKnown' BY <1>6 DEF SessionKnown, StartPcs
<1>11. \A i : Owed(i) => Owed(i)' \/ m = Message("DESTROY", i)
  BY <1>1, <1>2, <1>3, <1>5, WaitsTaken DEF Owed
<1>12. QueueInOrder'
  <2>1. Ordered(queue') /\ \A n \in DOMAIN queue' : Before(m, queue'[n])
    BY <1>1, <1>2, <1>3, <1>4, OrderedTail DEF QueueInOrder
  <2>2. ASSUME NEW n \in DOMAIN queue' PROVE InPlace(queue[n])'
    <3>1. queue'[n] = queue[n + 1] /\ n + 1 \in DOMAIN queue BY <1>4
    <3>2. InPlace(queue[n + 1]) BY <1>1, <3>1 DEF QueueInOrder
    <3>3. Before(m, queue'[n]) BY <2>1
    <3>4. m # Message("DESTROY", queue'[n].inst)
      BY <3>3, <1>4, <3>1 DEF Before, Message, Messages, Instances
    <3> QED BY <1>5, <1>8, <1>11, <3>1, <3>2, <3>3, <3>4 DEF InPlace, Before
  <2> QED BY <2>1, <2>2 DEF QueueInOrder
<1>13. TypeOK' BY <1>1, <1>3, <1>4, <1>5, <1>6 DEF TypeOK, Messages, Ams, Thread, AllPcs
<1> QED BY <1>7, <1>9, <1>10, <1>12, <1>13 DEF BaseInv

LEMMA BaseRevokes == ASSUME BaseInv, Revokes PROVE BaseInv'
<1>1. TypeOK /\ InstancesKnown /\ ams \in Ams /\ thread \in [Threads -> Thread]
  BY TypeFacts DEF BaseInv
<1>2. ams.inst \in Instances /\ ams.inst \in 0 .. MaxInstances
  BY <1>1 DEF Revokes, InstancesKnown, Ams
<1>3. ams' \in Ams /\ ams'.inst = ams.inst /\ ams'.alive = ams.alive /\ ~ams'.bound
  BY <1>1 DEF Revokes, Ams
<1>4. /\ thread' \in [Threads -> Thread] /\ thread'["main"] = thread["main"]
      /\ thread'["binder"].inst = ams.inst
  BY <1>1, <1>2, Bounds DEF Revokes, Enters, Threads, Thread, AllPcs, CleanupPcs
<1>5. Pending(thread'["main"].pc) <= Pending(thread["main"].pc) BY <1>4 DEF Pending
<1>6. \A t \in Threads : thread'[t].pc # "idle" => thread'[t].inst \in Instances
  BY <1>1, <1>2, <1>4 DEF InstancesKnown, Threads
<1>7. Counted' /\ InstancesKnown' /\ QueueInOrder'
  BY <1>3, <1>4, <1>5, <1>6, QuietKeeps DEF Revokes, Here
<1>8. SessionKnown' BY <1>4 DEF BaseInv, SessionKnown
<1>9. TypeOK' BY <1>1, <1>3, <1>4 DEF Revokes, TypeOK, Ams, Thread, AllPcs
<1> QED BY <1>7, <1>8, <1>9 DEF BaseInv

(* A statement of a handler that only moves the handler on. *)
LEMMA BaseGoes ==
    ASSUME BaseInv, NEW t \in Threads,
           thread[t].pc # "idle",
           thread' \in [Threads -> Thread], thread'[t].inst = thread[t].inst,
           \A u \in Threads \ {t} : thread'[u] = thread[u],
           Pending(thread'["main"].pc) <= Pending(thread["main"].pc),
           UNCHANGED <<sessions, queue, calls, crashes>>,
           ams' \in Ams, ams'.inst = ams.inst, ams'.alive = ams.alive, ams'.bound = ams.bound
    PROVE  Counted' /\ InstancesKnown' /\ QueueInOrder'
<1>1. Here' = Here BY DEF Here, Threads
<1>2. \A u \in Threads : thread'[u].pc # "idle" => thread'[u].inst \in Instances
  BY DEF BaseInv, InstancesKnown
<1> QED BY <1>1, <1>2, QuietKeeps

(* The statements of cleanupTunnel and stopTunnel. *)
LEMMA BaseStops ==
    ASSUME BaseInv, NEW t \in Threads, StopSteps(t)
    PROVE  BaseInv'
<1>1. TypeOK /\ InstancesKnown /\ SessionKnown /\ ams \in Ams /\ thread \in [Threads -> Thread]
      /\ thread[t] \in Thread
  BY TypeFacts DEF BaseInv
<1>2. \E pc \in {"idle", "stopSelf"} \cup CleanupPcs \cup {"off", "error"} : Goes(t, pc)
  BY <1>1 DEF StopSteps, Closes, Nulls, StopsEngine, Announces, StopsSelf, Advances, AfterCleanup,
              ClosedBy, NulledBy, At, CleanupPcs, Thread
<1>3. /\ thread' \in [Threads -> Thread] /\ thread'[t].inst = thread[t].inst
      /\ thread'[t].session = thread[t].session
      /\ thread'[t].pc \notin StartPcs
      /\ \A u \in Threads \ {t} : thread'[u] = thread[u]
  BY <1>1, <1>2 DEF Goes, Thread, AllPcs, StartPcs, EndPcs, CleanupPcs
<1>4. thread[t].pc # "idle" /\ thread[t].pc \notin StartPcs
  BY DEF StopSteps, Closes, Nulls, StopsEngine, Announces, StopsSelf, ClosedBy, NulledBy, At, StartPcs
<1>5. Pending(thread'["main"].pc) <= Pending(thread["main"].pc)
  BY <1>3, <1>4 DEF Pending, StartPcs, Threads
<1>6. /\ ams' \in Ams /\ ams'.inst = ams.inst /\ ams'.alive = ams.alive /\ ams'.bound = ams.bound
      /\ UNCHANGED <<owner, scheduled, callback, sessions, queue, dialog, calls, crashes>>
  BY <1>1 DEF StopSteps, Closes, Nulls, StopsEngine, Announces, StopsSelf, systemVars, Ams
<1>7. Counted' /\ InstancesKnown' /\ QueueInOrder' BY <1>3, <1>4, <1>5, <1>6, BaseGoes
<1>8. SessionKnown' BY <1>1, <1>3, <1>4 DEF SessionKnown, Threads
<1>9. TypeOK'
  <2>1. store' \in [phase : Phases, session : Counts]
    BY <1>1, Bounds DEF TypeOK, StopSteps, Closes, Nulls, StopsEngine, Announces, StopsSelf, State, Phases
  <2>2. field' \in [Instances -> [Resources -> Counts]]
    <3>1. field \in [Instances -> [Resources -> Counts]] /\ 0 \in Counts BY <1>1, Bounds DEF TypeOK
    <3>2. field' = field \/ \E i, r : field' = [field EXCEPT ![i][r] = 0]
      BY DEF StopSteps, Closes, Nulls, StopsEngine, Announces, StopsSelf
    <3> QED BY <3>1, <3>2
  <2>3. open' \in [Resources -> SUBSET Sessions]
    BY <1>1 DEF TypeOK, StopSteps, Closes, Nulls, StopsEngine, Announces, StopsSelf
  <2>4. engine' \in Counts /\ died' \in BOOLEAN
    BY <1>1, Bounds DEF TypeOK, StopSteps, Closes, Nulls, StopsEngine, Announces, StopsSelf
  <2> QED BY <1>1, <1>3, <1>6, <2>1, <2>2, <2>3, <2>4 DEF TypeOK, Thread, AllPcs, Ams
<1> QED BY <1>7, <1>8, <1>9 DEF BaseInv

(* The statements of startTunnel: a session that is made was counted as    *)
(* pending, so its number is in range; only establish () changes what the  *)
(* activity manager knows.                                                 *)
EarlyPcs == {"guard", "starting", "newSel"}

LEMMA BaseStarts ==
    ASSUME BaseInv,
           \/ StartGuard \/ StartAnnounces \/ StartOpensRelay \/ StartSets \/ StartGetsFd
           \/ StartEngine \/ StartSucceeds \/ StartsSelector
    PROVE  BaseInv'
<1>1. TypeOK /\ InstancesKnown /\ SessionKnown /\ ams \in Ams /\ thread \in [Threads -> Thread]
      /\ thread["main"] \in Thread
  BY TypeFacts DEF BaseInv
<1>2. /\ \/ \E pc \in {"idle"} \cup StartPcs :
               /\ Goes("main", pc)
               /\ pc \in LatePcs => thread["main"].pc \in LatePcs
               /\ pc \in EarlyPcs => thread["main"].pc \in EarlyPcs
         \/ thread' = [thread EXCEPT !["main"].pc = "closeSel", !["main"].then = "error"]
      /\ thread["main"].pc \in StartPcs
  BY DEF StartGuard, StartAnnounces, StartOpensRelay, StartSets, StartGetsFd, StartEngine,
         StartSucceeds, StartsSelector, Fails, At, StartPcs, AfterSet, SetBy, EarlyPcs, LatePcs
<1>3. /\ thread' \in [Threads -> Thread] /\ thread'["main"].inst = thread["main"].inst
      /\ thread'["main"].session = thread["main"].session
      /\ thread'["main"].pc \in LatePcs => thread["main"].pc \in LatePcs
      /\ thread'["main"].pc \in EarlyPcs => thread["main"].pc \in EarlyPcs
      /\ \A u \in Threads \ {"main"} : thread'[u] = thread[u]
  BY <1>1, <1>2 DEF Goes, Thread, AllPcs, StartPcs, CleanupPcs, LatePcs, EarlyPcs, Threads
<1>4. Pending(thread'["main"].pc) <= Pending(thread["main"].pc)
  BY <1>3 DEF Pending, EarlyPcs
<1>5. UNCHANGED <<owner, callback, sessions, queue, ams, dialog, calls, crashes>>
  BY DEF StartGuard, StartAnnounces, StartOpensRelay, StartSets, StartGetsFd, StartEngine,
         StartSucceeds, StartsSelector, systemVars
<1>6. Counted' /\ InstancesKnown' /\ QueueInOrder'
  BY <1>1, <1>2, <1>3, <1>4, <1>5, BaseGoes DEF StartPcs, Threads
<1>7. SessionKnown' BY <1>1, <1>3 DEF SessionKnown, LatePcs, EarlyPcs
<1>8. TypeOK'
  <2>1. store' \in [phase : Phases, session : Counts]
    BY <1>1, Bounds DEF TypeOK, Thread, State, Phases, StartGuard, StartAnnounces, StartOpensRelay,
          StartSets, StartGetsFd, StartEngine, StartSucceeds, StartsSelector
  <2>2. field' \in [Instances -> [Resources -> Counts]]
    <3>1. field \in [Instances -> [Resources -> Counts]] /\ thread["main"].session \in Counts
      BY <1>1 DEF TypeOK, Thread
    <3>2. field' = field \/ \E i, r : field' = [field EXCEPT ![i][r] = thread["main"].session]
      BY DEF StartGuard, StartAnnounces, StartOpensRelay, StartSets, StartGetsFd, StartEngine,
             StartSucceeds, StartsSelector
    <3> QED BY <3>1, <3>2
  <2>3. open' \in [Resources -> SUBSET Sessions]
    <3>1. CASE StartOpensRelay
      <4>1. thread["main"].session \in Sessions
        BY <1>1, <3>1 DEF SessionKnown, StartOpensRelay, At, StartPcs
      <4>2. open' = [open EXCEPT !["relay"] = @ \cup {thread["main"].session}] \/ open' = open
        BY <3>1 DEF StartOpensRelay
      <4> QED BY <1>1, <4>1, <4>2 DEF TypeOK, Resources
    <3>2. CASE ~StartOpensRelay
      BY <1>1, <3>2 DEF TypeOK, StartGuard, StartAnnounces, StartSets, StartGetsFd, StartEngine,
                        StartSucceeds, StartsSelector
    <3> QED BY <3>1, <3>2
  <2>4. engine' \in Counts /\ died' \in BOOLEAN
    BY <1>1, Bounds DEF TypeOK, Thread, StartGuard, StartAnnounces, StartOpensRelay, StartSets,
          StartGetsFd, StartEngine, StartSucceeds, StartsSelector
  <2>5. scheduled' \subseteq Sessions
    <3>1. scheduled \subseteq Sessions /\ open["sel"] \subseteq Sessions
      BY <1>1 DEF TypeOK, Resources
    <3>2. scheduled' \in {scheduled, scheduled \cup ({thread["main"].session} \cap open["sel"])}
      BY DEF StartGuard, StartAnnounces, StartOpensRelay, StartSets, StartGetsFd,
             StartEngine, StartSucceeds, StartsSelector
    <3> QED BY <3>1, <3>2
  <2> QED BY <1>1, <1>3, <1>5, <2>1, <2>2, <2>3, <2>4, <2>5 DEF TypeOK, Thread, AllPcs
<1> QED BY <1>6, <1>7, <1>8 DEF BaseInv

LEMMA BaseMakesSelector == ASSUME BaseInv, StartMakesSelector PROVE BaseInv'
<1> DEFINE k == sessions + 1
<1>1. TypeOK /\ Counted /\ InstancesKnown /\ SessionKnown /\ QueueInOrder /\ ams \in Ams
      /\ thread \in [Threads -> Thread] /\ thread["main"] \in Thread
  BY TypeFacts DEF BaseInv
<1>2. UNCHANGED <<store, field, engine, died, scheduled, callback, queue, ams, dialog, calls, crashes>>
      /\ thread["main"].pc = "newSel"
  BY DEF StartMakesSelector, systemVars, At
<1>3. CASE Fails /\ UNCHANGED <<sessions, open, owner>>
  <2>1. /\ thread' \in [Threads -> Thread] /\ thread'["main"].inst = thread["main"].inst
        /\ thread'["main"].pc = "closeSel"
        /\ \A u \in Threads \ {"main"} : thread'[u] = thread[u]
    BY <1>1, <1>3 DEF Fails, Thread, AllPcs, CleanupPcs, Threads
  <2>2. Pending(thread'["main"].pc) <= Pending(thread["main"].pc) BY <1>2, <2>1 DEF Pending
  <2>3. Counted' /\ InstancesKnown' /\ QueueInOrder'
    BY <1>1, <1>2, <1>3, <2>1, <2>2, BaseGoes DEF Threads
  <2>4. SessionKnown' BY <2>1 DEF SessionKnown, StartPcs
  <2>5. TypeOK' BY <1>1, <1>2, <1>3, <2>1 DEF TypeOK, Thread, AllPcs
  <2> QED BY <2>3, <2>4, <2>5 DEF BaseInv
<1>4. CASE ~(Fails /\ UNCHANGED <<sessions, open, owner>>)
  <2>1. /\ sessions' = k
        /\ thread' = [thread EXCEPT !["main"].pc = "setSel", !["main"].session = k]
        /\ open' = [open EXCEPT !["sel"] = @ \cup {k}]
        /\ owner' = [owner EXCEPT ![k] = thread["main"].inst]
    BY <1>4 DEF StartMakesSelector
  <2>2. /\ Cardinality(Connects(queue)) \in Nat /\ sessions \in Nat
        /\ calls \in 0 .. MaxCalls /\ crashes \in 0 .. MaxCrashes
    BY <1>1, TypeFacts, ConnectsFinite, Bounds DEF TypeOK
  <2>3. k + Cardinality(Connects(queue)) <= calls + crashes
    BY <1>1, <1>2, <2>2, BoundsAssumption DEF Counted, Pending
  <2>4. k \in Sessions /\ k \in Counts
    BY <2>2, <2>3, BoundsAssumption DEF Sessions, Counts
  <2> HIDE DEF k
  <2>5. /\ thread' \in [Threads -> Thread] /\ thread'["main"].inst = thread["main"].inst
        /\ thread'["main"].pc = "setSel" /\ thread'["main"].session = k
        /\ \A u \in Threads \ {"main"} : thread'[u] = thread[u]
    BY <1>1, <2>1, <2>4 DEF Thread, AllPcs, StartPcs, Threads
  <2>6. Counted' BY <1>2, <2>1, <2>2, <2>3, <2>4, <2>5 DEF Counted, Pending, Counts
  <2>7. InstancesKnown'
    BY <1>1, <1>2, <2>5 DEF InstancesKnown, Here, Threads
  <2>8. QueueInOrder' BY <1>1, <1>2, <2>5, OrderKept DEF Here
  <2>9. SessionKnown' BY <2>4, <2>5 DEF SessionKnown
  <2>10. TypeOK'
    <3>1. open' \in [Resources -> SUBSET Sessions] BY <1>1, <2>1, <2>4 DEF TypeOK
    <3>2. owner' \in [Sessions -> 0 .. MaxInstances] BY <1>1, <2>1 DEF TypeOK, Thread
    <3> QED BY <1>1, <1>2, <2>1, <2>4, <2>5, <3>1, <3>2 DEF TypeOK, Thread, AllPcs
  <2> QED BY <2>6, <2>7, <2>8, <2>9, <2>10 DEF BaseInv
<1> QED BY <1>3, <1>4

(* establish () binds the service, and creates one if none is alive: a new *)
(* object comes after all that have messages.                              *)
LEMMA BaseEstablishes == ASSUME BaseInv, StartEstablishes PROVE BaseInv'
<1>1. TypeOK /\ Counted /\ InstancesKnown /\ SessionKnown /\ QueueInOrder /\ ams \in Ams
      /\ thread \in [Threads -> Thread] /\ thread["main"] \in Thread
  BY TypeFacts DEF BaseInv
<1>2. UNCHANGED <<store, field, engine, died, owner, scheduled, callback, sessions, queue, dialog,
                  calls, crashes>>
      /\ thread["main"].pc = "newTun"
  BY DEF StartEstablishes, At
<1>3. /\ thread' \in [Threads -> Thread] /\ thread'["main"].inst = thread["main"].inst
      /\ thread'["main"].session = thread["main"].session
      /\ thread'["main"].pc \in {"setTun", "closeSel"}
      /\ \A u \in Threads \ {"main"} : thread'[u] = thread[u]
  BY <1>1 DEF StartEstablishes, Goes, Fails, Thread, AllPcs, CleanupPcs, StartPcs, Threads
<1>4. thread["main"].session \in Sessions BY <1>1, <1>2 DEF SessionKnown, StartPcs
<1>5. open' \in [Resources -> SUBSET Sessions]
  <2>1. open' \in {open, [open EXCEPT !["tun"] = @ \cup {thread["main"].session}]}
    BY DEF StartEstablishes
  <2> QED BY <1>1, <1>4, <2>1 DEF TypeOK, Resources
<1>6. /\ ams' \in Ams /\ ams.inst <= ams'.inst
      /\ ams.alive => ams'.alive /\ ams'.inst = ams.inst
      /\ ams'.alive /\ ~ams.alive => ams.inst < ams'.inst
      /\ ams'.alive \/ ams'.bound => ams'.inst \in Instances
  <2>1. thread["main"].inst \in Instances /\ Here <= ams.inst
    BY <1>1, <1>2 DEF InstancesKnown, Threads
  <2>2. ams.inst \in Instances
    BY <1>1, <2>1 DEF Ams, Instances, Here
  <2>3. CanDeliver => Reached \in Instances /\ Reached \in 0 .. MaxInstances
    BY <1>1, <2>2, Bounds DEF CanDeliver, Reached, Instances, Ams
  <2>4. ams.inst \in Nat BY <2>2 DEF Instances
  <2>5. CASE ams' = ams BY <1>1, <2>4, <2>5 DEF InstancesKnown
  <2>6. CASE ams' = [ams EXCEPT !.bound = TRUE] /\ ~CanDeliver
    <3>1. ~ams.alive BY <2>6 DEF CanDeliver
    <3>2. ams' \in Ams /\ ams'.inst = ams.inst /\ ams'.alive = ams.alive BY <1>1, <2>6 DEF Ams
    <3> QED BY <2>2, <2>4, <3>1, <3>2
  <2>7. CASE ams' = [ams EXCEPT !.bound = TRUE, !.alive = TRUE, !.inst = Reached] /\ CanDeliver
    <3>1. ams' \in Ams /\ ams'.inst = Reached /\ ams'.alive BY <1>1, <2>3, <2>7 DEF Ams
    <3> QED BY <2>3, <2>4, <2>7, <3>1 DEF Reached
  <2> QED BY <2>5, <2>6, <2>7 DEF StartEstablishes
<1>7. Counted' BY <1>1, <1>2, <1>3 DEF Counted, Pending
<1>8. InstancesKnown'
  <2>1. Here' = Here /\ Here \in Nat /\ ams.inst \in Nat /\ ams'.inst \in Nat
    BY <1>1, <1>3, <1>6 DEF Here, Thread, Ams
  <2>2. \A t \in Threads : thread'[t].pc # "idle" => thread'[t].inst \in Instances
    BY <1>1, <1>2, <1>3 DEF InstancesKnown, Threads
  <2> QED BY <1>1, <1>6, <2>1, <2>2 DEF InstancesKnown
<1>9. QueueInOrder'
  <2>1. Here' = Here /\ Here \in Nat /\ ams.inst \in Nat /\ ams'.inst \in Nat
    BY <1>1, <1>3, <1>6 DEF Here, Thread, Ams
  <2>2. \A i : Owed(i) => Owed(i)' BY <1>2, <1>6 DEF Owed, DestroyWaits
  <2>3. ASSUME NEW n \in DOMAIN queue PROVE InPlace(queue[n])'
    <3>1. InPlace(queue[n]) /\ queue[n] \in Messages BY <1>1, TypeFacts DEF QueueInOrder
    <3>2. queue[n].inst \in Nat BY <3>1 DEF Messages, Instances
    <3>3. queue[n].inst <= ams'.inst BY <1>6, <2>1, <3>1, <3>2 DEF InPlace
    <3>4. queue[n].kind = "DESTROY" => ~(ams'.alive /\ ams'.inst = queue[n].inst)
      BY <1>6, <2>1, <3>1, <3>2 DEF InPlace
    <3> QED BY <1>2, <2>1, <2>2, <3>1, <3>3, <3>4 DEF InPlace
  <2> QED BY <1>1, <1>2, <2>3 DEF QueueInOrder, Ordered
<1>10. SessionKnown' BY <1>3, <1>4 DEF SessionKnown
<1>11. TypeOK' BY <1>1, <1>2, <1>3, <1>5, <1>6 DEF TypeOK, Thread, AllPcs, Ams
<1> QED BY <1>7, <1>8, <1>9, <1>10, <1>11 DEF BaseInv

LEMMA BaseStutter == ASSUME BaseInv, UNCHANGED vars PROVE BaseInv'
<1> USE DEF vars, appVars, systemVars
<1>1. TypeOK' /\ Counted' /\ InstancesKnown' /\ SessionKnown'
  BY DEF BaseInv, TypeOK, Counted, InstancesKnown, SessionKnown, Here
<1>2. QueueInOrder' BY OrderKept DEF BaseInv, Here
<1> QED BY <1>1, <1>2 DEF BaseInv

LEMMA BaseStep == BaseInv /\ [Next]_vars => BaseInv'
<1> SUFFICES ASSUME BaseInv, [Next]_vars PROVE BaseInv' OBVIOUS
<1> QED BY BaseCalls, BaseOthers, BaseDestroys, BaseCrash, BaseTakes, BaseRevokes, BaseStops,
           BaseStarts, BaseMakesSelector, BaseEstablishes, BaseStutter
        DEF Next, StartSteps, User, System

(* The service's variables keep their types, whatever Android, the user    *)
(* and the selectors do: no more sessions are ever made than calls and     *)
(* crashes account for, and no message is for an object that never was.    *)
THEOREM TypeCorrect == Spec => []TypeOK
<1>1. BaseInv => TypeOK BY DEF BaseInv
<1> QED BY BaseInit, BaseStep, <1>1, PTL DEF Spec

(* The messages of the main thread come service object by service object,  *)
(* with the onDestroy last, and each is for one that is still owed it.     *)
THEOREM MessagesInOrder == Spec => []QueueInOrder
<1>1. BaseInv => QueueInOrder BY DEF BaseInv
<1> QED BY BaseInit, BaseStep, <1>1, PTL DEF Spec

-----------------------------------------------------------------------------
(* HeldInv: who holds what is open *)

LEMMA HeldInit == Init => HeldInv
<1> SUFFICES ASSUME Init PROVE HeldInv OBVIOUS
<1>1. BaseInv BY BaseInit
<1>2. /\ \A t \in Threads : thread[t].pc = "idle" /\ thread[t].inst = 0
      /\ \A r \in Resources : open[r] = {}
      /\ \A i \in Instances : Zero(i)
      /\ engine = 0
  BY DEF Init, Resting, Zero, NoResources
<1>3. Apart /\ StartKeeps
  BY <1>2 DEF Apart, StartKeeps, Threads, NullPcs, OpenPcs, SetPcs, EnginelessPcs, Resources
<1>4. CleanupKeeps
  BY <1>2 DEF CleanupKeeps, ClosedPcs, NulledPcs, StoppedPcs, Resources, EndPcs
<1>5. OnlyHere /\ OpenIsHeld /\ TunIsLast /\ DownHere /\ EngineOnOpenTun
  BY <1>2 DEF OnlyHere, OpenIsHeld, TunIsLast, DownHere, EngineOnOpenTun, Here, Threads, StartPcs, Instances
<1> QED BY <1>1, <1>3, <1>4, <1>5 DEF HeldInv

(* The types, as the proofs below use them. *)
LEMMA HeldFacts ==
    ASSUME HeldInv
    PROVE  /\ thread \in [Threads -> Thread] /\ thread["main"] \in Thread
           /\ thread["binder"] \in Thread
           /\ field \in [Instances -> [Resources -> Counts]]
           /\ open \in [Resources -> SUBSET Sessions]
           /\ 0 \notin Sessions /\ store \in [phase : Phases, session : Counts]
           /\ \A t \in Threads : thread[t].pc # "idle" => thread[t].inst \in Instances
           /\ 0 \notin Instances
BY TypeFacts, Bounds DEF HeldInv, BaseInv, TypeOK, InstancesKnown, Instances

(* While startTunnel is at work no other thread is. *)
LEMMA StartAlone ==
    ASSUME HeldInv, thread["main"].pc \in StartPcs
    PROVE  /\ thread["binder"].pc = "idle" /\ Here \in Instances /\ Owed(Here)
BY HeldFacts DEF HeldInv, Apart, OnlyHere, Here, Threads, StartPcs

(* What is owed stays owed until the main thread gets to it. *)
LEMMA OwedKept ==
    ASSUME BaseInv, Next, ~MainTakes, ~ProcessDies, NEW i
    PROVE  (Owed(i) => Owed(i)') /\ (DestroyWaits(i) => DestroyWaits(i)')
<1>1. TypeOK /\ ams \in Ams /\ InstancesKnown BY TypeFacts DEF BaseInv
<1>2. CASE \E kind \in {"CONNECT", "DISCONNECT"} : Delivers(kind)
  <2>1. PICK kind \in {"CONNECT", "DISCONNECT"} : Delivers(kind) BY <1>2
  <2>2. Reached \in Instances
    BY <1>1, <2>1, Bounds DEF Delivers, CanDeliver, Reached, InstancesKnown, Ams, Instances
  <2>3. PICK m \in Messages : m = Message(kind, Reached) BY <2>2, MessageType
  <2>4. queue' = Append(queue, m) BY <2>1, <2>3 DEF Delivers
  <2>5. DestroyWaits(i) => DestroyWaits(i)' BY <1>1, <2>4, WaitsAppended
  <2>6. ams'.alive /\ ams'.inst = Reached BY <1>1, <2>1 DEF Delivers, Ams
  <2> QED BY <2>5, <2>6 DEF Owed, Reached
<1>3. CASE SystemDestroys
  <2>1. ams.inst \in Instances /\ ams.alive BY <1>1, <1>3 DEF SystemDestroys, InstancesKnown
  <2>2. PICK m \in Messages : m = Message("DESTROY", ams.inst) BY <2>1, MessageType
  <2>3. queue' = Append(queue, m) BY <1>3, <2>2 DEF SystemDestroys
  <2>4. /\ DestroyWaits(i) => DestroyWaits(i)'
        /\ ams.inst = i => DestroyWaits(i)'
    BY <1>1, <2>2, <2>3, WaitsAppended
  <2> QED BY <2>4 DEF Owed
<1>4. CASE queue' = queue /\ (ams.alive => ams'.alive /\ ams'.inst = ams.inst)
  BY <1>4 DEF Owed, DestroyWaits
<1>5. User \/ SystemStarts =>
         (\E kind \in {"CONNECT", "DISCONNECT"} : Delivers(kind)) \/ (queue' = queue /\ ams' = ams)
  BY DEF User, SystemStarts, NotificationStops, ToggleOff, ToggleOn, StartVpnService, PermissionDenied
<1>6. SystemUnbinds \/ Revokes => queue' = queue /\ ams'.alive = ams.alive /\ ams'.inst = ams.inst
  BY <1>1 DEF SystemUnbinds, Revokes, Ams
<1>7. StartEstablishes => queue' = queue /\ (ams.alive => ams'.alive /\ ams'.inst = ams.inst)
  BY <1>1 DEF StartEstablishes, Ams, CanDeliver, Reached
<1>8. StartSteps /\ ~StartEstablishes => queue' = queue /\ ams' = ams
  BY DEF StartSteps, StartGuard, StartAnnounces, StartMakesSelector, StartOpensRelay, StartSets,
         StartGetsFd, StartEngine, StartSucceeds, StartsSelector, systemVars
<1>9. (\E t \in Threads : StopSteps(t)) => queue' = queue /\ ams'.alive = ams.alive /\ ams'.inst = ams.inst
  BY <1>1 DEF StopSteps, Closes, Nulls, StopsEngine, Announces, StopsSelf, systemVars, Ams
<1>10. EngineEnds \/ (\E k \in Sessions : CallbackEnters(k) \/ CallbackLooks(k) \/ CallbackUpdates(k))
          => queue' = queue /\ ams' = ams
  BY DEF EngineEnds, CallbackEnters, CallbackLooks, CallbackUpdates, systemVars
<1> QED BY <1>2, <1>3, <1>4, <1>5, <1>6, <1>7, <1>8, <1>9, <1>10 DEF Next, System

(* A step that no handler takes: calls, the dialog, the activity manager,  *)
(* the selectors.                                                          *)
LEMMA HeldQuiet ==
    ASSUME HeldInv, BaseInv', UNCHANGED <<field, open, engine, thread>>,
           store' = store \/ store'.phase = "On" \/ (store'.phase = "Starting" /\ MainIdle),
           \A i : (Owed(i) => Owed(i)') /\ (DestroyWaits(i) => DestroyWaits(i)')
    PROVE  HeldInv'
<1>1. Apart' /\ CleanupKeeps' /\ StartKeeps' /\ EngineOnOpenTun'
  BY DEF HeldInv, Apart, CleanupKeeps, StartKeeps, EngineOnOpenTun, MainIdle
<1>2. Here' = Here /\ \A i : Zero(i)' <=> Zero(i) BY DEF Here, Zero
<1>3. OnlyHere' BY <1>2 DEF HeldInv, OnlyHere
<1>4. OpenIsHeld' BY <1>2 DEF HeldInv, OpenIsHeld, Storing
<1>5. TunIsLast' BY <1>2 DEF HeldInv, TunIsLast
<1>6. DownHere' BY <1>2 DEF HeldInv, DownHere
<1> QED BY <1>1, <1>3, <1>4, <1>5, <1>6 DEF HeldInv

LEMMA HeldOthers ==
    ASSUME HeldInv, Next,
           \/ User \/ SystemStarts \/ SystemUnbinds \/ SystemDestroys
           \/ \E k \in Sessions : CallbackEnters(k) \/ CallbackLooks(k) \/ CallbackUpdates(k)
    PROVE  HeldInv'
<1>1. /\ UNCHANGED <<field, open, engine, thread>>
      /\ store' = store \/ store'.phase = "On" \/ (store'.phase = "Starting" /\ MainIdle)
  BY DEF User, SystemStarts, NotificationStops, ToggleOff, ToggleOn, StartVpnService, PermissionDenied,
         SystemUnbinds, SystemDestroys, CallbackEnters, CallbackLooks, CallbackUpdates, appVars,
         systemVars, State
<1>2. BaseInv' BY BaseStep DEF HeldInv
<1>3. ~MainTakes /\ ~ProcessDies
  <2>1. MainTakes => thread' # thread
    BY HeldFacts DEF MainTakes, MainIdle, Enters, Thread, Threads
  <2>2. ProcessDies => crashes' # crashes
    BY BoundsAssumption DEF ProcessDies, HeldInv, BaseInv, TypeOK
  <2>3. crashes' = crashes
    BY DEF User, SystemStarts, NotificationStops, ToggleOff, ToggleOn, StartVpnService, PermissionDenied,
           SystemUnbinds, SystemDestroys, CallbackEnters, CallbackLooks, CallbackUpdates, systemVars
  <2> QED BY <1>1, <2>1, <2>2, <2>3
<1>4. \A i : (Owed(i) => Owed(i)') /\ (DestroyWaits(i) => DestroyWaits(i)')
  BY <1>3, OwedKept DEF HeldInv
<1> QED BY <1>1, <1>2, <1>4, HeldQuiet

LEMMA HeldEngineEnds == ASSUME HeldInv, BaseInv', EngineEnds PROVE HeldInv'
<1>1. UNCHANGED <<store, field, open, thread, queue, ams>> /\ engine' = 0
  BY DEF EngineEnds, systemVars
<1>2. Apart' /\ CleanupKeeps' /\ StartKeeps' /\ EngineOnOpenTun'
  BY <1>1 DEF HeldInv, Apart, CleanupKeeps, StartKeeps, EngineOnOpenTun
<1>3. Here' = Here /\ \A i : (Zero(i)' <=> Zero(i)) /\ (Owed(i)' <=> Owed(i))
                               /\ (DestroyWaits(i)' <=> DestroyWaits(i))
  BY <1>1 DEF Here, Zero, Owed, DestroyWaits
<1>4. OnlyHere' BY <1>1, <1>3 DEF HeldInv, OnlyHere
<1>5. OpenIsHeld' BY <1>1, <1>3 DEF HeldInv, OpenIsHeld, Storing
<1>6. TunIsLast' /\ DownHere' BY <1>1, <1>3 DEF HeldInv, TunIsLast, DownHere
<1> QED BY <1>2, <1>4, <1>5, <1>6 DEF HeldInv

LEMMA HeldCrash == ASSUME HeldInv, BaseInv', ProcessDies PROVE HeldInv'
<1>1. /\ \A t \in Threads : thread'[t].pc = "idle" /\ thread'[t].inst = 0
      /\ \A r \in Resources : open'[r] = {}
      /\ \A i \in Instances : Zero(i)'
      /\ engine' = 0
  BY DEF ProcessDies, Resting, Zero, NoResources
<1>2. Apart' /\ StartKeeps'
  BY <1>1 DEF Apart, StartKeeps, Threads, NullPcs, OpenPcs, SetPcs, EnginelessPcs, Resources
<1>3. CleanupKeeps'
  BY <1>1 DEF CleanupKeeps, ClosedPcs, NulledPcs, StoppedPcs, Resources, EndPcs
<1>4. OnlyHere' /\ OpenIsHeld' /\ TunIsLast' /\ DownHere' /\ EngineOnOpenTun'
  BY <1>1 DEF OnlyHere, OpenIsHeld, TunIsLast, DownHere, EngineOnOpenTun, Here, Threads, StartPcs, Instances
<1> QED BY <1>2, <1>3, <1>4 DEF HeldInv

(* Between two handlers, the next message is for the service object that   *)
(* has something, if one has: it is still owed its onDestroy, so that no   *)
(* message of a later one can be first.                                    *)
LEMMA NextIsHere ==
    ASSUME HeldInv, MainIdle, queue # <<>>, Head(queue).inst # Here
    PROVE  \A i \in Instances : Zero(i)
<1>1. /\ queue \in Seq(Messages) /\ Len(queue) \in Nat /\ 1 \in DOMAIN queue /\ Head(queue) = queue[1]
      /\ DOMAIN queue = 1 .. Len(queue) /\ ams \in Ams /\ thread["main"] \in Thread
      /\ \A n \in DOMAIN queue : queue[n].inst \in Nat /\ InPlace(queue[n])
  BY TypeFacts, TailFacts DEF HeldInv, BaseInv, QueueInOrder, Messages, Instances
<1>2. SUFFICES ASSUME Here \in Instances, ~Zero(Here) PROVE FALSE
  BY DEF HeldInv, OnlyHere
<1>3. Owed(Here) BY <1>2 DEF HeldInv, OnlyHere, MainIdle
<1>4. Here \in Nat /\ Here <= queue[1].inst /\ queue[1].inst <= ams.inst /\ ams.inst \in Nat
  BY <1>1, <1>2 DEF InPlace, Ams, Instances
<1>5. CASE ams.alive /\ ams.inst = Here BY <1>1, <1>4, <1>5
<1>6. CASE DestroyWaits(Here)
  <2>1. PICK n \in DOMAIN queue : queue[n] = Message("DESTROY", Here) BY <1>6 DEF DestroyWaits
  <2>2. queue[n].inst = Here BY <2>1 DEF Message
  <2>3. 1 < n BY <1>1, <2>2
  <2>4. queue[1].inst <= queue[n].inst
    BY <1>1, <2>3 DEF HeldInv, BaseInv, QueueInOrder, Ordered, Before
  <2> QED BY <1>1, <1>4, <2>2, <2>4
<1> QED BY <1>3, <1>5, <1>6 DEF Owed

LEMMA HeldTakes ==
    ASSUME "overlap" \notin Events, HeldInv, BaseInv', MainTakes
    PROVE  HeldInv'
<1>1. PICK m \in Messages : m = Head(queue)
  BY TypeFacts, TailFacts DEF MainTakes, HeldInv, BaseInv
<1>2. /\ MainIdle /\ queue # <<>>
      /\ m.kind = "CONNECT" => thread["binder"].pc = "idle"
      /\ UNCHANGED <<store, field, open, engine>>
      /\ Enters("main", IF m.kind = "CONNECT" THEN "guard" ELSE "closeSel", m.inst, "off")
  BY <1>1 DEF MainTakes, Overlaps, At
<1>3. /\ thread'["binder"] = thread["binder"] /\ thread'["main"].session = 0
      /\ thread'["main"].pc = IF m.kind = "CONNECT" THEN "guard" ELSE "closeSel"
      /\ Here' = m.inst /\ Here' \in Instances
  BY <1>1, <1>2, HeldFacts DEF Enters, Threads, Thread, Here, Messages
<1>4. Here' # Here => \A i \in Instances : Zero(i) BY <1>1, <1>2, <1>3, NextIsHere
<1>5. \A i : Zero(i)' <=> Zero(i) BY <1>2 DEF Zero
<1>6. Apart' BY <1>2, <1>3 DEF Apart, StartPcs
<1>7. CleanupKeeps'
  BY <1>2, <1>3 DEF HeldInv, CleanupKeeps, Threads, ClosedPcs, NulledPcs, StoppedPcs, Resources, EndPcs
<1>8. StartKeeps'
  BY <1>3 DEF StartKeeps, NullPcs, OpenPcs, SetPcs, EnginelessPcs, Resources
<1>9. m.kind = "CONNECT" =>
         \A i : (DestroyWaits(i) => DestroyWaits(i)') /\ (Owed(i) => Owed(i)')
  <2>1. ASSUME m.kind = "CONNECT", NEW i, DestroyWaits(i) PROVE DestroyWaits(i)'
    <3>1. m # Message("DESTROY", i) BY <2>1 DEF Message
    <3> QED BY <1>1, <1>2, <2>1, <3>1, WaitsTaken DEF MainTakes, HeldInv, BaseInv
  <2>2. m.kind = "CONNECT" => ams'.alive = ams.alive /\ ams'.inst = ams.inst
    BY <1>1, TypeFacts DEF MainTakes, Ams, HeldInv, BaseInv
  <2> QED BY <2>1, <2>2 DEF Owed
<1>10. OnlyHere'
  <2>1. \A i \in Instances \ {Here'} : Zero(i) BY <1>4 DEF HeldInv, OnlyHere
  <2>2. m.kind = "CONNECT" => Owed(Here)'
    <3>1. 1 \in DOMAIN queue /\ queue[1] = m
      BY <1>1, <1>2, TypeFacts, TailFacts DEF HeldInv, BaseInv
    <3>2. Owed(m.inst) BY <3>1 DEF HeldInv, BaseInv, QueueInOrder, InPlace
    <3> QED BY <1>3, <1>9, <3>2 DEF Owed, DestroyWaits
  <2> QED BY <1>3, <1>5, <2>1, <2>2 DEF OnlyHere, StartPcs
<1>11. OpenIsHeld'
  <2> SUFFICES ASSUME NEW r \in Resources, NEW k \in open[r] PROVE field[Here'][r] = k
    BY <1>2, <1>3 DEF OpenIsHeld
  <2>1. Here \in Instances /\ field[Here][r] = k /\ k # 0
    BY <1>2, HeldFacts DEF HeldInv, OpenIsHeld, Storing, MainIdle, SetBy
  <2> QED BY <1>4, <2>1 DEF Zero
<1>12. TunIsLast'
  <2>1. m.kind = "CONNECT" /\ Here' = Here => (field[Here]["tun"] = 0 => Zero(Here))
    BY <1>2, <1>3 DEF HeldInv, TunIsLast, MainIdle
  <2> QED BY <1>2, <1>3, <1>4, <1>5, <2>1 DEF TunIsLast
<1>14. DownHere'
  <2>1. m.kind = "CONNECT" /\ Here' = Here /\ store.phase \in {"Off", "Error"}
           => Zero(Here) \/ DestroyWaits(Here)
    BY <1>2, <1>3 DEF HeldInv, DownHere, MainIdle
  <2>2. m.kind = "CONNECT" /\ store.phase \in {"Off", "Error"} => Zero(Here)' \/ DestroyWaits(Here)'
    BY <1>3, <1>4, <1>5, <1>9, <2>1 DEF DestroyWaits, Zero
  <2> QED BY <1>2, <1>3, <2>2 DEF DownHere
<1>13. EngineOnOpenTun' BY <1>2 DEF HeldInv, EngineOnOpenTun
<1> QED BY <1>6, <1>7, <1>8, <1>10, <1>11, <1>12, <1>13, <1>14 DEF HeldInv

LEMMA HeldRevokes ==
    ASSUME "overlap" \notin Events, HeldInv, BaseInv', Revokes
    PROVE  HeldInv'
<1>1. /\ thread["binder"].pc = "idle" /\ thread["main"].pc \notin StartPcs
      /\ ams.bound /\ Enters("binder", "closeSel", ams.inst, "off")
      /\ UNCHANGED <<store, field, open, engine, queue>>
      /\ ams' = [ams EXCEPT !.bound = FALSE]
  BY DEF Revokes, At, Overlaps, StartInProgress
<1>2. /\ thread'["main"] = thread["main"] /\ thread'["binder"].pc = "closeSel"
      /\ thread'["binder"].inst = ams.inst /\ Here' = Here
      /\ ams'.alive = ams.alive /\ ams'.inst = ams.inst
  BY <1>1, HeldFacts, TypeFacts DEF Enters, Threads, Thread, Here, Ams, HeldInv, BaseInv
<1>3. \A i : (Zero(i)' <=> Zero(i)) /\ (Owed(i)' <=> Owed(i)) /\ (DestroyWaits(i)' <=> DestroyWaits(i))
  BY <1>1, <1>2 DEF Zero, Owed, DestroyWaits
<1>4. Apart' BY <1>1, <1>2 DEF Apart
<1>5. CleanupKeeps'
  BY <1>1, <1>2 DEF HeldInv, CleanupKeeps, Threads, ClosedPcs, NulledPcs, StoppedPcs, Resources, EndPcs
<1>6. StartKeeps' BY <1>1, <1>2 DEF HeldInv, StartKeeps
<1>7. OnlyHere' BY <1>1, <1>2, <1>3 DEF HeldInv, OnlyHere
<1>8. OpenIsHeld' BY <1>1, <1>2 DEF HeldInv, OpenIsHeld, Storing
<1>9. TunIsLast' BY <1>1, <1>2, <1>3 DEF HeldInv, TunIsLast
<1>10. DownHere'
  <2>1. Here \in Instances /\ thread["main"].pc = "idle" /\ ams.inst # Here
           => Zero(Here) \/ DestroyWaits(Here)
    BY DEF HeldInv, OnlyHere, Owed
  <2> QED BY <1>1, <1>2, <1>3, <2>1 DEF HeldInv, DownHere
<1>11. EngineOnOpenTun' BY <1>1 DEF HeldInv, EngineOnOpenTun
<1> QED BY <1>4, <1>5, <1>6, <1>7, <1>8, <1>9, <1>10, <1>11 DEF HeldInv

(* The statements of cleanupTunnel and stopTunnel, on either thread.       *)
(* What they leave alone: no message, no start, no other thread.           *)
LEMMA StopFacts ==
    ASSUME HeldInv, NEW t \in Threads, StopSteps(t)
    PROVE  /\ thread[t].pc \in CleanupPcs \cup EndPcs /\ thread[t].inst \in Instances
           /\ thread'[t].pc \in {"idle"} \cup CleanupPcs \cup EndPcs
           /\ thread["main"].pc \notin StartPcs /\ thread'["main"].pc \notin StartPcs
           /\ \A u \in Threads : u # t => thread'[u] = thread[u]
           /\ thread'[t].inst = thread[t].inst /\ thread'[t].then = thread[t].then
           /\ Here' = Here /\ queue' = queue /\ ams'.alive = ams.alive /\ ams'.inst = ams.inst
<1>1. /\ thread \in [Threads -> Thread] /\ thread[t] \in Thread /\ ams \in Ams
  BY HeldFacts, TypeFacts DEF HeldInv, BaseInv
<1>2. thread[t].pc \in CleanupPcs \cup EndPcs
  BY DEF StopSteps, Closes, Nulls, StopsEngine, Announces, StopsSelf, ClosedBy, NulledBy, At,
         CleanupPcs, EndPcs
<1>3. \E pc \in {"idle", "stopSelf"} \cup CleanupPcs \cup {"off", "error"} : Goes(t, pc)
  BY <1>1 DEF StopSteps, Closes, Nulls, StopsEngine, Announces, StopsSelf, Advances, AfterCleanup,
              ClosedBy, NulledBy, At, CleanupPcs, Thread
<1>4. /\ thread'[t].pc \in {"idle"} \cup CleanupPcs \cup EndPcs
      /\ \A u \in Threads : u # t => thread'[u] = thread[u]
      /\ thread'[t].inst = thread[t].inst /\ thread'[t].then = thread[t].then
  BY <1>1, <1>3 DEF Goes, EndPcs, Thread
<1>5. queue' = queue /\ ams'.alive = ams.alive /\ ams'.inst = ams.inst
  BY <1>1 DEF StopSteps, Closes, Nulls, StopsEngine, Announces, StopsSelf, systemVars, Ams
<1>6. thread["main"].pc \notin StartPcs
  BY <1>2 DEF HeldInv, Apart, Threads, StartPcs, CleanupPcs, EndPcs
<1>7. thread'["main"].pc \notin StartPcs
  BY <1>4, <1>6 DEF Threads, StartPcs, CleanupPcs, EndPcs
<1>8. Here' = Here BY <1>4 DEF Here, Threads
<1>9. thread[t].inst \in Instances BY <1>2, HeldFacts DEF CleanupPcs, EndPcs
<1> QED BY <1>2, <1>4, <1>5, <1>6, <1>7, <1>8, <1>9

(* A statement inside cleanupTunnel, which can only make fields null, of   *)
(* its own service object.                                                 *)
LEMMA HeldInside ==
    ASSUME HeldInv, NEW t \in Threads, StopSteps(t), thread'[t].pc # "idle",
           store' = store \/ Zero(thread[t].inst)',
           \A i \in Instances : \A r \in Resources :
              /\ field'[i][r] \in {field[i][r], 0}
              /\ i # thread[t].inst => field'[i][r] = field[i][r]
    PROVE  Apart' /\ StartKeeps' /\ OnlyHere' /\ TunIsLast' /\ DownHere'
<1>1. /\ thread["main"].pc \notin StartPcs /\ thread'["main"].pc \notin StartPcs
      /\ Here' = Here /\ thread'[t].inst = thread[t].inst
      /\ \A i : (Owed(i)' <=> Owed(i)) /\ (DestroyWaits(i)' <=> DestroyWaits(i))
  BY StopFacts DEF Owed, DestroyWaits
<1>2. /\ \A i \in Instances : Zero(i) => Zero(i)'
      /\ \A i \in Instances : i # thread[t].inst => (Zero(i)' <=> Zero(i))
  BY DEF Zero
<1>3. /\ thread'["main"].pc = "idle" => t = "binder" /\ thread["main"].pc = "idle"
      /\ t = "binder" => thread["binder"].pc # "idle"
      /\ t = "main" => thread'["binder"] = thread["binder"]
  BY StopFacts DEF Threads, CleanupPcs, EndPcs
<1>4. Apart' BY <1>1 DEF Apart
<1>5. StartKeeps'
  BY <1>1 DEF StartKeeps, StartPcs, NullPcs, OpenPcs, SetPcs, EnginelessPcs, Resources
<1>6. OnlyHere' BY <1>1, <1>2, <1>3 DEF HeldInv, OnlyHere
<1>7. TunIsLast'
  <2> SUFFICES ASSUME thread'["main"].pc = "idle", Here \in Instances,
                      thread'["binder"].pc = "idle" \/ thread'["binder"].inst # Here,
                      field'[Here]["tun"] = 0
               PROVE  Zero(Here)'
    BY <1>1 DEF TunIsLast, StartPcs, Zero
  <2>1. t = "binder" /\ thread["main"].pc = "idle" /\ thread["binder"].inst # Here
    BY <1>1, <1>3
  <2>2. field[Here]["tun"] = 0 BY <2>1 DEF Resources
  <2>3. Zero(Here) BY <2>1, <2>2 DEF HeldInv, TunIsLast
  <2> QED BY <1>1, <1>2, <2>3
<1>8. DownHere'
  <2> SUFFICES ASSUME thread'["main"].pc = "idle", Here \in Instances,
                      \/ store'.phase \in {"Off", "Error"}
                      \/ thread'["binder"].pc # "idle" /\ thread'["binder"].inst # Here
               PROVE  Zero(Here)' \/ DestroyWaits(Here)
    BY <1>1 DEF DownHere, StartPcs, Zero, DestroyWaits
  <2>1. t = "binder" /\ thread["main"].pc = "idle" BY <1>3
  <2>2. CASE store' = store \/ thread[t].inst # Here
    <3>1. Zero(Here) \/ DestroyWaits(Here) BY <1>1, <1>3, <2>1, <2>2 DEF HeldInv, DownHere
    <3> QED BY <1>1, <1>2, <3>1
  <2>3. CASE store' # store /\ thread[t].inst = Here
    BY <1>1, <2>3 DEF Zero
  <2> QED BY <2>2, <2>3
<1> QED BY <1>4, <1>5, <1>6, <1>7, <1>8

(* gatewaySelector?.close(), tunInterface?.close(), socksRelay?.close() *)
LEMMA HeldCloses ==
    ASSUME HeldInv, BaseInv', NEW t \in Threads, Closes(t)
    PROVE  HeldInv'
<1> DEFINE res == ClosedBy[thread[t].pc]
<1>1. StopSteps(t) BY DEF StopSteps
<1>2. /\ UNCHANGED <<store, field, engine>> /\ res \in Resources
      /\ open' = [open EXCEPT ![res] = @ \ {field[thread[t].inst][res]}]
      /\ thread[t].pc \in DOMAIN ClosedBy
      /\ thread'[t].pc = AfterCleanup(t)[thread[t].pc]
  BY HeldFacts DEF Closes, systemVars, ClosedBy, Resources, Advances, Goes, Thread
<1> HIDE DEF res
<1>3. /\ \A r \in Resources : open'[r] \subseteq open[r]
      /\ field[thread[t].inst][res] \notin open'[res]
      /\ \A r \in Resources \ {res} : open'[r] = open[r]
  BY <1>2, HeldFacts
<1>4. /\ thread'[t].pc # "idle"
      /\ \A r \in Resources :
            /\ thread'[t].pc \in ClosedPcs[r] /\ r # res => thread[t].pc \in ClosedPcs[r]
            /\ thread'[t].pc \in NulledPcs[r] => thread[t].pc \in NulledPcs[r]
      /\ thread'[t].pc \in StoppedPcs => thread[t].pc \in StoppedPcs
  BY <1>2 DEF res, ClosedBy, AfterCleanup, ClosedPcs, NulledPcs, StoppedPcs, EndPcs, Resources
<1>5. Apart' /\ StartKeeps' /\ OnlyHere' /\ TunIsLast' /\ DownHere'
  BY <1>1, <1>2, <1>4, HeldInside
<1>6. CleanupKeeps'
  <2>1. \A u \in Threads : u # t => thread'[u] = thread[u] BY <1>1, StopFacts
  <2>2. thread'[t].inst = thread[t].inst BY <1>1, StopFacts
  <2>3. ASSUME NEW u \in Threads, NEW r \in Resources, thread'[u].pc \in ClosedPcs[r]
        PROVE  field'[thread'[u].inst][r] \notin open'[r]
    <3>1. CASE u = t /\ r = res BY <1>2, <1>3, <2>2, <3>1
    <3>2. CASE ~(u = t /\ r = res)
      <4>1. thread[u].pc \in ClosedPcs[r]
        <5>1. CASE u = t BY <1>4, <2>3, <3>2, <5>1
        <5>2. CASE u # t BY <2>1, <2>3, <5>2
        <5> QED BY <5>1, <5>2
      <4>2. field[thread[u].inst][r] \notin open[r] BY <4>1 DEF HeldInv, CleanupKeeps
      <4>3. thread'[u].inst = thread[u].inst BY <2>1, <2>2
      <4> QED BY <1>2, <1>3, <4>2, <4>3
    <3> QED BY <3>1, <3>2
  <2>4. ASSUME NEW u \in Threads, NEW r \in Resources, thread'[u].pc \in NulledPcs[r]
        PROVE  field'[thread'[u].inst][r] = 0
    <3>1. thread[u].pc \in NulledPcs[r]
      <4>1. CASE u = t BY <1>4, <2>4, <4>1
      <4>2. CASE u # t BY <2>1, <2>4, <4>2
      <4> QED BY <4>1, <4>2
    <3>2. field[thread[u].inst][r] = 0 BY <3>1 DEF HeldInv, CleanupKeeps
    <3>3. thread'[u].inst = thread[u].inst BY <2>1, <2>2
    <3> QED BY <1>2, <3>2, <3>3
  <2>5. ASSUME NEW u \in Threads, thread'[u].pc \in StoppedPcs PROVE engine' = 0
    BY <1>2, <1>4, <2>1, <2>5 DEF HeldInv, CleanupKeeps
  <2> QED BY <2>3, <2>4, <2>5 DEF CleanupKeeps
<1>7. OpenIsHeld'
  <2>1. \A r \in Resources : \A k \in open[r] : Here \in Instances /\ field[Here][r] = k
    BY <1>1, StopFacts DEF HeldInv, OpenIsHeld, Storing, SetBy, StartPcs
  <2> QED BY <1>1, <1>2, <1>3, <2>1, StopFacts DEF OpenIsHeld
<1>8. EngineOnOpenTun'
  <2>1. CASE res = "tun"
    <3>1. thread[t].pc \in StoppedPcs BY <1>2, <2>1 DEF ClosedBy, StoppedPcs, res
    <3> QED BY <1>2, <3>1 DEF HeldInv, CleanupKeeps, EngineOnOpenTun
  <2>2. CASE res # "tun" BY <1>2, <1>3, <2>2 DEF HeldInv, EngineOnOpenTun, Resources
  <2> QED BY <2>1, <2>2
<1> QED BY <1>5, <1>6, <1>7, <1>8 DEF HeldInv

(* ... and the field becomes null: what it held is closed by then. *)
LEMMA HeldNulls ==
    ASSUME HeldInv, BaseInv', NEW t \in Threads, Nulls(t)
    PROVE  HeldInv'
<1> DEFINE res == NulledBy[thread[t].pc]
<1>1. StopSteps(t) BY DEF StopSteps
<1>2. /\ UNCHANGED <<store, open, engine>> /\ res \in Resources
      /\ field' = [field EXCEPT ![thread[t].inst][res] = 0]
      /\ thread[t].pc \in DOMAIN NulledBy /\ thread[t].pc \in ClosedPcs[res]
      /\ thread'[t].pc = AfterCleanup(t)[thread[t].pc]
  BY HeldFacts DEF Nulls, systemVars, NulledBy, Resources, Advances, Goes, Thread, ClosedPcs
<1> HIDE DEF res
<1>3. /\ \A i \in Instances : \A r \in Resources :
            /\ field'[i][r] \in {field[i][r], 0}
            /\ i # thread[t].inst => field'[i][r] = field[i][r]
            /\ r # res => field'[i][r] = field[i][r]
      /\ field'[thread[t].inst][res] = 0
  <2>1. field \in [Instances -> [Resources -> Counts]] /\ thread[t].inst \in Instances
    BY <1>1, HeldFacts, StopFacts
  <2> QED BY <1>2, <2>1
<1>4. /\ thread'[t].pc # "idle"
      /\ \A r \in Resources :
            /\ thread'[t].pc \in ClosedPcs[r] => thread[t].pc \in ClosedPcs[r]
            /\ thread'[t].pc \in NulledPcs[r] /\ r # res => thread[t].pc \in NulledPcs[r]
      /\ thread'[t].pc \in StoppedPcs => thread[t].pc \in StoppedPcs
  <2>1. thread[t].then \in {"off", "error"} BY HeldFacts DEF Thread
  <2> QED BY <1>2, <2>1 DEF res, NulledBy, AfterCleanup, ClosedPcs, NulledPcs, StoppedPcs, EndPcs, Resources
<1>5. Apart' /\ StartKeeps' /\ OnlyHere' /\ TunIsLast' /\ DownHere'
  BY <1>1, <1>2, <1>3, <1>4, HeldInside
<1>6. CleanupKeeps'
  <2>1. /\ \A u \in Threads : u # t => thread'[u] = thread[u]
        /\ \A u \in Threads : thread'[u].inst = thread[u].inst
    BY <1>1, StopFacts
  <2>2. \A r \in Resources : 0 \notin open[r] BY HeldFacts
  <2>3. ASSUME NEW u \in Threads, NEW r \in Resources, thread'[u].pc \in ClosedPcs[r]
        PROVE  field'[thread'[u].inst][r] \notin open'[r]
    <3>1. thread[u].pc \in ClosedPcs[r]
      <4>1. CASE u = t BY <1>4, <2>3, <4>1
      <4>2. CASE u # t BY <2>1, <2>3, <4>2
      <4> QED BY <4>1, <4>2
    <3>2. thread[u].inst \in Instances
      BY <3>1, HeldFacts DEF ClosedPcs, EndPcs, Resources
    <3>3. field[thread[u].inst][r] \notin open[r] BY <3>1 DEF HeldInv, CleanupKeeps
    <3> QED BY <1>2, <1>3, <2>1, <2>2, <3>2, <3>3
  <2>4. ASSUME NEW u \in Threads, NEW r \in Resources, thread'[u].pc \in NulledPcs[r]
        PROVE  field'[thread'[u].inst][r] = 0
    <3>1. CASE u = t /\ r = res BY <1>3, <2>1, <3>1
    <3>2. CASE ~(u = t /\ r = res)
      <4>1. thread[u].pc \in NulledPcs[r]
        <5>1. CASE u = t BY <1>4, <2>4, <3>2, <5>1
        <5>2. CASE u # t BY <2>1, <2>4, <5>2
        <5> QED BY <5>1, <5>2
      <4>2. thread[u].inst \in Instances
        BY <4>1, HeldFacts DEF NulledPcs, EndPcs, Resources
      <4>3. field[thread[u].inst][r] = 0 BY <4>1 DEF HeldInv, CleanupKeeps
      <4> QED BY <1>3, <2>1, <4>2, <4>3
    <3> QED BY <3>1, <3>2
  <2>5. ASSUME NEW u \in Threads, thread'[u].pc \in StoppedPcs PROVE engine' = 0
    BY <1>2, <1>4, <2>1, <2>5 DEF HeldInv, CleanupKeeps
  <2> QED BY <2>3, <2>4, <2>5 DEF CleanupKeeps
<1>7. OpenIsHeld'
  <2>1. \A r \in Resources : \A k \in open[r] : Here \in Instances /\ field[Here][r] = k
    BY <1>1, StopFacts DEF HeldInv, OpenIsHeld, Storing, SetBy, StartPcs
  <2>2. field[thread[t].inst][res] \notin open[res] BY <1>2 DEF HeldInv, CleanupKeeps
  <2>3. \A r \in Resources : \A k \in open[r] : field'[Here][r] = k
    BY <1>2, <1>3, <2>1, <2>2
  <2> QED BY <1>1, <1>2, <2>1, <2>3, StopFacts DEF OpenIsHeld
<1>8. EngineOnOpenTun' BY <1>2 DEF HeldInv, EngineOnOpenTun
<1> QED BY <1>5, <1>6, <1>7, <1>8 DEF HeldInv

(* TProxyStopService *)
LEMMA HeldStopsEngine ==
    ASSUME HeldInv, BaseInv', NEW t \in Threads, StopsEngine(t)
    PROVE  HeldInv'
<1>1. StopSteps(t) BY DEF StopSteps
<1>2. /\ UNCHANGED <<store, field, open>> /\ engine' = 0 /\ thread[t].pc = "stopEngine"
      /\ thread'[t].pc = "closeTun"
  BY HeldFacts DEF StopsEngine, At, Advances, Goes, AfterCleanup, Thread
<1>3. Apart' /\ StartKeeps' /\ OnlyHere' /\ TunIsLast' /\ DownHere'
  BY <1>1, <1>2, HeldInside
<1>4. CleanupKeeps'
  <2>1. /\ \A u \in Threads : u # t => thread'[u] = thread[u]
        /\ \A u \in Threads : thread'[u].inst = thread[u].inst
    BY <1>1, StopFacts
  <2>2. \A r \in Resources : /\ "closeTun" \in ClosedPcs[r] => "stopEngine" \in ClosedPcs[r]
                             /\ "closeTun" \in NulledPcs[r] => "stopEngine" \in NulledPcs[r]
    BY DEF ClosedPcs, NulledPcs, EndPcs, Resources
  <2> QED BY <1>2, <2>1, <2>2 DEF HeldInv, CleanupKeeps
<1>5. OpenIsHeld'
  <2>1. \A r \in Resources : \A k \in open[r] : Here \in Instances /\ field[Here][r] = k
    BY <1>1, StopFacts DEF HeldInv, OpenIsHeld, Storing, SetBy, StartPcs
  <2> QED BY <1>1, <1>2, <2>1, StopFacts DEF OpenIsHeld
<1>6. EngineOnOpenTun' BY <1>2 DEF EngineOnOpenTun
<1> QED BY <1>3, <1>4, <1>5, <1>6 DEF HeldInv

(* Behind cleanupTunnel the service object has nothing. *)
LEMMA EndIsZero ==
    ASSUME HeldInv, NEW t \in Threads, thread[t].pc \in EndPcs
    PROVE  Zero(thread[t].inst)
<1>1. \A r \in Resources : thread[t].pc \in NulledPcs[r] BY DEF NulledPcs, Resources
<1> QED BY <1>1 DEF HeldInv, CleanupKeeps, Zero

LEMMA HeldAnnounces ==
    ASSUME HeldInv, BaseInv', NEW t \in Threads, Announces(t)
    PROVE  HeldInv'
<1>1. StopSteps(t) BY DEF StopSteps
<1>2. /\ UNCHANGED <<field, open, engine>> /\ thread[t].pc \in EndPcs
      /\ thread'[t].pc = "stopSelf"
  BY HeldFacts DEF Announces, EndPcs, Goes, Thread
<1>3. thread'[t].inst = thread[t].inst /\ \A u \in Threads : u # t => thread'[u] = thread[u]
  BY <1>1, StopFacts
<1>4. Zero(thread[t].inst)' BY <1>2, <1>3, EndIsZero DEF Zero
<1>5. Apart' /\ StartKeeps' /\ OnlyHere' /\ TunIsLast' /\ DownHere'
  BY <1>1, <1>2, <1>4, HeldInside
<1>6. CleanupKeeps'
  <2>1. /\ \A r \in Resources : thread[t].pc \in ClosedPcs[r] /\ thread[t].pc \in NulledPcs[r]
        /\ thread[t].pc \in StoppedPcs
    BY <1>2 DEF ClosedPcs, NulledPcs, StoppedPcs, Resources
  <2> QED BY <1>2, <1>3, <2>1 DEF HeldInv, CleanupKeeps
<1>7. OpenIsHeld'
  <2>1. \A r \in Resources : \A k \in open[r] : Here \in Instances /\ field[Here][r] = k
    BY <1>1, StopFacts DEF HeldInv, OpenIsHeld, Storing, SetBy, StartPcs
  <2> QED BY <1>1, <1>2, <2>1, StopFacts DEF OpenIsHeld
<1>8. EngineOnOpenTun' BY <1>2 DEF HeldInv, EngineOnOpenTun
<1> QED BY <1>5, <1>6, <1>7, <1>8 DEF HeldInv

LEMMA HeldStopsSelf ==
    ASSUME HeldInv, BaseInv', NEW t \in Threads, StopsSelf(t)
    PROVE  HeldInv'
<1>1. StopSteps(t) BY DEF StopSteps
<1>2. /\ UNCHANGED <<store, field, open, engine, queue>> /\ thread[t].pc = "stopSelf"
      /\ thread'[t].pc = "idle"
  BY HeldFacts DEF StopsSelf, At, Goes, Thread
<1>3. /\ thread'[t].inst = thread[t].inst /\ \A u \in Threads : u # t => thread'[u] = thread[u]
      /\ Here' = Here /\ thread["main"].pc \notin StartPcs /\ thread'["main"].pc \notin StartPcs
      /\ \A i : (Owed(i)' <=> Owed(i)) /\ (DestroyWaits(i)' <=> DestroyWaits(i)) /\ (Zero(i)' <=> Zero(i))
  BY <1>1, <1>2, StopFacts DEF Owed, DestroyWaits, Zero
<1>4. Zero(thread[t].inst) BY <1>2, EndIsZero DEF EndPcs
<1>5. t = "main" \/ (t = "binder" /\ thread'["main"] = thread["main"]) BY <1>3 DEF Threads
<1>6. Apart' BY <1>3 DEF Apart
<1>7. StartKeeps'
  BY <1>3 DEF StartKeeps, StartPcs, NullPcs, OpenPcs, SetPcs, EnginelessPcs, Resources
<1>8. CleanupKeeps'
  <2>1. /\ \A r \in Resources : "idle" \notin ClosedPcs[r] /\ "idle" \notin NulledPcs[r]
        /\ "idle" \notin StoppedPcs
    BY DEF ClosedPcs, NulledPcs, StoppedPcs, Resources, EndPcs
  <2> QED BY <1>2, <1>3, <2>1 DEF HeldInv, CleanupKeeps
<1>9. OnlyHere'
  <2>1. CASE t = "main"
    <3>1. Zero(Here) BY <1>4, <2>1 DEF Here
    <3> QED BY <1>3, <3>1 DEF HeldInv, OnlyHere
  <2>2. CASE t = "binder" BY <1>3, <1>5, <2>2 DEF HeldInv, OnlyHere
  <2> QED BY <1>5, <2>1, <2>2
<1>10. OpenIsHeld'
  <2>1. \A r \in Resources : \A k \in open[r] : Here \in Instances /\ field[Here][r] = k
    BY <1>1, StopFacts DEF HeldInv, OpenIsHeld, Storing, SetBy, StartPcs
  <2> QED BY <1>2, <1>3, <2>1 DEF OpenIsHeld
<1>11. TunIsLast'
  <2>1. CASE thread[t].inst = Here BY <1>3, <1>4, <2>1 DEF TunIsLast
  <2>2. CASE thread[t].inst # Here /\ t = "binder"
    BY <1>2, <1>3, <1>5, <2>2 DEF HeldInv, TunIsLast
  <2> QED BY <1>5, <2>1, <2>2 DEF Here
<1>12. DownHere'
  <2>1. CASE thread[t].inst = Here BY <1>3, <1>4, <2>1 DEF DownHere
  <2>2. CASE thread[t].inst # Here /\ t = "binder"
    BY <1>2, <1>3, <1>5, <2>2 DEF HeldInv, DownHere
  <2> QED BY <1>5, <2>1, <2>2 DEF Here
<1>13. EngineOnOpenTun' BY <1>2 DEF HeldInv, EngineOnOpenTun
<1> QED BY <1>6, <1>7, <1>8, <1>9, <1>10, <1>11, <1>12, <1>13 DEF HeldInv

(* The statements of startTunnel.  No other thread is at work, and it is   *)
(* the service object at hand that they change.                            *)
LEMMA StartFacts ==
    ASSUME HeldInv, StartSteps
    PROVE  /\ thread["main"].pc \in StartPcs /\ Here \in Instances /\ Owed(Here)
           /\ thread'["main"].pc \in {"idle", "closeSel"} \cup (StartPcs \ {"guard"})
           /\ Here' = Here /\ thread'["binder"] = thread["binder"] /\ thread["binder"].pc = "idle"
           /\ \A i : (Owed(i) => Owed(i)') /\ (DestroyWaits(i) => DestroyWaits(i)')
<1>1. thread \in [Threads -> Thread] /\ thread["main"] \in Thread BY HeldFacts
<1>2. thread["main"].pc \in StartPcs
  BY DEF StartSteps, StartGuard, StartAnnounces, StartMakesSelector, StartOpensRelay, StartEstablishes,
         StartSets, StartGetsFd, StartEngine, StartSucceeds, StartsSelector, At, SetBy, StartPcs
<1>3. \/ \E pc \in {"idle"} \cup (StartPcs \ {"guard"}) : Goes("main", pc)
      \/ thread' = [thread EXCEPT !["main"].pc = "closeSel", !["main"].then = "error"]
      \/ \E k : thread' = [thread EXCEPT !["main"].pc = "setSel", !["main"].session = k]
  BY DEF StartSteps, StartGuard, StartAnnounces, StartMakesSelector, StartOpensRelay, StartEstablishes,
         StartSets, StartGetsFd, StartEngine, StartSucceeds, StartsSelector, Fails, At, SetBy,
         AfterSet, StartPcs
<1>4. /\ thread'["main"].pc \in {"idle", "closeSel"} \cup (StartPcs \ {"guard"})
      /\ thread'["main"].inst = thread["main"].inst /\ thread'["binder"] = thread["binder"]
  BY <1>1, <1>3 DEF Goes, StartPcs, Thread, Threads
<1>5. Next /\ ~MainTakes /\ ~ProcessDies
  <2>1. crashes' = crashes /\ (thread["main"].pc # "idle")
    BY <1>2 DEF StartPcs, StartSteps, StartGuard, StartAnnounces, StartMakesSelector, StartOpensRelay,
         StartEstablishes, StartSets, StartGetsFd, StartEngine, StartSucceeds, StartsSelector, systemVars
  <2>2. ProcessDies => crashes' # crashes
    BY BoundsAssumption DEF ProcessDies, HeldInv, BaseInv, TypeOK
  <2> QED BY <2>1, <2>2 DEF Next, MainTakes, MainIdle
<1>6. \A i : (Owed(i) => Owed(i)') /\ (DestroyWaits(i) => DestroyWaits(i)')
  BY <1>5, OwedKept DEF HeldInv
<1> QED BY <1>2, <1>4, <1>6, StartAlone DEF Here

LEMMA HeldStarting ==
    ASSUME HeldInv, StartSteps,
           \A i \in Instances \ {Here} : \A r \in Resources : field'[i][r] = field[i][r]
    PROVE  /\ Apart' /\ CleanupKeeps' /\ OnlyHere'
           /\ thread'["main"].pc # "idle" => TunIsLast' /\ DownHere'
<1> USE StartFacts
<1>1. Apart' BY DEF Apart
<1>2. CleanupKeeps'
  <2>1. \A t \in Threads, r \in Resources :
           thread'[t].pc \notin ClosedPcs[r] /\ thread'[t].pc \notin NulledPcs[r] /\ thread'[t].pc \notin StoppedPcs
    BY DEF ClosedPcs, NulledPcs, StoppedPcs, Resources, EndPcs, Threads, StartPcs
  <2> QED BY <2>1 DEF CleanupKeeps, Resources
<1>3. OnlyHere' BY DEF HeldInv, OnlyHere, Zero, Owed, DestroyWaits
<1>4. thread'["main"].pc # "idle" => TunIsLast' /\ DownHere'
  BY DEF TunIsLast, DownHere, StartPcs
<1> QED BY <1>1, <1>2, <1>3, <1>4

(* The catch: what was made so far is held, and cleanupTunnel begins. *)
LEMMA HeldFails ==
    ASSUME HeldInv, BaseInv', StartSteps, UNCHANGED <<field, open, engine>>,
           thread["main"].pc \notin DOMAIN SetBy, thread'["main"].pc = "closeSel"
    PROVE  HeldInv'
<1>1. StartKeeps'
  BY DEF StartKeeps, NullPcs, OpenPcs, SetPcs, EnginelessPcs, Resources
<1>2. OpenIsHeld' BY StartFacts DEF HeldInv, OpenIsHeld, Storing
<1>3. EngineOnOpenTun' BY DEF HeldInv, EngineOnOpenTun
<1> QED BY <1>1, <1>2, <1>3, HeldStarting DEF HeldInv

LEMMA HeldGuard == ASSUME HeldInv, BaseInv', StartGuard PROVE HeldInv'
<1>1. StartSteps BY DEF StartSteps
<1>2. /\ UNCHANGED <<store, field, open, engine, queue, ams>> /\ thread["main"].pc = "guard"
      /\ thread'["main"].pc = IF field[Here]["tun"] # 0 \/ engine # 0 THEN "idle" ELSE "starting"
  BY HeldFacts DEF StartGuard, At, Goes, systemVars, Here, Threads, Thread
<1>3. thread["binder"].pc = "idle" /\ Here \in Instances /\ Here' = Here
      /\ thread'["binder"] = thread["binder"]
  BY <1>1, StartFacts
<1>4. field[Here]["tun"] = 0 => Zero(Here) BY <1>2, <1>3 DEF HeldInv, TunIsLast
<1>5. Apart' /\ CleanupKeeps' /\ OnlyHere' /\ (thread'["main"].pc # "idle" => TunIsLast' /\ DownHere')
  BY <1>1, <1>2, HeldStarting
<1>6. OpenIsHeld' BY <1>2, <1>3 DEF HeldInv, OpenIsHeld, Storing, SetBy
<1>7. StartKeeps'
  BY <1>2, <1>3, <1>4 DEF StartKeeps, NullPcs, OpenPcs, SetPcs, EnginelessPcs, Resources, Zero, Here
<1>8. TunIsLast' BY <1>2, <1>3, <1>4 DEF TunIsLast, Zero
<1>9. DownHere' BY <1>2, <1>3 DEF HeldInv, DownHere, Zero, DestroyWaits
<1>10. EngineOnOpenTun' BY <1>2 DEF HeldInv, EngineOnOpenTun
<1> QED BY <1>5, <1>6, <1>7, <1>8, <1>9, <1>10 DEF HeldInv

(* The statements that only move on, or announce: what is open and who     *)
(* holds it stays, and the next statement expects no more than this one.   *)
LEMMA HeldMoves ==
    ASSUME HeldInv, BaseInv', StartAnnounces \/ StartGetsFd \/ StartSucceeds \/ StartsSelector
    PROVE  HeldInv'
<1>1. StartSteps BY DEF StartSteps
<1> DEFINE pc == thread["main"].pc
           next == thread'["main"].pc
<1>2. /\ UNCHANGED <<field, open, engine>>
      /\ thread'["main"].session = thread["main"].session
      /\ pc \notin DOMAIN SetBy
      /\ \/ pc = "starting" /\ next = "newSel"
         \/ pc = "getFd" /\ next \in {"startEngine", "closeSel"}
         \/ pc = "on" /\ next = "startSel" /\ store'.phase = "On"
         \/ pc = "startSel" /\ next = "idle" /\ store' = store
  BY HeldFacts DEF StartAnnounces, StartGetsFd, StartSucceeds, StartsSelector, At, Goes, Threads,
                   Thread, SetBy, State, StartPcs
<1>3. Here' = Here /\ Here \in Instances /\ thread["binder"].pc = "idle"
      /\ thread'["binder"] = thread["binder"]
  BY <1>1, StartFacts
<1>4. Apart' /\ CleanupKeeps' /\ OnlyHere' /\ (next # "idle" => TunIsLast' /\ DownHere')
  BY <1>1, <1>2, HeldStarting
<1>5. OpenIsHeld' BY <1>2, <1>3 DEF HeldInv, OpenIsHeld, Storing
<1>6. EngineOnOpenTun' BY <1>2 DEF HeldInv, EngineOnOpenTun
<1>7. StartKeeps'
  BY <1>2, <1>3 DEF HeldInv, StartKeeps, NullPcs, OpenPcs, SetPcs, EnginelessPcs, Resources, Here
<1>8. next = "idle" => TunIsLast' /\ DownHere'
  <2> SUFFICES ASSUME next = "idle" PROVE TunIsLast' /\ DownHere' OBVIOUS
  <2>1. /\ pc = "startSel" /\ store' = store /\ store.phase = "On"
        /\ field[Here]["tun"] = thread["main"].session
    BY <1>2 DEF HeldInv, StartKeeps, SetPcs, Resources, Here
  <2>2. thread["main"].session # 0
    BY <2>1, HeldFacts DEF HeldInv, BaseInv, SessionKnown, StartPcs
  <2> QED BY <1>2, <1>3, <2>1, <2>2 DEF TunIsLast, DownHere
<1> QED BY <1>4, <1>5, <1>6, <1>7, <1>8 DEF HeldInv

(* GatewaySelector(...), relay.start (), builder.establish (): nothing of  *)
(* the kind was open, and the new one is about to be stored.               *)
MakePc == [sel |-> "newSel", relay |-> "newRelay", tun |-> "newTun"]
SetPc == [sel |-> "setSel", relay |-> "setRelay", tun |-> "setTun"]

LEMMA HeldMakes ==
    ASSUME HeldInv, BaseInv', StartMakesSelector \/ StartOpensRelay \/ StartEstablishes
    PROVE  HeldInv'
<1>1. StartSteps BY DEF StartSteps
<1>2. UNCHANGED <<store, field, engine>> /\ thread["main"].pc \in {"newSel", "newRelay", "newTun"}
  BY DEF StartMakesSelector, StartOpensRelay, StartEstablishes, At, systemVars
<1>3. \/ Fails /\ UNCHANGED open
      \/ \E res \in Resources :
            /\ thread["main"].pc = MakePc[res] /\ thread'["main"].pc = SetPc[res]
            /\ open' = [open EXCEPT ![res] = @ \cup {thread'["main"].session}]
            /\ res # "sel" => thread'["main"].session = thread["main"].session
  <2>1. CASE StartMakesSelector
    BY <2>1, HeldFacts DEF StartMakesSelector, At, MakePc, SetPc, Resources, Threads, Thread
  <2>2. CASE StartOpensRelay
    BY <2>2, HeldFacts DEF StartOpensRelay, At, Goes, MakePc, SetPc, Resources, Threads, Thread
  <2>3. CASE StartEstablishes
    BY <2>3, HeldFacts DEF StartEstablishes, At, Goes, MakePc, SetPc, Resources, Threads, Thread
  <2> QED BY <2>1, <2>2, <2>3
<1>4. CASE Fails /\ UNCHANGED open
  <2>1. thread'["main"].pc = "closeSel" BY <1>4, HeldFacts DEF Fails, Threads, Thread
  <2> QED BY <1>1, <1>2, <1>4, <2>1, HeldFails DEF SetBy
<1>5. ASSUME NEW res \in Resources,
             thread["main"].pc = MakePc[res], thread'["main"].pc = SetPc[res],
             open' = [open EXCEPT ![res] = @ \cup {thread'["main"].session}],
             res # "sel" => thread'["main"].session = thread["main"].session
      PROVE  HeldInv'
  <2> DEFINE k == thread'["main"].session
  <2>1. /\ Here' = Here /\ Here \in Instances /\ thread["binder"].pc = "idle"
        /\ thread'["main"].inst = Here
    BY <1>1, StartFacts DEF Here
  <2>2. /\ open'[res] = open[res] \cup {k}
        /\ \A r \in Resources \ {res} : open'[r] = open[r]
    BY <1>5, HeldFacts
  <2>3. /\ thread["main"].pc \notin DOMAIN SetBy /\ thread'["main"].pc # "idle"
        /\ SetPc[res] \in {s \in DOMAIN SetBy : SetBy[s] = res}
    BY <1>2, <1>5 DEF SetBy, SetPc, Resources
  <2>4. field[Here][res] = 0 /\ engine = 0
    BY <1>5, <2>1 DEF HeldInv, StartKeeps, NullPcs, EnginelessPcs, MakePc, Resources, Here
  <2>5. open[res] = {}
    BY <2>1, <2>3, <2>4, HeldFacts DEF HeldInv, OpenIsHeld, Storing
  <2>6. Apart' /\ CleanupKeeps' /\ OnlyHere' /\ TunIsLast' /\ DownHere'
    BY <1>1, <1>2, <2>3, HeldStarting
  <2>7. EngineOnOpenTun' BY <1>2, <2>4 DEF EngineOnOpenTun
  <2>8. OpenIsHeld'
    <3>1. ASSUME NEW r \in Resources, NEW j \in open'[r]
          PROVE  Storing(r, j)' \/ (Here' \in Instances /\ field'[Here'][r] = j)
      <4>1. CASE r = res BY <1>5, <2>2, <2>3, <2>5, <4>1 DEF Storing
      <4>2. CASE r # res
        BY <1>2, <2>1, <2>2, <2>3, <4>2 DEF HeldInv, OpenIsHeld, Storing
      <4> QED BY <4>1, <4>2
    <3> QED BY <3>1 DEF OpenIsHeld
  <2>9. StartKeeps'
    <3>1. /\ \A r \in Resources : SetPc[res] \in NullPcs[r] => MakePc[res] \in NullPcs[r]
          /\ \A r \in Resources \ {res} : SetPc[res] \in OpenPcs[r] => MakePc[res] \in OpenPcs[r]
          /\ \A r \in Resources : SetPc[res] \in SetPcs[r] => MakePc[res] \in SetPcs[r]
          /\ res = "sel" => \A r \in Resources \ {res} : MakePc[res] \notin OpenPcs[r]
          /\ res = "sel" => \A r \in Resources : MakePc[res] \notin SetPcs[r]
          /\ SetPc[res] # "startSel"
      BY DEF SetPc, MakePc, NullPcs, OpenPcs, SetPcs, Resources
    <3>2. ASSUME NEW r \in Resources
          PROVE  /\ SetPc[res] \in NullPcs[r] => field[Here][r] = 0
                 /\ SetPc[res] \in OpenPcs[r] => k \in open'[r]
                 /\ SetPc[res] \in SetPcs[r] => field[Here][r] = k
      BY <1>5, <2>2, <3>1 DEF HeldInv, StartKeeps, Here
    <3> QED BY <1>2, <1>5, <2>1, <2>4, <3>1, <3>2 DEF StartKeeps
  <2> QED BY <2>6, <2>7, <2>8, <2>9 DEF HeldInv
<1> QED BY <1>3, <1>4, <1>5

(* gatewaySelector = selector, socksRelay = relay, tunInterface = established *)
LEMMA HeldSets == ASSUME HeldInv, BaseInv', StartSets PROVE HeldInv'
<1> DEFINE pc == thread["main"].pc
           res == SetBy[pc]
           k == thread["main"].session
<1>1. StartSteps BY DEF StartSteps
<1>2. /\ Here' = Here /\ Here \in Instances /\ thread'["main"].inst = Here
  BY <1>1, StartFacts DEF Here
<1>3. /\ UNCHANGED <<store, open, engine>> /\ pc \in DOMAIN SetBy /\ res \in Resources
      /\ thread'["main"].pc = AfterSet[pc] /\ thread'["main"].session = k
      /\ field' = [field EXCEPT ![Here][res] = k]
  BY HeldFacts DEF StartSets, SetBy, Resources, Goes, Threads, Thread, Here
<1>4. /\ field'[Here][res] = k
      /\ \A r \in Resources \ {res} : field'[Here][r] = field[Here][r]
      /\ \A i \in Instances \ {Here} : \A r \in Resources : field'[i][r] = field[i][r]
  <2>1. field \in [Instances -> [Resources -> Counts]] BY HeldFacts
  <2> HIDE DEF res
  <2> QED BY <1>2, <1>3, <2>1
<1>5. field[Here][res] = 0 /\ engine = 0
  BY <1>2, <1>3 DEF HeldInv, StartKeeps, NullPcs, EnginelessPcs, Resources, Here, SetBy
<1>6. AfterSet[pc] # "idle" /\ AfterSet[pc] \notin DOMAIN SetBy
  BY <1>3 DEF AfterSet, SetBy
<1>7. Apart' /\ CleanupKeeps' /\ OnlyHere' /\ TunIsLast' /\ DownHere'
  BY <1>1, <1>3, <1>4, <1>6, HeldStarting
<1>8. EngineOnOpenTun' BY <1>3, <1>5 DEF EngineOnOpenTun
<1>9. OpenIsHeld'
  <2>1. ASSUME NEW r \in Resources, NEW j \in open[r] PROVE field'[Here][r] = j
    <3>1. (Storing(r, j) \/ field[Here][r] = j) /\ j # 0
      BY HeldFacts DEF HeldInv, OpenIsHeld
    <3>2. Storing(r, j) => r = res /\ j = k BY <1>3 DEF Storing
    <3> HIDE DEF res, k
    <3> QED BY <1>4, <1>5, <3>1, <3>2
  <2> QED BY <1>2, <1>3, <2>1 DEF OpenIsHeld
<1>10. StartKeeps'
  <2>1. /\ \A r \in Resources : AfterSet[pc] \in NullPcs[r] => pc \in NullPcs[r] /\ r # res
        /\ \A r \in Resources : AfterSet[pc] \in OpenPcs[r] => pc \in OpenPcs[r]
        /\ \A r \in Resources \ {res} : AfterSet[pc] \in SetPcs[r] => pc \in SetPcs[r]
        /\ AfterSet[pc] # "startSel"
    BY <1>3 DEF AfterSet, SetBy, NullPcs, OpenPcs, SetPcs, Resources
  <2> HIDE DEF res
  <2>2. ASSUME NEW r \in Resources
        PROVE  /\ AfterSet[pc] \in NullPcs[r] => field'[Here][r] = 0
               /\ AfterSet[pc] \in OpenPcs[r] => k \in open[r]
               /\ AfterSet[pc] \in SetPcs[r] => field'[Here][r] = k
    BY <1>4, <2>1 DEF HeldInv, StartKeeps, Here
  <2> QED BY <1>2, <1>3, <1>5, <2>1, <2>2 DEF StartKeeps
<1> QED BY <1>7, <1>8, <1>9, <1>10 DEF HeldInv

(* TProxyStartService, on the tun that has just been stored. *)
LEMMA HeldStartsEngine == ASSUME HeldInv, BaseInv', StartEngine PROVE HeldInv'
<1>1. StartSteps BY DEF StartSteps
<1>2. UNCHANGED <<store, field, open>> /\ thread["main"].pc = "startEngine"
  BY DEF StartEngine, At
<1>3. CASE engine' = engine /\ thread'["main"].pc = "closeSel"
  BY <1>1, <1>2, <1>3, HeldFails DEF SetBy
<1>4. CASE engine' = thread["main"].session /\ Goes("main", "on")
  <2>1. thread'["main"].pc = "on" /\ thread'["main"].session = thread["main"].session
    BY <1>4, HeldFacts DEF Goes, Threads, Thread
  <2>2. Here' = Here /\ Here \in Instances /\ thread'["main"].inst = thread["main"].inst
    BY <1>1, StartFacts DEF Here
  <2>3. Apart' /\ CleanupKeeps' /\ OnlyHere' /\ TunIsLast' /\ DownHere'
    BY <1>1, <1>2, <2>1, HeldStarting
  <2>4. thread["main"].session \in open["tun"]
    BY <1>2 DEF HeldInv, StartKeeps, OpenPcs, Resources
  <2>5. EngineOnOpenTun' BY <1>2, <1>4, <2>4 DEF EngineOnOpenTun
  <2>6. OpenIsHeld' BY <1>2, <2>2 DEF HeldInv, OpenIsHeld, Storing, SetBy
  <2>7. StartKeeps'
    BY <1>2, <2>1, <2>2 DEF HeldInv, StartKeeps, NullPcs, OpenPcs, SetPcs, EnginelessPcs, Resources
  <2> QED BY <2>3, <2>5, <2>6, <2>7 DEF HeldInv
<1> QED BY <1>3, <1>4, HeldFacts DEF StartEngine, Fails, Threads, Thread

LEMMA HeldStep ==
    ASSUME "overlap" \notin Events
    PROVE  HeldInv /\ [Next]_vars => HeldInv'
<1> SUFFICES ASSUME HeldInv, [Next]_vars PROVE HeldInv' OBVIOUS
<1>1. BaseInv' BY BaseStep DEF HeldInv
<1>2. CASE UNCHANGED vars
  <2>1. /\ UNCHANGED <<store, field, open, engine, thread>>
        /\ \A i : (Owed(i) => Owed(i)') /\ (DestroyWaits(i) => DestroyWaits(i)')
    BY <1>2 DEF vars, appVars, systemVars, Owed, DestroyWaits
  <2> QED BY <1>1, <2>1, HeldQuiet
<1>3. CASE Next
  BY <1>1, <1>3, HeldOthers, HeldEngineEnds, HeldCrash, HeldTakes, HeldRevokes, HeldCloses, HeldNulls,
     HeldStopsEngine, HeldAnnounces, HeldStopsSelf, HeldGuard, HeldMoves, HeldMakes, HeldSets,
     HeldStartsEngine
  DEF Next, StartSteps, StopSteps, System
<1> QED BY <1>2, <1>3

(* Who holds what is open, in any order of the handlers that does not let  *)
(* onRevoke into a startTunnel at work.                                    *)
THEOREM HeldInvariance ==
    ASSUME "overlap" \notin Events PROVE Spec => []HeldInv
BY HeldInit, HeldStep, PTL DEF Spec

(* The engine never reads or writes a tun that startTunnel has not opened  *)
(* or cleanupTunnel has closed.                                            *)
THEOREM EngineOnOpenTunTheorem ==
    ASSUME "overlap" \notin Events PROVE Spec => []EngineOnOpenTun
<1>1. HeldInv => EngineOnOpenTun BY DEF HeldInv
<1> QED BY HeldInvariance, <1>1, PTL

(* At most one session has a selector, a relay or a tun open, over         *)
(* failures, restarts of the service and crashes.                          *)
THEOREM OneSessionTheorem ==
    ASSUME "overlap" \notin Events PROVE Spec => []OneSession
<1>1. HeldInv => OneSession
  <2> SUFFICES ASSUME HeldInv, NEW r \in Resources, NEW j \in open[r], NEW k \in open[r]
               PROVE  j = k
    BY DEF OneSession
  <2>1. j # 0 /\ k # 0 BY HeldFacts
  <2>2. CASE Storing(r, j) \/ Storing(r, k)
    <3>1. field[Here][r] = 0
      BY <2>2 DEF Storing, SetBy, HeldInv, StartKeeps, NullPcs, Resources, Here
    <3> QED BY <2>1, <2>2, <3>1 DEF HeldInv, OpenIsHeld, Storing
  <2>3. CASE ~Storing(r, j) /\ ~Storing(r, k) BY <2>3 DEF HeldInv, OpenIsHeld
  <2> QED BY <2>2, <2>3
<1> QED BY HeldInvariance, <1>1, PTL

(* Nothing that is open is lost: a handler holds it, or a service object   *)
(* that lives, is at work or still has its onDestroy to come.              *)
THEOREM NothingLostTheorem ==
    ASSUME "overlap" \notin Events PROVE Spec => []NothingLost
<1>1. HeldInv => NothingLost
  <2> SUFFICES ASSUME HeldInv, NEW r \in Resources, NEW k \in open[r], ~Storing(r, k)
               PROVE  \E i \in Instances :
                         /\ field[i][r] = k
                         /\ \/ ams.alive /\ ams.inst = i
                            \/ DestroyWaits(i)
                            \/ \E t \in Threads : thread[t].inst = i /\ ~At(t, "idle")
    BY DEF NothingLost, Storing
  <2>1. Here \in Instances /\ field[Here][r] = k /\ k # 0
    BY HeldFacts DEF HeldInv, OpenIsHeld
  <2>2. CASE thread["main"].pc = "idle"
    <3>1. Owed(Here) BY <2>1, <2>2 DEF HeldInv, OnlyHere, Zero
    <3> QED BY <2>1, <3>1 DEF Owed
  <2>3. CASE thread["main"].pc # "idle" BY <2>1, <2>3 DEF Here, At, Threads
  <2> QED BY <2>2, <2>3
<1> QED BY HeldInvariance, <1>1, PTL

(* Off and Error are true: once the handlers are done, nothing of any      *)
(* session is left open or running.                                        *)
THEOREM DownMeansReleasedTheorem ==
    ASSUME "overlap" \notin Events PROVE Spec => []DownMeansReleased
<1>1. HeldInv => DownMeansReleased
  <2> SUFFICES ASSUME HeldInv, AtRest, store.phase \in {"Off", "Error"}
               PROVE  engine = 0 /\ \A r \in Resources : open[r] = {}
    BY DEF DownMeansReleased
  <2>1. thread["main"].pc = "idle" BY DEF AtRest, At, Threads
  <2>2. Here \in Instances => Zero(Here) BY <2>1 DEF HeldInv, DownHere, AtRest
  <2>3. \A r \in Resources : open[r] = {}
    BY <2>1, <2>2, HeldFacts DEF HeldInv, OpenIsHeld, Storing, SetBy, Zero
  <2> QED BY <2>3 DEF HeldInv, EngineOnOpenTun, Resources
<1> QED BY HeldInvariance, <1>1, PTL

-----------------------------------------------------------------------------
(* BackedInv: what the phase On stands for *)

LEMMA BackedInit == Init => BackedInv
<1> SUFFICES ASSUME Init PROVE BackedInv OBVIOUS
<1>1. HeldInv BY HeldInit
<1>2. store.phase = "Off" /\ thread["main"].pc = "idle" /\ Here = 0
  BY DEF Init, State, Resting, Threads, Here
<1>3. OnHolds /\ TunHolds BY <1>2, BoundsAssumption DEF OnHolds, TunHolds, Instances
<1>4. StartSays /\ RefreshersKnown
  BY <1>2 DEF Init, StartSays, RefreshersKnown, AnnouncedPcs, LatePcs, StartPcs
<1> QED BY <1>1, <1>3, <1>4 DEF BackedInv

(* Nothing that the phase On and the tun stand for is touched.             *)
LEMMA BackedQuiet ==
    ASSUME BackedInv, HeldInv', UNCHANGED <<field, open, thread, scheduled, owner, sessions>>,
           UNCHANGED <<engine, died>> \/ (engine' = 0 /\ died'),
           store' = store \/ (store'.phase = "Starting" /\ MainIdle),
           \A k \in Sessions : callback'[k] # "none" => callback[k] # "none" \/ k \in scheduled,
           \A i \in Instances : DestroyWaits(i) => DestroyWaits(i)'
    PROVE  BackedInv'
<1> USE DEF BackedInv
<1>1. /\ \A k : Backed(k) => Backed(k)'
      /\ Undoing' = Undoing /\ (Awaited => Awaited') /\ Here' = Here
  BY DEF Backed, Undoing, Awaited, Here
<1>2. OnHolds' BY <1>1 DEF OnHolds
<1>3. TunHolds' BY <1>1 DEF TunHolds
<1>4. StartSays' BY DEF StartSays, MainIdle, AnnouncedPcs, StartPcs
<1>5. RefreshersKnown' BY DEF RefreshersKnown
<1> QED BY <1>2, <1>3, <1>4, <1>5

(* A refresh that does not come late says On for the session that is whole. *)
LEMMA BackedRefreshes ==
    ASSUME "late" \notin Events, BackedInv, HeldInv', NEW k \in Sessions, CallbackUpdates(k)
    PROVE  BackedInv'
<1> USE DEF BackedInv
<1>1. /\ field[owner[k]]["tun"] = k /\ k # 0 /\ k \in scheduled /\ owner[k] \in Instances
      /\ store' = State("On", k)
      /\ UNCHANGED <<field, open, engine, died, thread, scheduled, owner, sessions, queue>>
      /\ callback' = [callback EXCEPT ![k] = "none"]
  BY HeldFacts, Bounds DEF CallbackUpdates, RefreshersKnown, systemVars
<1>2. /\ UNCHANGED <<Undoing, Awaited, Here, TunHolds>> /\ \A j : Backed(j)' = Backed(j)
  BY <1>1 DEF Undoing, Awaited, DestroyWaits, Here, TunHolds, Backed
<1>3. owner[k] = Here /\ Here \in Instances
  BY <1>1 DEF HeldInv, OnlyHere, Zero, Resources
<1>4. thread["main"] \in Thread BY HeldFacts
<1>5. /\ thread["main"].pc \notin AnnouncedPcs
      /\ thread["main"].pc \notin {"starting", "startSel", "stopSelf"}
  <2>1. ASSUME thread["main"].pc \in LatePcs PROVE thread["main"].session # k
    BY <1>1, <2>1 DEF RefreshersKnown
  <2>2. thread["main"].pc \in SetPcs["tun"] => thread["main"].pc \in LatePcs
    BY DEF SetPcs, LatePcs, StartPcs
  <2>3. thread["main"].pc \notin SetPcs["tun"]
    BY <1>1, <1>3, <2>1, <2>2 DEF HeldInv, StartKeeps, Resources, Here
  <2>4. thread["main"].pc \notin NullPcs["tun"]
    BY <1>1, <1>3 DEF HeldInv, StartKeeps, Resources, Here
  <2>5. thread["main"].pc \notin NulledPcs["tun"]
    BY <1>1, <1>3 DEF HeldInv, CleanupKeeps, Resources, Here, Threads
  <2> QED BY <2>3, <2>4, <2>5 DEF SetPcs, NullPcs, NulledPcs, EndPcs, AnnouncedPcs, StartPcs
<1>6. Backed(k) \/ Undoing \/ Awaited
  <2>1. CASE thread["main"].pc \in {"idle", "guard"} BY <1>1, <1>3, <2>1 DEF TunHolds
  <2>2. CASE thread["main"].pc \notin {"idle", "guard"}
    <3>1. thread["main"].pc \in UndoingPcs
      BY <1>4, <1>5, <2>2 DEF Thread, AllPcs, UndoingPcs, AnnouncedPcs, EndPcs
    <3> QED BY <3>1 DEF Undoing, Threads
  <2> QED BY <2>1, <2>2
<1>7. OnHolds' BY <1>1, <1>2, <1>6 DEF OnHolds, State
<1>8. StartSays' BY <1>1, <1>5 DEF StartSays
<1>9. RefreshersKnown' BY <1>1 DEF RefreshersKnown
<1> QED BY <1>2, <1>7, <1>8, <1>9

LEMMA BackedTakes ==
    ASSUME BackedInv, HeldInv', MainTakes
    PROVE  BackedInv'
<1> USE DEF BackedInv
<1>1. BaseInv /\ TypeOK BY DEF HeldInv, BaseInv
<1>2. PICK m \in Messages : m = Head(queue)
  BY <1>1, TypeFacts, TailFacts DEF MainTakes
<1>3. /\ UNCHANGED <<store, field, open, engine, died, owner, scheduled, callback, sessions>>
      /\ thread["main"].pc = "idle" /\ thread'["binder"] = thread["binder"]
      /\ thread'["main"].pc = IF m.kind = "CONNECT" THEN "guard" ELSE "closeSel"
      /\ thread'["main"].inst = m.inst /\ m.inst \in Instances
  <2>1. thread \in [Threads -> Thread] BY HeldFacts
  <2>2. m.inst \in Instances BY <1>2 DEF Messages
  <2> QED BY <1>2, <2>1, <2>2 DEF MainTakes, MainIdle, Enters, Threads
<1>4. \A k : Backed(k)' = Backed(k) BY <1>3 DEF Backed
<1>5. Undoing => Undoing'
  BY <1>3 DEF Undoing, UndoingPcs, CleanupPcs, Threads
<1>6. CASE m.kind = "CONNECT"
  <2>1. \A i : m # Message("DESTROY", i) BY <1>6 DEF Message
  <2>2. Awaited => Awaited'
    BY <1>1, <1>2, <2>1, WaitsTaken DEF Awaited, MainTakes
  <2>3. OnHolds' BY <1>3, <1>4, <1>5, <2>2 DEF OnHolds
  <2>4. TunHolds'
    <3>1. CASE m.inst = Here
      BY <1>3, <1>4, <1>5, <2>2, <3>1 DEF TunHolds, Here
    <3>2. CASE m.inst # Here
      <4>1. field[m.inst]["tun"] = 0 BY <1>3, <3>2 DEF HeldInv, OnlyHere, Zero, Resources
      <4> QED BY <1>3, <4>1 DEF TunHolds, Here
    <3> QED BY <3>1, <3>2
  <2>5. StartSays' /\ RefreshersKnown'
    BY <1>3, <1>6 DEF StartSays, RefreshersKnown, AnnouncedPcs, LatePcs, StartPcs
  <2> QED BY <2>3, <2>4, <2>5
<1>7. CASE m.kind # "CONNECT"
  <2>1. Undoing' BY <1>3, <1>7 DEF Undoing, UndoingPcs, CleanupPcs, Threads
  <2>2. StartSays' /\ RefreshersKnown'
    BY <1>3, <1>7 DEF StartSays, RefreshersKnown, AnnouncedPcs, LatePcs, StartPcs
  <2> QED BY <2>1, <2>2 DEF OnHolds, TunHolds
<1> QED BY <1>6, <1>7

LEMMA BackedStops ==
    ASSUME BackedInv, HeldInv', NEW t \in Threads, StopSteps(t)
    PROVE  BackedInv'
<1> USE DEF BackedInv
<1>0. /\ thread[t].pc \in CleanupPcs \cup EndPcs /\ thread'["main"].pc \notin StartPcs
      /\ \A u \in Threads : u # t => thread'[u] = thread[u]
      /\ Here' = Here
  BY StopFacts
<1>1. /\ thread[t].pc \notin StartPcs /\ thread'["main"].pc \notin StartPcs
      /\ \A u \in Threads : u # t => thread'[u] = thread[u]
      /\ UNCHANGED <<callback, scheduled, owner, sessions>>
      /\ thread[t] \in Thread /\ thread \in [Threads -> Thread]
  <2>1. thread[t].pc \notin StartPcs BY <1>0 DEF CleanupPcs, EndPcs, StartPcs
  <2>2. UNCHANGED <<callback, scheduled, owner, sessions>>
    BY DEF StopSteps, Closes, Nulls, StopsEngine, Announces, StopsSelf
  <2>3. thread[t] \in Thread /\ thread \in [Threads -> Thread] BY HeldFacts
  <2> QED BY <1>0, <2>1, <2>2, <2>3
<1>2. StartSays' /\ RefreshersKnown'
  BY <1>1 DEF StartSays, RefreshersKnown, AnnouncedPcs, LatePcs, StartPcs
<1>3. CASE Closes(t) \/ Nulls(t) \/ StopsEngine(t)
  <2>1. thread'[t].pc \in UndoingPcs
    BY <1>1, <1>3 DEF Closes, Nulls, StopsEngine, Advances, AfterCleanup, Goes, At, ClosedBy, NulledBy,
                      UndoingPcs, CleanupPcs, Thread
  <2>2. Undoing' BY <2>1 DEF Undoing
  <2> QED BY <1>2, <2>2 DEF OnHolds, TunHolds
<1>4. CASE Announces(t)
  <2>1. /\ store'.phase # "On" /\ UNCHANGED <<field, open, engine, died, queue>>
        /\ thread[t].pc \in {"off", "error"} /\ thread'[t].pc = "stopSelf"
        /\ thread'[t].inst = thread[t].inst
    BY <1>1, <1>4 DEF Announces, State, Goes, systemVars, Thread
  <2>2. TunHolds'
    <3>1. CASE t = "main" BY <2>1, <3>1 DEF TunHolds
    <3>2. CASE t # "main"
      <4>1. t = "binder" /\ UNCHANGED Here /\ thread'["main"] = thread["main"]
        BY <1>1, <3>2 DEF Threads, Here
      <4>2. CASE thread["binder"].inst = Here
        <5>1. field[Here]["tun"] = 0
          BY <2>1, <4>1, <4>2 DEF HeldInv, CleanupKeeps, NulledPcs, EndPcs, Resources
        <5> QED BY <2>1, <4>1, <5>1 DEF TunHolds
      <4>3. CASE thread["binder"].inst # Here /\ thread["main"].pc = "idle" /\ Here \in Instances
        <5>1. Zero(Here) \/ DestroyWaits(Here) BY <2>1, <4>1, <4>3 DEF HeldInv, DownHere
        <5>2. field[Here]["tun"] = 0 \/ Awaited
          BY <4>3, <5>1 DEF Zero, Resources, Awaited
        <5>3. Awaited' = Awaited BY <2>1 DEF Awaited, DestroyWaits
        <5> QED BY <2>1, <4>1, <5>2, <5>3 DEF TunHolds
      <4>4. CASE thread["main"].pc # "idle"
        <5>1. thread["main"].pc \notin StartPcs BY <2>1, <4>1 DEF HeldInv, Apart
        <5> QED BY <4>1, <4>4, <5>1 DEF TunHolds, StartPcs
      <4>5. CASE Here \notin Instances BY <4>1, <4>5 DEF TunHolds
      <4> QED BY <4>2, <4>3, <4>4, <4>5
    <3> QED BY <3>1, <3>2
  <2> QED BY <1>2, <2>1, <2>2 DEF OnHolds
<1>5. CASE StopsSelf(t)
  <2>1. /\ UNCHANGED <<store, field, open, engine, died, queue>>
        /\ thread[t].pc = "stopSelf" /\ thread'[t].pc = "idle" /\ thread'[t].inst = thread[t].inst
    BY <1>1, <1>5 DEF StopsSelf, At, Goes, Thread
  <2>2. (Undoing => Undoing') /\ Awaited' = Awaited /\ \A k : Backed(k)' = Backed(k) /\ Here' = Here
    <3>1. Undoing => Undoing' BY <1>1, <2>1 DEF Undoing, UndoingPcs, CleanupPcs
    <3>2. Awaited' = Awaited /\ \A k : Backed(k)' = Backed(k)
      BY <2>1 DEF Awaited, DestroyWaits, Backed
    <3> QED BY <1>0, <3>1, <3>2
  <2>3. TunHolds'
    <3>1. CASE t = "main"
      <4>1. field[Here]["tun"] = 0
        BY <2>1, <3>1 DEF HeldInv, CleanupKeeps, NulledPcs, EndPcs, Resources, Here, Threads
      <4> QED BY <2>1, <2>2, <4>1 DEF TunHolds
    <3>2. CASE t # "main"
      <4>1. thread'["main"] = thread["main"] BY <1>1, <3>2 DEF Threads
      <4> QED BY <2>1, <2>2, <4>1 DEF TunHolds
    <3> QED BY <3>1, <3>2
  <2>4. OnHolds' BY <2>1, <2>2 DEF OnHolds
  <2> QED BY <1>2, <2>3, <2>4
<1> QED BY <1>3, <1>4, <1>5 DEF StopSteps

(* A startTunnel that has its engine has a whole session.                  *)
LEMMA StartBacked ==
    ASSUME BackedInv, thread["main"].pc \in {"on", "startSel"}
    PROVE  Backed(thread["main"].session) /\ field[Here]["tun"] = thread["main"].session
<1> DEFINE k == thread["main"].session
<1>1. HeldInv /\ (engine = k \/ died) BY DEF BackedInv, StartSays
<1>2. ASSUME NEW r \in Resources PROVE open[r] = {k} /\ field[Here][r] = k
  <2>1. k \in open[r] /\ field[Here][r] = k
    BY <1>1 DEF HeldInv, StartKeeps, OpenPcs, SetPcs, Resources, Here
  <2>2. \A j \in open[r] : field[Here][r] = j
    BY <1>1 DEF HeldInv, OpenIsHeld, Storing, SetBy
  <2> QED BY <2>1, <2>2
<1> QED BY <1>1, <1>2 DEF Backed, Resources

LEMMA BackedStarts ==
    ASSUME BackedInv, HeldInv', StartSteps
    PROVE  BackedInv'
<1> DEFINE pc == thread["main"].pc
           next == thread'["main"].pc
<1> USE DEF BackedInv
<1>1. /\ thread \in [Threads -> Thread] /\ thread["main"] \in Thread
      /\ pc \in StartPcs /\ thread["binder"].pc = "idle" /\ callback' = callback
      /\ Here \in Instances
  BY HeldFacts, StartFacts DEF StartSteps, StartGuard, StartAnnounces, StartMakesSelector, StartOpensRelay,
     StartEstablishes, StartSets, StartGetsFd, StartEngine, StartSucceeds, StartsSelector,
     HeldInv, BaseInv, InstancesKnown, Here, Threads, At, SetBy, StartPcs
<1>2. ~Undoing
  BY <1>1 DEF Undoing, UndoingPcs, CleanupPcs, StartPcs, Threads
<1>3. CASE StartGuard
  <2>1. /\ UNCHANGED <<store, field, open, engine, died, owner, scheduled, sessions, queue>>
        /\ pc = "guard" /\ next \in {"idle", "starting"} /\ Here' = Here
    BY <1>1, <1>3 DEF StartGuard, Goes, At, Thread, Threads, systemVars, Here
  <2>2. Awaited' = Awaited /\ \A k : Backed(k)' = Backed(k)
    BY <2>1 DEF Awaited, DestroyWaits, Backed
  <2>3. OnHolds' /\ TunHolds' BY <1>2, <2>1, <2>2 DEF OnHolds, TunHolds
  <2>4. StartSays' /\ RefreshersKnown'
    BY <1>1, <2>1 DEF StartSays, RefreshersKnown, AnnouncedPcs, LatePcs, StartPcs
  <2> QED BY <2>3, <2>4
<1>4. CASE StartsSelector
  <2> DEFINE k == thread["main"].session
  <2>1. /\ UNCHANGED <<store, field, open, engine, died, owner, sessions>> /\ Here' = Here
        /\ pc = "startSel" /\ next = "idle" /\ scheduled' \subseteq scheduled \cup {k}
    BY <1>1, <1>4 DEF StartsSelector, Goes, At, Thread, Threads, Here
  <2>2. Backed(k) /\ field[Here]["tun"] = k BY <2>1, StartBacked
  <2>3. \A j : Backed(j)' = Backed(j) BY <2>1 DEF Backed
  <2>4. TunHolds' BY <2>1, <2>2, <2>3 DEF TunHolds
  <2>5. OnHolds'
    <3>1. queue' = queue BY <1>4 DEF StartsSelector, systemVars
    <3>2. Awaited' = Awaited BY <3>1 DEF Awaited, DestroyWaits
    <3> QED BY <1>2, <2>1, <2>3, <3>2 DEF OnHolds
  <2>6. StartSays' BY <2>1 DEF StartSays, AnnouncedPcs, StartPcs
  <2>7. RefreshersKnown'
    <3>1. k <= sessions /\ owner[k] \in Instances BY <2>1 DEF RefreshersKnown, LatePcs, StartPcs
    <3>2. scheduled \subseteq scheduled' BY <1>4 DEF StartsSelector
    <3> QED BY <1>1, <2>1, <3>1, <3>2 DEF RefreshersKnown, LatePcs, StartPcs
  <2> QED BY <2>4, <2>5, <2>6, <2>7
<1>5. CASE StartAnnounces
  <2>1. store'.phase = "Starting" /\ next = "newSel" /\ UNCHANGED <<scheduled, sessions, owner>>
    BY <1>1, <1>5 DEF StartAnnounces, State, Goes, Thread, Threads
  <2>2. RefreshersKnown' BY <1>1, <2>1 DEF RefreshersKnown, LatePcs
  <2>3. OnHolds' /\ TunHolds' /\ StartSays' BY <2>1 DEF OnHolds, TunHolds, StartSays
  <2> QED BY <2>2, <2>3
<1>6. CASE StartMakesSelector \/ StartOpensRelay \/ StartEstablishes \/ StartSets \/ StartGetsFd \/ StartEngine
  <2>1. pc \in AnnouncedPcs /\ store' = store /\ scheduled' = scheduled
    BY <1>6 DEF StartMakesSelector, StartOpensRelay, StartEstablishes, StartSets, StartGetsFd,
                StartEngine, At, SetBy, AnnouncedPcs, StartPcs
  <2>2. store'.phase = "Starting" BY <2>1 DEF StartSays
  <2>3. next \in {"on", "startSel"} => engine' = thread'["main"].session
    BY <1>1, <1>6 DEF StartMakesSelector, StartOpensRelay, StartEstablishes, StartSets, StartGetsFd,
                StartEngine, Fails, At, SetBy, AfterSet, Goes, Thread, Threads
  <2>4. OnHolds' /\ StartSays' BY <2>2, <2>3 DEF OnHolds, StartSays
  <2>5. TunHolds'
    <3>1. next \notin {"idle", "guard"}
      BY <1>1, <1>6 DEF StartMakesSelector, StartOpensRelay, StartEstablishes, StartSets, StartGetsFd,
                  StartEngine, Fails, At, SetBy, AfterSet, Goes, Thread, Threads
    <3> QED BY <3>1 DEF TunHolds
  <2>6. RefreshersKnown'
    <3>1. CASE StartMakesSelector
      <4>1. sessions \in Nat /\ owner \in [Sessions -> 0 .. MaxInstances] /\ scheduled \subseteq Sessions
            /\ \A k \in scheduled : k \in Nat
        BY Bounds DEF HeldInv, BaseInv, TypeOK
      <4>2. CASE UNCHANGED <<sessions, owner>> /\ Fails
        <5>1. next = "closeSel" BY <1>1, <4>2 DEF Fails, Threads, Thread
        <5> QED BY <1>1, <2>1, <4>2, <5>1 DEF RefreshersKnown, LatePcs, StartPcs
      <4>3. CASE ~(UNCHANGED <<sessions, owner>> /\ Fails)
        <5> DEFINE k == sessions + 1
        <5>1. /\ sessions' = k /\ thread'["main"].session = k
              /\ owner' = [owner EXCEPT ![k] = Here] /\ next = "setSel"
          BY <1>1, <3>1, <4>3 DEF StartMakesSelector, Threads, Thread, Here
        <5>2. k \in Sessions
          <6>1. BaseInv' /\ next \in LatePcs BY <5>1 DEF HeldInv, LatePcs, StartPcs
          <6> QED BY <5>1, <6>1 DEF BaseInv, SessionKnown, LatePcs
        <5>3. k \notin scheduled /\ \A j \in scheduled : j <= k /\ j # k
          BY <4>1 DEF RefreshersKnown
        <5>4. owner'[k] = Here /\ \A j \in scheduled : owner'[j] = owner[j]
          BY <4>1, <5>1, <5>2, <5>3
        <5>5. k <= sessions' BY <4>1, <5>1
        <5> HIDE DEF k
        <5> QED BY <1>1, <2>1, <5>1, <5>3, <5>4, <5>5 DEF RefreshersKnown
      <4> QED BY <4>2, <4>3, <3>1 DEF StartMakesSelector
    <3>2. CASE ~StartMakesSelector
      <4>1. UNCHANGED <<sessions, owner>> /\ thread'["main"].session = thread["main"].session
        BY <1>1, <1>6, <3>2 DEF StartOpensRelay, StartEstablishes, StartSets, StartGetsFd, StartEngine,
              Fails, Goes, Threads, Thread
      <4>2. pc \in LatePcs
        BY <1>6, <3>2 DEF StartOpensRelay, StartEstablishes, StartSets, StartGetsFd, StartEngine, At,
              SetBy, LatePcs, StartPcs
      <4> QED BY <1>1, <2>1, <4>1, <4>2 DEF RefreshersKnown
    <3> QED BY <3>1, <3>2
  <2> QED BY <2>4, <2>5, <2>6
<1>7. CASE StartSucceeds
  <2> DEFINE k == thread["main"].session
  <2>1. /\ pc = "on" /\ next = "startSel" /\ thread'["main"].session = k
        /\ store' = State("On", k) /\ UNCHANGED <<open, engine, died, scheduled, sessions, owner>>
    BY <1>1, <1>7 DEF StartSucceeds, At, Goes, Thread, Threads
  <2>2. Backed(k) BY <2>1, StartBacked
  <2>3. OnHolds' BY <2>1, <2>2 DEF OnHolds, Backed, State
  <2>4. TunHolds' BY <2>1 DEF TunHolds
  <2>5. StartSays' BY <2>1 DEF StartSays, AnnouncedPcs
  <2>6. RefreshersKnown' BY <1>1, <2>1 DEF RefreshersKnown, LatePcs, StartPcs
  <2> QED BY <2>3, <2>4, <2>5, <2>6
<1> QED BY <1>3, <1>4, <1>5, <1>6, <1>7 DEF StartSteps

LEMMA BackedStep ==
    ASSUME "overlap" \notin Events, "late" \notin Events
    PROVE  BackedInv /\ [Next]_vars => BackedInv'
<1> SUFFICES ASSUME BackedInv, [Next]_vars PROVE BackedInv' OBVIOUS
<1>1. HeldInv /\ HeldInv' BY HeldStep DEF BackedInv
<1>2. thread \in [Threads -> Thread] BY <1>1, HeldFacts
<1>3. CASE UNCHANGED vars
  <2>1. \A i \in Instances : DestroyWaits(i) => DestroyWaits(i)'
    BY <1>3 DEF vars, systemVars, DestroyWaits
  <2> QED BY <1>1, <1>3, <2>1, BackedQuiet DEF vars, appVars
<1>4. CASE User \/ SystemStarts \/ SystemUnbinds \/ SystemDestroys
  <2>1. /\ UNCHANGED <<field, open, engine, died, thread, scheduled, owner, sessions, callback>>
        /\ store' = store \/ (store'.phase = "Starting" /\ MainIdle)
    BY <1>4 DEF User, SystemStarts, NotificationStops, ToggleOff, ToggleOn, StartVpnService,
                PermissionDenied, SystemUnbinds, SystemDestroys, appVars, State
  <2>2. queue' = queue \/ \E m \in Messages : queue' = Append(queue, m)
    <3>1. CASE SystemDestroys
      <4>1. ams.inst \in Instances
        BY <1>1, <3>1 DEF SystemDestroys, HeldInv, BaseInv, InstancesKnown
      <4>2. Message("DESTROY", ams.inst) \in Messages BY <4>1 DEF Message, Messages
      <4> QED BY <3>1, <4>2 DEF SystemDestroys
    <3>2. CASE \E kind \in {"CONNECT", "DISCONNECT"} : Delivers(kind)
      <4>1. ams \in Ams /\ (ams.alive => ams.inst \in Instances)
        BY <1>1, TypeFacts DEF HeldInv, BaseInv, InstancesKnown
      <4>2. CanDeliver => Reached \in Instances
        BY <4>1, Bounds DEF CanDeliver, Reached, Instances, Ams
      <4> QED BY <3>2, <4>2 DEF Delivers, Message, Messages
    <3>3. CASE queue' = queue BY <3>3
    <3> QED BY <1>4, <3>1, <3>2, <3>3 DEF User, SystemStarts, NotificationStops, ToggleOff, ToggleOn,
          StartVpnService, PermissionDenied, SystemUnbinds, SystemDestroys
  <2>3. \A i \in Instances : DestroyWaits(i) => DestroyWaits(i)'
    <3>1. queue \in Seq(Messages) BY <1>1, TypeFacts DEF HeldInv, BaseInv
    <3>2. ASSUME NEW m \in Messages, queue' = Append(queue, m), NEW i \in Instances, DestroyWaits(i)
          PROVE  DestroyWaits(i)'
      BY <3>1, <3>2, AppendFacts DEF DestroyWaits
    <3> QED BY <2>2, <3>2 DEF DestroyWaits
  <2> QED BY <1>1, <2>1, <2>3, BackedQuiet
<1>5. CASE ProcessDies
  <2>1. /\ store'.phase = "Off" /\ thread'["main"].pc = "idle" /\ Here' = 0
        /\ scheduled' = {} /\ \A k \in Sessions : callback'[k] = "none"
    BY <1>5 DEF ProcessDies, State, Resting, Threads, Here
  <2>2. RefreshersKnown' /\ StartSays' /\ OnHolds'
    BY <2>1 DEF RefreshersKnown, StartSays, OnHolds, AnnouncedPcs, LatePcs, StartPcs
  <2>3. TunHolds' BY <2>1, BoundsAssumption DEF TunHolds, Instances
  <2> QED BY <1>1, <2>2, <2>3 DEF BackedInv
<1>6. CASE MainTakes BY <1>1, <1>6, BackedTakes
<1>7. CASE Revokes
  <2>1. /\ UNCHANGED <<store, open, engine, died, scheduled, sessions, owner, callback>>
        /\ thread'["binder"].pc = "closeSel" /\ thread'["main"] = thread["main"]
    BY <1>2, <1>7 DEF Revokes, Enters, Threads, Thread
  <2>2. Undoing' BY <2>1 DEF Undoing, UndoingPcs, CleanupPcs, Threads
  <2>3. StartSays' /\ RefreshersKnown'
    BY <2>1 DEF BackedInv, StartSays, RefreshersKnown
  <2> QED BY <1>1, <2>2, <2>3 DEF BackedInv, OnHolds, TunHolds
<1>8. CASE EngineEnds \/ \E k \in Sessions : CallbackEnters(k) \/ CallbackLooks(k)
  <2>1. /\ UNCHANGED <<store, field, open, thread, scheduled, owner, sessions, queue>>
        /\ UNCHANGED <<engine, died>> \/ (engine' = 0 /\ died')
    BY <1>8 DEF EngineEnds, CallbackEnters, CallbackLooks, systemVars
  <2>2. \A k \in Sessions : callback'[k] # "none" => callback[k] # "none" \/ k \in scheduled
    <3>1. callback \in [Sessions -> {"none", "entered", "seen"}]
      BY <1>1 DEF HeldInv, BaseInv, TypeOK
    <3> QED BY <1>8, <3>1 DEF EngineEnds, CallbackEnters, CallbackLooks
  <2>3. \A i \in Instances : DestroyWaits(i) => DestroyWaits(i)' BY <2>1 DEF DestroyWaits
  <2> QED BY <1>1, <2>1, <2>2, <2>3, BackedQuiet
<1>9. CASE \E k \in Sessions : CallbackUpdates(k) BY <1>1, <1>9, BackedRefreshes
<1> QED BY <1>1, <1>3, <1>4, <1>5, <1>6, <1>7, <1>8, <1>9, BackedStops, BackedStarts DEF Next, System

(* On is true too, over refreshes that say it again, stops by onRevoke on   *)
(* its own thread, restarts, failing starts and an engine that ends by      *)
(* itself (of which nobody is told), as long as no refresh says it for a    *)
(* tunnel that is down by then (where it need not be, as TLC shows) and     *)
(* onRevoke does not come into a startTunnel at work.                       *)
THEOREM OnIsBackedTheorem ==
    ASSUME "overlap" \notin Events, "late" \notin Events
    PROVE  Spec => []OnIsBacked
<1>1. BackedInv => OnIsBacked
  BY DEF BackedInv, OnHolds, Backed, Undoing, UndoingPcs, CleanupPcs, Awaited, OnIsBacked, AtRest, At
<1> QED BY BackedInit, BackedStep, <1>1, PTL DEF Spec

=============================================================================
