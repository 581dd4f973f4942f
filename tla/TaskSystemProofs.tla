--------------------------- MODULE TaskSystemProofs ---------------------------
(***************************************************************************)
(* No task that can go on is forgotten, for any set of tasks, any          *)
(* priorities and any costs of their turns.                                *)
(***************************************************************************)
EXTENDS TaskSystem, SequenceTheorems, WellFoundedInduction, TLAPS

(* A set of natural numbers has a smallest one, which Min chooses. *)
LEMMA MinIsSmallest ==
    ASSUME NEW S \in SUBSET Nat, S # {}
    PROVE  Min(S) \in S /\ \A x \in S : Min(S) <= x
<1>1. PICK m \in S : \A y \in S : ~ (<<y, m>> \in OpToRel(<, Nat))
  BY NatLessThanWellFounded, WFMin
<1>2. OpToRel(<, Nat) = {ss \in Nat \X Nat : ss[1] < ss[2]}
  BY DEF OpToRel
<1>3. \A y \in S : ~ (y < m)
  BY <1>1, <1>2
<1>4. \A y \in S : m <= y
  BY <1>3
<1> QED BY <1>4 DEF Min

(* Rebasing leaves a smallest key, of 0, and does not touch those that are *)
(* 0 already.                                                              *)
LEMMA RebasedKeys ==
    ASSUME NEW k \in [Tasks -> Nat], NEW S \in SUBSET Tasks
    PROVE  /\ Rebased(k, S) \in [Tasks -> Nat]
           /\ S # {} => \E t \in S : Rebased(k, S)[t] = 0
           /\ \A t \in S : k[t] = 0 => Rebased(k, S)[t] = 0
<1>1. CASE S = {}
  BY <1>1 DEF Rebased
<1>2. CASE S # {}
  <2> DEFINE keys == {k[u] : u \in S}
  <2>1. keys \in SUBSET Nat /\ keys # {}
    BY <1>2
  <2>2. Min(keys) \in keys /\ \A x \in keys : Min(keys) <= x
    BY <2>1, MinIsSmallest
  <2> HIDE DEF keys
  <2>3. Rebased(k, S) = [t \in Tasks |-> IF t \in S THEN k[t] - Min(keys) ELSE 0]
    BY DEF Rebased, keys
  <2>4. \A t \in S : k[t] \in keys /\ Min(keys) <= k[t]
    BY <2>2 DEF keys
  <2>5. \A t \in Tasks : Rebased(k, S)[t] \in Nat
    <3>1. Min(keys) \in Nat /\ \A t \in Tasks : k[t] \in Nat
      BY <2>1, <2>2
    <3>2. \A t \in S : k[t] - Min(keys) \in Nat
      BY <2>4, <3>1
    <3> QED BY <2>3, <3>2
  <2>6. PICK t \in S : k[t] = Min(keys)
    BY <2>2 DEF keys
  <2>7. Rebased(k, S)[t] = 0
    BY <2>3, <2>6
  <2>8. ASSUME NEW u \in S, k[u] = 0 PROVE Rebased(k, S)[u] = 0
    <3>1. Min(keys) \in Nat /\ Min(keys) <= 0
      BY <2>1, <2>2, <2>4, <2>8
    <3>2. Rebased(k, S)[u] = k[u] - Min(keys)
      BY <2>3
    <3> QED BY <2>8, <3>1, <3>2
  <2> QED BY <2>3, <2>5, <2>7, <2>8
<1> QED BY <1>1, <1>2

LEMMA WokenKeys ==
    ASSUME key \in [Tasks -> Nat], NEW W, ready \subseteq Tasks
    PROVE  Woken(W) \in [Tasks -> Nat] /\ \A t \in ready : Woken(W)[t] = key[t]
BY TaskAssumption DEF Woken

-----------------------------------------------------------------------------
(* Lists in which nobody is twice *)

Once(list) == \A i, j \in DOMAIN list : list[i] = list[j] => i = j

(* One put between two parts of a list, index by index. *)
LEMMA Between ==
    ASSUME NEW s \in Seq(Tasks), NEW p \in 0 .. Len(s), NEW t \in Tasks
    PROVE  LET r == SubSeq(s, 1, p) \o <<t>> \o SubSeq(s, p + 1, Len(s))
           IN  /\ r \in Seq(Tasks) /\ Len(r) = Len(s) + 1
               /\ \A i \in 1 .. Len(s) + 1 :
                    r[i] = IF i <= p THEN s[i] ELSE IF i = p + 1 THEN t ELSE s[i - 1]
<1>1. \A i \in 1 .. Len(s) : s[i] \in Tasks
  OBVIOUS
<1>0. p \in Nat /\ Len(s) \in Nat /\ p <= Len(s) /\ p + 1 + (Len(s) - p) = Len(s) + 1
  OBVIOUS
<1> DEFINE a == SubSeq(s, 1, p)
           b == SubSeq(s, p + 1, Len(s))
           c == a \o <<t>>
<1>2. a \in Seq(Tasks) /\ Len(a) = p /\ \A i \in 1 .. p : a[i] = s[i]
  BY <1>1, SubSeqProperties
<1>3. b \in Seq(Tasks) /\ Len(b) = Len(s) - p /\ \A i \in 1 .. Len(s) - p : b[i] = s[p + i]
  BY <1>1, SubSeqProperties
<1> HIDE DEF a, b
<1>4. <<t>> \in Seq(Tasks) /\ Len(<<t>>) = 1 /\ <<t>>[1] = t
  OBVIOUS
<1>5. /\ c \in Seq(Tasks) /\ Len(c) = p + 1
      /\ \A i \in 1 .. p + 1 : c[i] = IF i <= p THEN a[i] ELSE <<t>>[i - p]
  BY <1>2, <1>4, ConcatProperties
<1> HIDE DEF c
<1>6. /\ c \o b \in Seq(Tasks) /\ Len(c \o b) = Len(s) + 1
      /\ \A i \in 1 .. Len(s) + 1 : (c \o b)[i] = IF i <= p + 1 THEN c[i] ELSE b[i - (p + 1)]
  <2>1. /\ c \o b \in Seq(Tasks) /\ Len(c \o b) = Len(c) + Len(b)
        /\ \A i \in 1 .. Len(c) + Len(b) : (c \o b)[i] = IF i <= Len(c) THEN c[i] ELSE b[i - Len(c)]
    BY <1>3, <1>5, ConcatProperties
  <2>2. Len(c) = p + 1 /\ Len(c) + Len(b) = Len(s) + 1
    BY <1>0, <1>3, <1>5
  <2> QED BY <2>1, <2>2
<1>7. ASSUME NEW i \in 1 .. Len(s) + 1
      PROVE  (c \o b)[i] = IF i <= p THEN s[i] ELSE IF i = p + 1 THEN t ELSE s[i - 1]
  <2>1. CASE i <= p
    BY <1>2, <1>5, <1>6, <2>1
  <2>2. CASE i = p + 1
    BY <1>4, <1>5, <1>6, <2>2
  <2>3. CASE i > p + 1
    <3>1. i - (p + 1) \in 1 .. Len(s) - p /\ p + (i - (p + 1)) = i - 1
      BY <1>0, <2>3
    <3>2. b[i - (p + 1)] = s[i - 1]
      BY <1>3, <3>1
    <3>3. (c \o b)[i] = b[i - (p + 1)]
      BY <1>0, <1>6, <2>3
    <3>4. ~(i <= p) /\ i # p + 1
      BY <1>0, <2>3
    <3> QED BY <3>2, <3>3, <3>4
  <2>4. i <= p \/ i = p + 1 \/ i > p + 1
    BY <1>0
  <2> QED BY <2>1, <2>2, <2>3, <2>4
<1> QED BY <1>6, <1>7 DEF a, b, c

LEMMA PutBetween ==
    ASSUME NEW s \in Seq(Tasks), Once(s), NEW p \in 0 .. Len(s), NEW t \in Tasks, t \notin Names(s),
           NEW r \in Seq(Tasks), Len(r) = Len(s) + 1,
           \A i \in 1 .. Len(s) + 1 : r[i] = IF i <= p THEN s[i] ELSE IF i = p + 1 THEN t ELSE s[i - 1]
    PROVE  Once(r) /\ Names(r) = Names(s) \cup {t}
<1>1. DOMAIN r = 1 .. Len(s) + 1 /\ DOMAIN s = 1 .. Len(s) /\ Len(s) \in Nat
  OBVIOUS
<1>2. \A i \in DOMAIN s : s[i] # t
  BY DEF Names
<1>7. \A i \in DOMAIN r : i # p + 1 =>
        \E k \in DOMAIN s : r[i] = s[k] /\ k = IF i <= p THEN i ELSE i - 1
  BY <1>1
<1>6. p + 1 \in DOMAIN r /\ r[p + 1] = t
  BY <1>1
<1>3. Once(r)
  BY <1>1, <1>2, <1>6, <1>7 DEF Once
<1>4. \A i \in DOMAIN r : r[i] \in Names(s) \cup {t}
  BY <1>6, <1>7 DEF Names
<1>5. \A i \in DOMAIN s : \E j \in DOMAIN r : r[j] = s[i]
  <2> TAKE i \in DOMAIN s
  <2>1. CASE i <= p
    BY <1>1, <2>1
  <2>2. CASE i > p
    <3>1. i + 1 \in DOMAIN r /\ r[i + 1] = s[(i + 1) - 1]
      BY <1>1, <2>2
    <3> QED BY <1>1, <3>1
  <2> QED BY <1>1, <2>1, <2>2
<1> QED BY <1>3, <1>4, <1>5, <1>6 DEF Names

LEMMA PutFirst ==
    ASSUME NEW s \in Seq(Tasks), Once(s), NEW t \in Tasks, t \notin Names(s),
           NEW r \in Seq(Tasks), Len(r) = Len(s) + 1,
           \A i \in 1 .. Len(s) + 1 : r[i] = IF i = 1 THEN t ELSE s[i - 1]
    PROVE  Once(r) /\ Names(r) = Names(s) \cup {t}
<1>1. DOMAIN r = 1 .. Len(s) + 1 /\ DOMAIN s = 1 .. Len(s) /\ Len(s) \in Nat
  OBVIOUS
<1>2. \A i \in DOMAIN s : s[i] # t /\ i + 1 \in DOMAIN r /\ r[i + 1] = s[i]
  BY <1>1 DEF Names
<1>3. \A i \in DOMAIN r : i # 1 => \E k \in DOMAIN s : r[i] = s[k] /\ k = i - 1
  BY <1>1
<1>4. 1 \in DOMAIN r /\ r[1] = t
  BY <1>1
<1>5. Once(r)
  <2>1. \A i \in DOMAIN r : r[i] = t <=> i = 1
    BY <1>2, <1>3, <1>4
  <2>2. ASSUME NEW i \in DOMAIN r, NEW j \in DOMAIN r, i # 1, j # 1, r[i] = r[j] PROVE i = j
    <3>1. i - 1 \in DOMAIN s /\ j - 1 \in DOMAIN s /\ s[i - 1] = s[j - 1]
      BY <1>3, <2>2
    <3>2. i - 1 = j - 1
      BY <3>1 DEF Once
    <3> QED BY <1>1, <3>2
  <2> QED BY <2>1, <2>2 DEF Once
<1>6. \A i \in DOMAIN r : r[i] \in Names(s) \cup {t}
  BY <1>3, <1>4 DEF Names
<1>7. Names(s) \cup {t} \subseteq Names(r)
  BY <1>2, <1>4 DEF Names
<1> QED BY ZenonT(40), <1>5, <1>6, <1>7 DEF Names

(* One taken out of a list. *)
LEMMA Without ==
    ASSUME NEW s \in Seq(Tasks), NEW k \in DOMAIN s
    PROVE  LET r == SubSeq(s, 1, k - 1) \o SubSeq(s, k + 1, Len(s))
           IN  /\ r \in Seq(Tasks) /\ Len(r) = Len(s) - 1
               /\ \A i \in 1 .. Len(s) - 1 : r[i] = IF i < k THEN s[i] ELSE s[i + 1]
<1>1. k \in 1 .. Len(s) /\ \A i \in 1 .. Len(s) : s[i] \in Tasks
  OBVIOUS
<1> DEFINE a == SubSeq(s, 1, k - 1)
           b == SubSeq(s, k + 1, Len(s))
<1>2. a \in Seq(Tasks) /\ Len(a) = k - 1 /\ \A i \in 1 .. k - 1 : a[i] = s[i]
  BY <1>1, SubSeqProperties
<1>3. b \in Seq(Tasks) /\ Len(b) = Len(s) - k /\ \A i \in 1 .. Len(s) - k : b[i] = s[k + i]
  BY <1>1, SubSeqProperties
<1> HIDE DEF a, b
<1>4. /\ a \o b \in Seq(Tasks) /\ Len(a \o b) = Len(s) - 1
      /\ \A i \in 1 .. Len(s) - 1 : (a \o b)[i] = IF i <= k - 1 THEN a[i] ELSE b[i - (k - 1)]
  BY SMTT(30), <1>1, <1>2, <1>3, ConcatProperties
<1>5. ASSUME NEW i \in 1 .. Len(s) - 1
      PROVE  (a \o b)[i] = IF i < k THEN s[i] ELSE s[i + 1]
  <2>1. CASE i < k
    BY <1>1, <1>2, <1>4, <2>1
  <2>2. CASE i >= k
    <3>1. i - (k - 1) \in 1 .. Len(s) - k /\ k + (i - (k - 1)) = i + 1
      BY <1>1, <2>2
    <3>2. b[i - (k - 1)] = s[i + 1]
      BY <1>3, <3>1
    <3>3. (a \o b)[i] = b[i - (k - 1)]
      BY <1>1, <1>4, <2>2
    <3>4. ~(i < k)
      BY <1>1, <2>2
    <3> QED BY <3>2, <3>3, <3>4
  <2>3. i < k \/ i >= k
    BY <1>1
  <2> QED BY <2>1, <2>2, <2>3
<1> QED BY <1>4, <1>5 DEF a, b

LEMMA TakenOut ==
    ASSUME NEW s \in Seq(Tasks), Once(s), NEW k \in DOMAIN s,
           NEW r \in Seq(Tasks), Len(r) = Len(s) - 1,
           \A i \in 1 .. Len(s) - 1 : r[i] = IF i < k THEN s[i] ELSE s[i + 1]
    PROVE  Once(r) /\ Names(r) = Names(s) \ {s[k]}
<1>1. DOMAIN r = 1 .. Len(s) - 1 /\ DOMAIN s = 1 .. Len(s) /\ Len(s) \in Nat /\ k \in 1 .. Len(s)
  OBVIOUS
<1>2. \A i \in DOMAIN r : \E j \in DOMAIN s : r[i] = s[j] /\ j # k /\ j = IF i < k THEN i ELSE i + 1
  BY <1>1
<1>3. Once(r)
  BY <1>1, <1>2 DEF Once
<1>4. \A i \in DOMAIN r : r[i] \in Names(s) \ {s[k]}
  BY <1>1, <1>2 DEF Names, Once
<1>5. ASSUME NEW i \in DOMAIN s, s[i] # s[k] PROVE \E j \in DOMAIN r : r[j] = s[i]
  <2>1. CASE i < k
    BY <1>1, <2>1
  <2>2. CASE i > k
    <3>1. i - 1 \in DOMAIN r /\ r[i - 1] = s[(i - 1) + 1]
      BY <1>1, <2>2
    <3> QED BY <1>1, <3>1
  <2> QED BY <1>1, <1>5, <2>1, <2>2
<1> QED BY <1>3, <1>4, <1>5 DEF Names

LEMMA ElementOfList ==
    ASSUME NEW s \in Seq(Tasks)
    PROVE  /\ DOMAIN s = 1 .. Len(s) /\ Len(s) \in Nat
           /\ \A i \in DOMAIN s : s[i] \in Tasks /\ s[i] \in Names(s)
           /\ Names(s) \subseteq Tasks
           /\ Len(s) > 0 => Head(s) = s[1] /\ Head(s) \in Names(s)
BY DEF Names

-----------------------------------------------------------------------------
(* The inductive invariant: the ready tasks, and the three lists and maps  *)
(* from which a waiting task is woken, each of which holds exactly those   *)
(* that wait for it.                                                       *)

States == {"new", "run", "io", "sleep", "lock", "join", "stopped"}

ReadyPart ==
    /\ doing \in [Tasks -> States]
    /\ ready \subseteq Alive /\ key \in [Tasks -> Nat] /\ current \in ready \cup {Nobody}
    /\ current # Nobody => key[current] = 0
    /\ ready # {} => \E t \in ready : key[t] = 0
    /\ \A t \in Tasks : doing[t] = "run" => t \in ready

MutexPart ==
    /\ locker \in BOOLEAN /\ inside \subseteq Tasks
    /\ waiters \in Seq(Tasks) /\ Once(waiters)
    /\ Names(waiters) = {t \in Tasks : doing[t] = "lock"}
    /\ MutexIsExclusive /\ TopWaiterIsReady

TimerPart ==
    /\ timers \in Seq(Tasks) /\ Once(timers)
    /\ Names(timers) = {t \in Tasks : doing[t] = "sleep"}
    /\ expired \in 0 .. Len(timers)

JoinPart ==
    /\ joiner \in [Tasks -> Tasks \cup {Nobody}]
    /\ \A t \in Tasks : joiner[t] # Nobody =>
         /\ doing[t] # "new"
         /\ doing[t] # "stopped" => doing[joiner[t]] = "join"

Parts == ReadyPart /\ MutexPart /\ TimerPart /\ JoinPart

LEMMA PartsInit == TaskInit => Parts
<1> SUFFICES ASSUME TaskInit PROVE Parts
  OBVIOUS
<1>1. ReadyPart
  BY TaskAssumption DEF TaskInit, ReadyPart, States, Alive
<1>2. MutexPart
  <2>1. waiters = <<>> /\ waiters \in Seq(Tasks) /\ DOMAIN waiters = {}
    BY DEF TaskInit
  <2>2. Once(waiters) /\ Names(waiters) = {}
    BY <2>1 DEF Once, Names
  <2>3. \A t \in Tasks : doing[t] # "lock"
    BY DEF TaskInit
  <2> QED BY <2>1, <2>2, <2>3 DEF TaskInit, MutexPart, MutexIsExclusive, TopWaiterIsReady
<1>3. TimerPart
  BY DEF TaskInit, TimerPart, Once, Names
<1>4. JoinPart
  BY TaskAssumption DEF TaskInit, JoinPart
<1> QED BY <1>1, <1>2, <1>3, <1>4 DEF Parts

(* Who wakes others adds them to the ready ones and stays a first one. *)
LEMMA WakeKeeps ==
    ASSUME ReadyPart, NEW W \in SUBSET Tasks, Wake(W)
    PROVE  /\ ready' = ready \cup W /\ key' \in [Tasks -> Nat]
           /\ ready' # {} => \E t \in ready' : key'[t] = 0
           /\ current # Nobody => key'[current] = 0
<1>1. ready \subseteq Tasks /\ key \in [Tasks -> Nat]
  BY DEF ReadyPart, Alive
<1>2. Woken(W) \in [Tasks -> Nat] /\ \A t \in ready : Woken(W)[t] = key[t]
  BY <1>1, WokenKeys
<1>3. ready \cup W \in SUBSET Tasks
  BY <1>1
<1> HIDE DEF Woken
<1>4. /\ Rebased(Woken(W), ready \cup W) \in [Tasks -> Nat]
      /\ ready \cup W # {} => \E t \in ready \cup W : Rebased(Woken(W), ready \cup W)[t] = 0
      /\ \A t \in ready \cup W : Woken(W)[t] = 0 => Rebased(Woken(W), ready \cup W)[t] = 0
  BY <1>2, <1>3, RebasedKeys
<1> QED BY <1>2, <1>4 DEF Wake, ReadyPart

(* Who waits leaves a first one behind, if anyone is ready. *)
LEMMA WaitKeeps ==
    ASSUME ReadyPart, NEW W \in SUBSET Tasks, WaitAfterWaking(W), current # Nobody
    PROVE  /\ ready' = (ready \cup W) \ {current} /\ key' \in [Tasks -> Nat] /\ current' = Nobody
           /\ ready' # {} => \E t \in ready' : key'[t] = 0
<1>1. ready \subseteq Tasks /\ key \in [Tasks -> Nat] /\ current \in Tasks
  BY DEF ReadyPart, Alive
<1> DEFINE k == [Woken(W) EXCEPT ![current] = 0]
           S == (ready \cup W) \ {current}
<1>2. k \in [Tasks -> Nat] /\ S \in SUBSET Tasks
  BY <1>1, WokenKeys
<1>3. ready' = S /\ key' = Rebased(k, S) /\ current' = Nobody
  BY DEF WaitAfterWaking
<1> HIDE DEF k
<1> QED BY <1>2, <1>3, RebasedKeys

(* What an action that wakes W and changes no task's state does. *)
LEMMA Wakes ==
    ASSUME Parts, NEW W \in SUBSET Alive, Wake(W),
           UNCHANGED <<doing, current, mutexVars, timerVars, joiner>>
    PROVE  Parts'
<1>1. W \in SUBSET Tasks /\ Alive' = Alive
  BY DEF Alive
<1>2. /\ ready' = ready \cup W /\ key' \in [Tasks -> Nat]
      /\ ready' # {} => \E t \in ready' : key'[t] = 0
      /\ current # Nobody => key'[current] = 0
  BY <1>1, WakeKeeps DEF Parts
<1>3. ReadyPart'
  BY <1>1, <1>2 DEF Parts, ReadyPart
<1>4. MutexPart'
  BY <1>2 DEF Parts, MutexPart, mutexVars, MutexIsExclusive, TopWaiterIsReady, Once, Names
<1>5. TimerPart'
  BY DEF Parts, TimerPart, timerVars, Once, Names
<1>6. JoinPart'
  BY DEF Parts, JoinPart
<1> QED BY <1>3, <1>4, <1>5, <1>6 DEF Parts

(* What an action does in which the running task begins to wait for        *)
(* something other than the mutex.                                         *)
LEMMA BeginsToWait ==
    ASSUME Parts, NEW W \in SUBSET Alive, NEW w \in {"io", "sleep", "join", "stopped"}, Runs,
           w = "stopped" => current \notin W,
           WaitAfterWaking(W), doing' = [doing EXCEPT ![current] = w], UNCHANGED mutexVars
    PROVE  ReadyPart' /\ MutexPart'
<1>1. W \in SUBSET Tasks /\ current \in Tasks /\ doing[current] = "run"
  BY DEF Parts, ReadyPart, Alive, Runs
<1>2. /\ ready' = (ready \cup W) \ {current} /\ key' \in [Tasks -> Nat] /\ current' = Nobody
      /\ ready' # {} => \E t \in ready' : key'[t] = 0
  BY <1>1, WaitKeeps DEF Parts, Runs
<1>3. /\ doing \in [Tasks -> States] /\ doing' \in [Tasks -> States] /\ doing'[current] = w
      /\ \A t \in Tasks \ {current} : doing'[t] = doing[t]
  BY <1>1 DEF Parts, ReadyPart, States
<1>4. ReadyPart'
  <2>1. ready' \subseteq Alive'
    BY <1>2, <1>3 DEF Parts, ReadyPart, Alive
  <2> QED BY <1>1, <1>2, <1>3, <2>1 DEF Parts, ReadyPart
<1>5. MutexPart'
  <2>1. {t \in Tasks : doing'[t] = "lock"} = {t \in Tasks : doing[t] = "lock"}
    BY <1>1, <1>3
  <2>2. UNCHANGED <<locker, waiters, inside>>
    BY DEF mutexVars
  <2>3. waiters # <<>> => waiters[1] \in Names(waiters)
    BY DEF Parts, MutexPart, Names
  <2>4. TopWaiterIsReady'
    BY <1>1, <1>2, <2>2, <2>3 DEF Parts, MutexPart, TopWaiterIsReady
  <2> QED BY <2>1, <2>2, <2>4 DEF Parts, MutexPart, MutexIsExclusive, Once, Names
<1> QED BY <1>4, <1>5

(* What an action does in which a task that waited runs again. *)
LEMMA RunsAgain ==
    ASSUME Parts, current # Nobody, doing[current] \in {"io", "join", "sleep"},
           doing' = [doing EXCEPT ![current] = "run"],
           ready' \subseteq Alive, ready \subseteq ready', key' \in [Tasks -> Nat], key'[current] = 0,
           UNCHANGED <<current, mutexVars>>
    PROVE  ReadyPart' /\ MutexPart'
<1>1. current \in ready /\ current \in Tasks
  BY DEF Parts, ReadyPart, Alive
<1>2. /\ doing \in [Tasks -> States] /\ doing' \in [Tasks -> States] /\ doing'[current] = "run"
      /\ \A t \in Tasks \ {current} : doing'[t] = doing[t]
  BY <1>1 DEF Parts, ReadyPart, States
<1>3. ReadyPart'
  <2>1. ready' \subseteq Alive'
    BY <1>1, <1>2 DEF Alive
  <2> QED BY <1>1, <1>2, <2>1 DEF Parts, ReadyPart
<1>4. MutexPart'
  <2>1. {t \in Tasks : doing'[t] = "lock"} = {t \in Tasks : doing[t] = "lock"}
    BY <1>1, <1>2
  <2>2. UNCHANGED <<locker, waiters, inside>>
    BY DEF mutexVars
  <2>3. TopWaiterIsReady'
    BY <2>2 DEF Parts, MutexPart, TopWaiterIsReady
  <2> QED BY <2>1, <2>2, <2>3 DEF Parts, MutexPart, MutexIsExclusive, Once, Names
<1> QED BY <1>3, <1>4

-----------------------------------------------------------------------------
(* One lemma for each thing that happens *)

LEMMA PollKeeps == ASSUME Parts, NEW events \in SUBSET Waiting, Poll(events) PROVE Parts'
<1> DEFINE W == events \cup FirstTimer
           first == IF events # {} THEN events ELSE FirstTimer
<1>1. ready \subseteq Tasks /\ key \in [Tasks -> Nat] /\ Alive' = Alive /\ Alive \subseteq Tasks
  BY DEF Parts, ReadyPart, Alive, Poll
<1>2. FirstTimer \subseteq Alive
  <2>1. expired > 0 => Head(timers) \in Names(timers)
    BY ElementOfList DEF Parts, TimerPart
  <2> QED BY <2>1 DEF Parts, TimerPart, FirstTimer, Alive
<1>3. W \in SUBSET Alive /\ first \subseteq W
  BY <1>2 DEF Waiting
<1>4. Woken(W) \in [Tasks -> Nat]
  BY <1>1, WokenKeys
<1>5. ready' = ready \cup W /\ ready' \in SUBSET Tasks
  BY <1>1, <1>3 DEF Poll
<1>6. key' \in [Tasks -> Nat]
  <2>1. CASE ready # {}
    <3>1. key' = Rebased(Woken(W), ready')
      BY <2>1 DEF Poll
    <3> QED BY <1>4, <1>5, <3>1, RebasedKeys
  <2>2. CASE ready = {}
    <3>1. PICK f \in first : key' = Rebased([Woken(W) EXCEPT ![f] = 0], ready')
      BY <2>2 DEF Poll
    <3>2. [Woken(W) EXCEPT ![f] = 0] \in [Tasks -> Nat]
      BY <1>1, <1>3, <1>4
    <3> QED BY <1>5, <3>1, <3>2, RebasedKeys
  <2> QED BY <2>1, <2>2
<1>7. current' \in ready' /\ key'[current'] = 0
  BY DEF Poll
<1>8. ReadyPart'
  BY <1>1, <1>3, <1>5, <1>6, <1>7 DEF Parts, ReadyPart, Poll
<1>9. MutexPart' /\ TimerPart' /\ JoinPart'
  BY <1>5 DEF Parts, MutexPart, TimerPart, JoinPart, mutexVars, timerVars, MutexIsExclusive, TopWaiterIsReady, Once, Names, Poll
<1> QED BY <1>8, <1>9 DEF Parts

LEMMA PickKeeps == ASSUME Parts, Pick PROVE Parts'
BY DEF Pick, Parts, ReadyPart, MutexPart, TimerPart, JoinPart, mutexVars, timerVars, MutexIsExclusive, TopWaiterIsReady, Once, Names, Alive

LEMMA ExpiresKeeps == ASSUME Parts, Expires PROVE Parts'
<1>1. ReadyPart' /\ MutexPart' /\ JoinPart'
  BY DEF Expires, Parts, ReadyPart, MutexPart, JoinPart, mutexVars, MutexIsExclusive, TopWaiterIsReady, Once, Names, Alive
<1>2. TimerPart'
  BY DEF Expires, Parts, TimerPart, Once, Names
<1> QED BY <1>1, <1>2 DEF Parts

LEMMA YieldsKeeps == ASSUME Parts, NEW runtime \in 0 .. MaxRuntime, Yields(runtime) PROVE Parts'
<1>1. ready \in SUBSET Tasks /\ key \in [Tasks -> Nat] /\ current \in Tasks /\ UNCHANGED ready /\ current' = Nobody
  BY DEF Parts, ReadyPart, Alive, Yields, Switch, Runs
<1> DEFINE k == [key EXCEPT ![current] = @ + (1 + runtime) * Priority[current]]
<1>2. k \in [Tasks -> Nat]
  <2>1. Priority[current] \in Nat /\ key[current] \in Nat /\ runtime \in Nat
    BY <1>1, TaskAssumption
  <2>2. \A m, n \in Nat : (1 + m) * n \in Nat
    OBVIOUS
  <2>3. key[current] + (1 + runtime) * Priority[current] \in Nat
    BY <2>1, <2>2
  <2> QED BY <1>1, <2>3
<1>3. key' = Rebased(k, ready)
  BY DEF Yields, Switch
<1> HIDE DEF k
<1>4. key' \in [Tasks -> Nat] /\ ready # {} => \E t \in ready : key'[t] = 0
  BY <1>1, <1>2, <1>3, RebasedKeys
<1>5. ReadyPart'
  BY <1>1, <1>2, <1>3, RebasedKeys DEF Yields, Parts, ReadyPart, Alive
<1>6. MutexPart' /\ TimerPart' /\ JoinPart'
  BY <1>1 DEF Yields, Parts, MutexPart, TimerPart, JoinPart, mutexVars, timerVars, MutexIsExclusive, TopWaiterIsReady, Once, Names
<1> QED BY <1>5, <1>6 DEF Parts

LEMMA WaitsForEventsKeeps == ASSUME Parts, WaitsForEvents PROVE Parts'
<1>1. ReadyPart' /\ MutexPart'
  BY BeginsToWait DEF WaitsForEvents
<1>2. current \in Tasks /\ doing[current] = "run" /\ doing \in [Tasks -> States]
  BY DEF Parts, ReadyPart, Alive, WaitsForEvents, Runs
<1>3. {t \in Tasks : doing'[t] = "sleep"} = {t \in Tasks : doing[t] = "sleep"}
  BY <1>2 DEF WaitsForEvents
<1>4. TimerPart'
  BY <1>3 DEF WaitsForEvents, Parts, TimerPart, timerVars, Once, Names
<1>5. JoinPart'
  BY <1>2 DEF WaitsForEvents, Parts, JoinPart
<1> QED BY <1>1, <1>4, <1>5 DEF Parts

LEMMA SleepsKeeps == ASSUME Parts, NEW position \in expired .. Len(timers), Sleeps(position) PROVE Parts'
<1>1. ReadyPart' /\ MutexPart'
  BY BeginsToWait DEF Sleeps
<1>2. current \in Tasks /\ doing[current] = "run" /\ doing \in [Tasks -> States]
  BY DEF Parts, ReadyPart, Alive, Sleeps, Runs
<1>3. {t \in Tasks : doing'[t] = "sleep"} = {t \in Tasks : doing[t] = "sleep"} \cup {current}
  BY <1>2 DEF Sleeps
<1>4. /\ timers \in Seq(Tasks) /\ Once(timers) /\ position \in 0 .. Len(timers)
      /\ current \notin Names(timers)
  BY <1>2 DEF Parts, TimerPart
<1>5. /\ timers' \in Seq(Tasks) /\ Len(timers') = Len(timers) + 1
      /\ \A i \in 1 .. Len(timers) + 1 :
           timers'[i] = IF i <= position THEN timers[i] ELSE IF i = position + 1 THEN current ELSE timers[i - 1]
  <2>1. timers' = SubSeq(timers, 1, position) \o <<current>> \o SubSeq(timers, position + 1, Len(timers))
    BY DEF Sleeps
  <2>2. LET r == SubSeq(timers, 1, position) \o <<current>> \o SubSeq(timers, position + 1, Len(timers))
        IN  /\ r \in Seq(Tasks) /\ Len(r) = Len(timers) + 1
            /\ \A i \in 1 .. Len(timers) + 1 :
                 r[i] = IF i <= position THEN timers[i] ELSE IF i = position + 1 THEN current ELSE timers[i - 1]
    BY ZenonT(40), <1>2, <1>4, Between
  <2> QED BY <2>1, <2>2
<1>6. Once(timers') /\ Names(timers') = Names(timers) \cup {current}
  BY <1>2, <1>4, <1>5, PutBetween
<1>7. TimerPart'
  <2>1. expired' \in 0 .. Len(timers')
    <3>1. expired' = expired
      BY DEF Sleeps
    <3>2. expired \in 0 .. Len(timers) /\ Len(timers) \in Nat
      BY <1>4 DEF Parts, TimerPart
    <3> QED BY <1>5, <3>1, <3>2
  <2>2. Once(timers)' /\ Names(timers)' = {t \in Tasks : doing'[t] = "sleep"}
    BY <1>3, <1>6 DEF Parts, TimerPart, Once, Names
  <2> QED BY <1>5, <2>1, <2>2 DEF TimerPart
<1>8. JoinPart'
  BY <1>2 DEF Sleeps, Parts, JoinPart
<1> QED BY <1>1, <1>7, <1>8 DEF Parts

LEMMA StartsKeeps == ASSUME Parts, NEW t \in Tasks, Starts(t) PROVE Parts'
<1>1. /\ current \in Tasks /\ current # t /\ doing[t] = "new" /\ doing \in [Tasks -> States]
      /\ doing' = [doing EXCEPT ![t] = "run"] /\ doing' \in [Tasks -> States]
  BY DEF Parts, ReadyPart, Alive, Starts, Runs, States
<1>2. /\ ready' = ready \cup {t} /\ key' \in [Tasks -> Nat]
      /\ ready' # {} => \E u \in ready' : key'[u] = 0
      /\ current # Nobody => key'[current] = 0
  BY WakeKeeps DEF Parts, Starts
<1>3. ReadyPart'
  <2>1. ready' \subseteq Alive'
    BY <1>1, <1>2 DEF Parts, ReadyPart, Alive
  <2> QED BY <1>1, <1>2, <2>1 DEF Parts, ReadyPart, Starts
<1>4. /\ {u \in Tasks : doing'[u] = "lock"} = {u \in Tasks : doing[u] = "lock"}
      /\ {u \in Tasks : doing'[u] = "sleep"} = {u \in Tasks : doing[u] = "sleep"}
  BY <1>1
<1>5. MutexPart'
  BY <1>2, <1>4 DEF Starts, Parts, MutexPart, mutexVars, MutexIsExclusive, TopWaiterIsReady, Once, Names
<1>6. TimerPart'
  BY <1>4 DEF Starts, Parts, TimerPart, timerVars, Once, Names
<1>7. JoinPart'
  BY <1>1 DEF Starts, Parts, JoinPart
<1> QED BY <1>3, <1>5, <1>6, <1>7 DEF Parts

LEMMA WakesOtherKeeps == ASSUME Parts, NEW t \in Tasks, WakesOther(t) PROVE Parts'
<1>1. {t} \in SUBSET Alive
  BY DEF WakesOther, Waiting
<1> QED BY <1>1, Wakes DEF WakesOther

LEMMA JoinsKeeps == ASSUME Parts, NEW t \in Tasks, Joins(t) PROVE Parts'
<1>1. /\ current \in Tasks /\ doing[current] = "run" /\ doing \in [Tasks -> States]
      /\ t # current /\ doing[t] # "new" /\ joiner[t] = Nobody /\ joiner' = [joiner EXCEPT ![t] = current]
  BY DEF Parts, ReadyPart, Alive, Joins, Runs
<1>2. CASE doing[t] = "stopped"
  <2>1. UNCHANGED <<doing, ready, key, current, mutexVars, timerVars>>
    BY <1>2 DEF Joins
  <2>2. ReadyPart' /\ MutexPart' /\ TimerPart'
    BY <2>1 DEF Parts, ReadyPart, MutexPart, TimerPart, mutexVars, timerVars, MutexIsExclusive, TopWaiterIsReady, Once, Names, Alive
  <2>3. JoinPart'
    BY <1>1, <1>2, <2>1 DEF Parts, JoinPart
  <2> QED BY <2>2, <2>3 DEF Parts
<1>3. CASE doing[t] # "stopped"
  <2>1. doing' = [doing EXCEPT ![current] = "join"] /\ WaitAfterWaking({t}) /\ UNCHANGED <<mutexVars, timerVars>>
    BY <1>3 DEF Joins
  <2>2. {t} \in SUBSET Alive
    BY <1>1, <1>3 DEF Alive
  <2>3. ReadyPart' /\ MutexPart'
    BY <2>1, <2>2, BeginsToWait DEF Joins
  <2>4. {u \in Tasks : doing'[u] = "sleep"} = {u \in Tasks : doing[u] = "sleep"}
    BY <1>1, <2>1
  <2>5. TimerPart'
    BY <2>1, <2>4 DEF Parts, TimerPart, timerVars, Once, Names
  <2>6. JoinPart'
    <3>1. joiner' \in [Tasks -> Tasks \cup {Nobody}]
      BY <1>1 DEF Parts, JoinPart
    <3>2. ASSUME NEW u \in Tasks, joiner'[u] # Nobody
          PROVE  doing'[u] # "new" /\ (doing'[u] # "stopped" => doing'[joiner'[u]] = "join")
      <4>1. CASE u = t
        BY <1>1, <2>1, <4>1 DEF Parts, JoinPart
      <4>2. CASE u # t
        BY <1>1, <2>1, <3>2, <4>2 DEF Parts, JoinPart
      <4> QED BY <4>1, <4>2
    <3> QED BY <3>1, <3>2 DEF JoinPart
  <2> QED BY <2>3, <2>5, <2>6 DEF Parts
<1> QED BY <1>2, <1>3

LEMMA ExitsKeeps == ASSUME Parts, Exits PROVE Parts'
<1>1. current \in Tasks /\ current # Nobody /\ doing[current] = "run" /\ doing \in [Tasks -> States]
  BY DEF Parts, ReadyPart, Alive, Exits, Runs
<1> DEFINE W == {joiner[current]} \ {Nobody}
<1>2. W \in SUBSET Alive /\ current \notin W
  BY <1>1 DEF Parts, JoinPart, Alive
<1>3. /\ WaitAfterWaking(W) /\ doing' = [doing EXCEPT ![current] = "stopped"]
      /\ UNCHANGED <<mutexVars, timerVars, joiner>>
  BY DEF Exits
<1> HIDE DEF W
<1>4. ReadyPart' /\ MutexPart'
  BY <1>2, <1>3, BeginsToWait DEF Exits
<1>5. {u \in Tasks : doing'[u] = "sleep"} = {u \in Tasks : doing[u] = "sleep"}
  BY <1>1, <1>3
<1>6. TimerPart'
  BY <1>3, <1>5 DEF Parts, TimerPart, timerVars, Once, Names
<1>7. JoinPart'
  BY <1>1, <1>3 DEF Parts, JoinPart
<1> QED BY <1>4, <1>6, <1>7 DEF Parts

-----------------------------------------------------------------------------
(* The mutex *)

LEMMA TakesKeeps ==
    ASSUME Parts, Runs, ~locker, Takes, UNCHANGED <<doing, ready, key, current, waiters, timerVars, joiner>>
    PROVE  Parts'
<1>1. inside = {} /\ inside' = {current} /\ locker' = TRUE /\ current \in Tasks
  BY DEF Parts, ReadyPart, MutexPart, MutexIsExclusive, Takes, Runs, Alive
<1>2. MutexPart'
  BY <1>1 DEF Parts, MutexPart, MutexIsExclusive, TopWaiterIsReady, Once, Names
<1>3. ReadyPart' /\ TimerPart' /\ JoinPart'
  BY DEF Parts, ReadyPart, TimerPart, JoinPart, timerVars, Once, Names, Alive
<1> QED BY <1>2, <1>3 DEF Parts

LEMMA LocksKeeps == ASSUME Parts, Locks PROVE Parts'
<1>1. CASE ~locker
  BY <1>1, TakesKeeps DEF Locks
<1>2. CASE locker
  <2>1. /\ current \in Tasks /\ current # Nobody /\ doing[current] = "run" /\ doing \in [Tasks -> States]
        /\ doing' = [doing EXCEPT ![current] = "lock"] /\ doing' \in [Tasks -> States]
        /\ UNCHANGED <<locker, inside, timerVars, joiner>> /\ waiters' = <<current>> \o waiters
        /\ WaitAfterWaking({})
    BY <1>2 DEF Parts, ReadyPart, Alive, Locks, Runs, States
  <2>2. /\ ready' = (ready \cup {}) \ {current} /\ key' \in [Tasks -> Nat] /\ current' = Nobody
        /\ ready' # {} => \E t \in ready' : key'[t] = 0
    BY <2>1, WaitKeeps DEF Parts
  <2>3. ready' \subseteq Alive'
    BY <2>1, <2>2 DEF Parts, ReadyPart, Alive
  <2>4. ReadyPart'
    BY <2>1, <2>2, <2>3 DEF Parts, ReadyPart
  <2>5. waiters \in Seq(Tasks) /\ Once(waiters) /\ current \notin Names(waiters)
    BY <2>1 DEF Parts, MutexPart
  <2>6. /\ waiters' \in Seq(Tasks) /\ Len(waiters') = Len(waiters) + 1
        /\ \A i \in 1 .. Len(waiters) + 1 : waiters'[i] = IF i = 1 THEN current ELSE waiters[i - 1]
    <3>1. <<current>> \in Seq(Tasks) /\ Len(<<current>>) = 1 /\ <<current>>[1] = current
      BY <2>1
    <3>2. /\ <<current>> \o waiters \in Seq(Tasks)
          /\ Len(<<current>> \o waiters) = Len(<<current>>) + Len(waiters)
          /\ \A i \in 1 .. Len(<<current>>) + Len(waiters) :
               (<<current>> \o waiters)[i] =
                  IF i <= Len(<<current>>) THEN <<current>>[i] ELSE waiters[i - Len(<<current>>)]
      BY <2>5, <3>1, ConcatProperties
    <3>3. Len(waiters) \in Nat
      BY <2>5
    <3> QED BY <2>1, <3>1, <3>2, <3>3
  <2>7. Once(waiters') /\ Names(waiters') = Names(waiters) \cup {current}
    BY <2>1, <2>5, <2>6, PutFirst
  <2>8. {t \in Tasks : doing'[t] = "lock"} = {t \in Tasks : doing[t] = "lock"} \cup {current}
    BY <2>1
  <2>9. MutexPart'
    <3>1. Once(waiters)' /\ Names(waiters)' = {t \in Tasks : doing'[t] = "lock"}
      BY <2>7, <2>8 DEF Parts, MutexPart, Once, Names
    <3>2. MutexIsExclusive' /\ TopWaiterIsReady'
      BY <1>2, <2>1 DEF Parts, MutexPart, MutexIsExclusive, TopWaiterIsReady
    <3> QED BY <2>1, <2>6, <3>1, <3>2 DEF Parts, MutexPart
  <2>10. {t \in Tasks : doing'[t] = "sleep"} = {t \in Tasks : doing[t] = "sleep"}
    BY <2>1
  <2>11. TimerPart'
    BY <2>1, <2>10 DEF Parts, TimerPart, timerVars, Once, Names
  <2>12. JoinPart'
    BY <2>1 DEF Parts, JoinPart
  <2> QED BY <2>4, <2>9, <2>11, <2>12 DEF Parts
<1> QED BY <1>1, <1>2

LEMMA UnlocksKeeps == ASSUME Parts, Unlocks PROVE Parts'
<1> DEFINE W == IF waiters # <<>> THEN {waiters[1]} ELSE {}
<1>1. W \in SUBSET Alive /\ W \in SUBSET Tasks
  <2>1. waiters # <<>> => waiters[1] \in Names(waiters)
    BY DEF Parts, MutexPart, Names
  <2> QED BY <2>1 DEF Parts, MutexPart, Alive
<1>2. Wake(W) /\ UNCHANGED <<doing, current, waiters, timerVars, joiner>> /\ locker' = FALSE
  BY DEF Unlocks
<1>3. /\ ready' = ready \cup W /\ key' \in [Tasks -> Nat]
      /\ ready' # {} => \E t \in ready' : key'[t] = 0
      /\ current # Nobody => key'[current] = 0
  BY <1>1, <1>2, WakeKeeps DEF Parts
<1>4. inside' = {}
  BY DEF Unlocks, Parts, MutexPart, MutexIsExclusive
<1>5. ReadyPart'
  BY <1>1, <1>2, <1>3 DEF Parts, ReadyPart, Alive
<1>6. MutexPart'
  <2>1. TopWaiterIsReady'
    BY <1>2, <1>3 DEF TopWaiterIsReady
  <2>2. MutexIsExclusive'
    BY <1>2, <1>4 DEF MutexIsExclusive
  <2>3. Once(waiters)' /\ Names(waiters)' = {t \in Tasks : doing'[t] = "lock"}
    BY <1>2 DEF Parts, MutexPart, Once, Names
  <2> QED BY <1>2, <1>4, <2>1, <2>2, <2>3 DEF Parts, MutexPart
<1>7. TimerPart' /\ JoinPart'
  BY <1>2 DEF Parts, TimerPart, JoinPart, timerVars, Once, Names
<1> QED BY <1>5, <1>6, <1>7 DEF Parts

LEMMA LooksAgainKeeps == ASSUME Parts, LooksAgain PROVE Parts'
<1>1. /\ current \in Tasks /\ current # Nobody /\ doing[current] = "lock" /\ doing \in [Tasks -> States]
      /\ UNCHANGED <<timerVars, joiner>> /\ current \in ready
  BY DEF Parts, ReadyPart, Alive, LooksAgain
<1>2. waiters \in Seq(Tasks) /\ Once(waiters) /\ waiters # <<>> /\ current \in Names(waiters)
  BY <1>1 DEF Parts, MutexPart, Names
<1>3. CASE ~locker /\ waiters[1] = current
  <2>1. /\ Takes /\ waiters' = Tail(waiters) /\ doing' = [doing EXCEPT ![current] = "run"]
        /\ UNCHANGED <<ready, key, current>> /\ doing' \in [Tasks -> States]
    BY <1>1, <1>3 DEF LooksAgain, States
  <2>2. ready' \subseteq Alive'
    BY <1>1, <2>1 DEF Parts, ReadyPart, Alive
  <2>3. ReadyPart'
    BY <1>1, <2>1, <2>2 DEF Parts, ReadyPart
  <2>4. inside' = {current} /\ locker' = TRUE
    BY <1>3, <2>1 DEF Parts, MutexPart, MutexIsExclusive, Takes
  <2>5. /\ waiters' \in Seq(Tasks) /\ Len(waiters') = Len(waiters) - 1
        /\ \A i \in 1 .. Len(waiters) - 1 : waiters'[i] = waiters[i + 1]
    BY <1>2, <2>1, HeadTailProperties
  <2>6. Once(waiters') /\ Names(waiters') = Names(waiters) \ {current}
    <3>1. 1 \in DOMAIN waiters
      BY <1>2
    <3>2. \A i \in 1 .. Len(waiters) - 1 : waiters'[i] = IF i < 1 THEN waiters[i] ELSE waiters[i + 1]
      BY <2>5
    <3> QED BY ZenonT(40), <1>2, <1>3, <2>5, <3>1, <3>2, TakenOut
  <2>7. {t \in Tasks : doing'[t] = "lock"} = {t \in Tasks : doing[t] = "lock"} \ {current}
    BY <1>1, <2>1
  <2>8. MutexPart'
    <3>1. Once(waiters)' /\ Names(waiters)' = {t \in Tasks : doing'[t] = "lock"}
      BY <2>6, <2>7 DEF Parts, MutexPart, Once, Names
    <3>2. MutexIsExclusive' /\ TopWaiterIsReady'
      BY <2>4 DEF MutexIsExclusive, TopWaiterIsReady
    <3> QED BY <1>1, <2>4, <2>5, <3>1, <3>2 DEF MutexPart
  <2>9. {t \in Tasks : doing'[t] = "sleep"} = {t \in Tasks : doing[t] = "sleep"}
    BY <1>1, <2>1
  <2>10. TimerPart'
    BY <1>1, <2>9 DEF Parts, TimerPart, timerVars, Once, Names
  <2>11. JoinPart'
    BY <1>1, <2>1 DEF Parts, JoinPart
  <2> QED BY <2>3, <2>8, <2>10, <2>11 DEF Parts
<1>4. CASE ~(~locker /\ waiters[1] = current)
  <2>1. WaitAfterWaking({}) /\ UNCHANGED <<doing, mutexVars>>
    BY <1>4 DEF LooksAgain
  <2>2. /\ ready' = (ready \cup {}) \ {current} /\ key' \in [Tasks -> Nat] /\ current' = Nobody
        /\ ready' # {} => \E t \in ready' : key'[t] = 0
    BY <1>1, <2>1, WaitKeeps DEF Parts
  <2>3. ReadyPart'
    BY <1>1, <2>1, <2>2 DEF Parts, ReadyPart, Alive
  <2>4. MutexPart'
    BY <1>4, <2>1, <2>2 DEF Parts, MutexPart, MutexIsExclusive, TopWaiterIsReady, mutexVars, Once, Names
  <2>5. TimerPart' /\ JoinPart'
    BY <1>1, <2>1 DEF Parts, TimerPart, JoinPart, timerVars, Once, Names
  <2> QED BY <2>3, <2>4, <2>5 DEF Parts
<1> QED BY <1>3, <1>4

-----------------------------------------------------------------------------
(* What a task does first when it goes on *)

LEMMA HasEventsKeeps == ASSUME Parts, HasEvents PROVE Parts'
<1>1. /\ doing' = [doing EXCEPT ![current] = "run"] /\ doing[current] = "io" /\ current # Nobody
      /\ UNCHANGED <<ready, key, current, mutexVars, timerVars, joiner>>
      /\ current \in Tasks /\ doing \in [Tasks -> States]
  BY DEF Parts, ReadyPart, Alive, HasEvents
<1>2. ReadyPart' /\ MutexPart'
  BY <1>1, RunsAgain DEF Parts, ReadyPart
<1>3. {u \in Tasks : doing'[u] = "sleep"} = {u \in Tasks : doing[u] = "sleep"}
  BY <1>1
<1>4. TimerPart'
  BY <1>1, <1>3 DEF Parts, TimerPart, timerVars, Once, Names
<1>5. JoinPart'
  BY <1>1 DEF Parts, JoinPart
<1> QED BY <1>2, <1>4, <1>5 DEF Parts

LEMMA AwakesKeeps == ASSUME Parts, NEW passOn \in BOOLEAN, Awakes(passOn) PROVE Parts'
<1> DEFINE late == \E i \in 1 .. expired : timers[i] = current
           left == IF late THEN expired - 1 ELSE expired
           W == IF passOn /\ left > 0 THEN {Head(Others(current))} ELSE {}
<1>1. /\ doing' = [doing EXCEPT ![current] = "run"] /\ doing[current] = "sleep" /\ current # Nobody
      /\ current \in Tasks /\ doing \in [Tasks -> States]
      /\ UNCHANGED <<current, mutexVars, joiner>>
      /\ timers' = Others(current) /\ expired' = left /\ Wake(W)
  BY DEF Parts, ReadyPart, Alive, Awakes
<1>2. timers \in Seq(Tasks) /\ Once(timers) /\ current \in Names(timers)
  BY <1>1 DEF Parts, TimerPart
<1> DEFINE k == CHOOSE j \in DOMAIN timers : timers[j] = current
<1>3. k \in DOMAIN timers /\ timers[k] = current
  BY <1>2 DEF Names
<1>4. Others(current) = SubSeq(timers, 1, k - 1) \o SubSeq(timers, k + 1, Len(timers))
  BY DEF Others
<1> HIDE DEF k, W
<1>5. /\ timers' \in Seq(Tasks) /\ Len(timers') = Len(timers) - 1
      /\ \A i \in 1 .. Len(timers) - 1 : timers'[i] = IF i < k THEN timers[i] ELSE timers[i + 1]
  <2>1. LET r == SubSeq(timers, 1, k - 1) \o SubSeq(timers, k + 1, Len(timers))
        IN  /\ r \in Seq(Tasks) /\ Len(r) = Len(timers) - 1
            /\ \A i \in 1 .. Len(timers) - 1 : r[i] = IF i < k THEN timers[i] ELSE timers[i + 1]
    BY <1>2, <1>3, Without
  <2> QED BY <1>1, <1>4, <2>1
<1>6. Once(timers') /\ Names(timers') = Names(timers) \ {current}
  BY <1>2, <1>3, <1>5, TakenOut
<1>7. expired' \in 0 .. Len(timers')
  <2>1. expired \in 0 .. Len(timers) /\ Len(timers) \in Nat /\ k \in 1 .. Len(timers)
    BY <1>2, <1>3 DEF Parts, TimerPart
  <2>2. CASE late
    BY <1>1, <1>5, <2>1, <2>2
  <2>3. CASE ~late
    <3>1. k \notin 1 .. expired
      BY <1>3, <2>3
    <3> QED BY <1>1, <1>5, <2>1, <2>3, <3>1
  <2> QED BY <2>2, <2>3
<1>8. W \in SUBSET Alive /\ W \in SUBSET Tasks
  <2>1. left > 0 => Len(timers') > 0
    BY <1>1, <1>5, <1>7
  <2>2. Len(timers') > 0 => Head(timers') \in Names(timers')
    BY <1>5, ElementOfList
  <2>3. Names(timers) = {t \in Tasks : doing[t] = "sleep"}
    BY DEF Parts, TimerPart
  <2> QED BY <1>1, <1>6, <2>1, <2>2, <2>3 DEF W, Alive
<1>9. ReadyPart' /\ MutexPart'
  <2>1. /\ ready' = ready \cup W /\ key' \in [Tasks -> Nat]
        /\ key'[current] = 0
    BY <1>1, <1>8, WakeKeeps DEF Parts
  <2>2. ready' \subseteq Alive /\ ready \subseteq ready'
    BY <1>8, <2>1 DEF Parts, ReadyPart
  <2> QED BY <1>1, <2>1, <2>2, RunsAgain
<1>10. {u \in Tasks : doing'[u] = "sleep"} = {u \in Tasks : doing[u] = "sleep"} \ {current}
  BY <1>1
<1>11. TimerPart'
  <2>1. Once(timers)' /\ Names(timers)' = {t \in Tasks : doing'[t] = "sleep"}
    BY <1>6, <1>10 DEF Parts, TimerPart, Once, Names
  <2> QED BY <1>5, <1>7, <2>1 DEF TimerPart
<1>12. JoinPart'
  BY <1>1 DEF Parts, JoinPart
<1> QED BY <1>9, <1>11, <1>12 DEF Parts

LEMMA JoinsOnKeeps == ASSUME Parts, JoinsOn PROVE Parts'
<1>1. PICK t \in Tasks : joiner[t] = current /\ doing[t] # "stopped" /\ WaitAfterWaking({t})
  BY DEF JoinsOn
<1>2. /\ UNCHANGED <<doing, mutexVars, timerVars, joiner>> /\ current # Nobody /\ doing[current] = "join"
      /\ current \in Tasks /\ {t} \in SUBSET Tasks
  BY DEF JoinsOn, Parts, ReadyPart, Alive
<1>3. t \in Alive /\ Alive' = Alive
  BY <1>1, <1>2 DEF Parts, JoinPart, Alive
<1>4. /\ ready' = (ready \cup {t}) \ {current} /\ key' \in [Tasks -> Nat] /\ current' = Nobody
      /\ ready' # {} => \E u \in ready' : key'[u] = 0
  BY <1>1, <1>2, WaitKeeps DEF Parts
<1>5. ReadyPart'
  BY <1>2, <1>3, <1>4 DEF Parts, ReadyPart
<1>6. MutexPart'
  <2>1. UNCHANGED <<locker, waiters, inside>>
    BY <1>2 DEF mutexVars
  <2>2. waiters # <<>> => waiters[1] \in Names(waiters)
    BY DEF Parts, MutexPart, Names
  <2>3. TopWaiterIsReady'
    BY <1>2, <1>4, <2>1, <2>2 DEF Parts, MutexPart, TopWaiterIsReady
  <2> QED BY <1>2, <2>1, <2>3 DEF Parts, MutexPart, MutexIsExclusive, Once, Names
<1>7. TimerPart' /\ JoinPart'
  BY <1>2 DEF Parts, TimerPart, JoinPart, timerVars, Once, Names
<1> QED BY <1>5, <1>6, <1>7 DEF Parts

LEMMA JoinedKeeps == ASSUME Parts, Joined PROVE Parts'
<1>1. /\ doing' = [doing EXCEPT ![current] = "run"] /\ doing[current] = "join" /\ current # Nobody
      /\ UNCHANGED <<ready, key, current, mutexVars, timerVars, joiner>>
      /\ current \in Tasks /\ doing \in [Tasks -> States]
      /\ \A t \in Tasks : joiner[t] = current => doing[t] = "stopped"
  BY DEF Parts, ReadyPart, Alive, Joined
<1>2. ReadyPart' /\ MutexPart'
  BY <1>1, RunsAgain DEF Parts, ReadyPart
<1>3. {u \in Tasks : doing'[u] = "sleep"} = {u \in Tasks : doing[u] = "sleep"}
  BY <1>1
<1>4. TimerPart'
  BY <1>1, <1>3 DEF Parts, TimerPart, timerVars, Once, Names
<1>5. JoinPart'
  BY <1>1 DEF Parts, JoinPart
<1> QED BY <1>2, <1>4, <1>5 DEF Parts

-----------------------------------------------------------------------------

LEMMA PartsStep == ASSUME Parts, [TaskNext]_taskVars PROVE Parts'
<1>1. CASE Schedules
  BY <1>1, PollKeeps, PickKeeps DEF Schedules
<1>2. CASE GoesOn
  BY <1>2, HasEventsKeeps, AwakesKeeps, LooksAgainKeeps, JoinsOnKeeps, JoinedKeeps DEF GoesOn
<1>3. CASE Turn
  BY <1>3, YieldsKeeps DEF Turn
<1>4. CASE \E position \in expired .. Len(timers) : Sleeps(position)
  BY <1>4, SleepsKeeps
<1>5. CASE \E t \in Tasks : Starts(t) \/ WakesOther(t) \/ Joins(t)
  BY <1>5, StartsKeeps, WakesOtherKeeps, JoinsKeeps
<1>6. CASE TryLocks
  BY <1>6, TakesKeeps DEF TryLocks
<1>7. CASE UNCHANGED taskVars
  BY <1>7 DEF taskVars, Parts, ReadyPart, MutexPart, TimerPart, JoinPart, MutexIsExclusive, TopWaiterIsReady, Once, Names, Alive
<1> QED BY <1>1, <1>2, <1>3, <1>4, <1>5, <1>6, <1>7,
           ExpiresKeeps, WaitsForEventsKeeps, ExitsKeeps, LocksKeeps, UnlocksKeeps DEF TaskNext

(* Each of the places where a task waits holds exactly those that wait     *)
(* there, and the scheduler those that can go on.                          *)
THEOREM PartsInvariance == TaskSpec => []Parts
BY PartsInit, PartsStep, PTL DEF TaskSpec

(* The mutex is exclusive, and no task that can go on is forgotten by the  *)
(* scheduler, the timers or the mutex.                                     *)
THEOREM SchedulerInvariance == TaskSpec => []SchedulerInv
<1>1. Parts => SchedulerInv
  BY DEF Parts, ReadyPart, MutexPart, TimerPart, JoinPart, SchedulerInv, TaskTypeOK, ReadyIsRanked, States
<1> QED BY PartsInvariance, <1>1, PTL

=============================================================================
