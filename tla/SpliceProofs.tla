------------------------------ MODULE SpliceProofs ------------------------------
(***************************************************************************)
(* The two splices of the engine, for rings, pools, batches and windows of *)
(* every size and any number of bytes and datagrams.                       *)
(***************************************************************************)
EXTENDS TcpSplice, UdpSplice, SequenceTheorems, TLAPS

-----------------------------------------------------------------------------
(* The splice of a UDP session *)

(* What the pool holds, datagram by datagram: those that the batch under    *)
(* way has sent already, and then those that are still to be sent.          *)
PoolInOrder ==
    /\ Len(sentUp) + Len(frames) - done = arrived
    /\ \A i \in 1 .. Len(sentUp) : sentUp[i] = i
    /\ \A i \in 1 .. Len(frames) : i > done => frames[i] = Len(sentUp) + i - done

(* A batch is under way exactly while sendmmsg runs.                       *)
BatchUnderWay ==
    /\ taken <= Len(frames)
    /\ IF stage \in {"sending", "sendWaiting"} THEN done < taken ELSE taken = 0 /\ done = 0

PoolInv == UdpTypeOK /\ Len(frames) <= PoolSize + 1 /\ BatchUnderWay /\ PoolInOrder

LEMMA DropFacts ==
    ASSUME NEW S, NEW s \in Seq(S), NEW n \in 0 .. Len(s)
    PROVE  /\ Drop(n, s) \in Seq(S)
           /\ Len(Drop(n, s)) = Len(s) - n
           /\ \A i \in 1 .. Len(s) - n : Drop(n, s)[i] = s[i + n]
BY DEF Drop

LEMMA ConcatFacts ==
    ASSUME NEW S, NEW s \in Seq(S), NEW t \in Seq(S)
    PROVE  /\ s \o t \in Seq(S)
           /\ Len(s \o t) = Len(s) + Len(t)
           /\ \A i \in 1 .. Len(s) : (s \o t)[i] = s[i]
           /\ \A i \in 1 .. Len(t) : (s \o t)[Len(s) + i] = t[i]
OBVIOUS

LEMMA SubSeqFacts ==
    ASSUME NEW S, NEW s \in Seq(S), NEW a \in Nat, NEW k \in Nat, a + k <= Len(s)
    PROVE  /\ SubSeq(s, a + 1, a + k) \in Seq(S)
           /\ Len(SubSeq(s, a + 1, a + k)) = k
           /\ \A i \in 1 .. k : SubSeq(s, a + 1, a + k)[i] = s[a + i]
OBVIOUS

(* Numbers counted on across a seam are the numbers counted.               *)
LEMMA CountedOn ==
    ASSUME NEW s \in Seq(Nat), NEW t \in Seq(Nat),
           \A i \in 1 .. Len(s) : s[i] = i,
           \A i \in 1 .. Len(t) : t[i] = Len(s) + i
    PROVE  \A i \in 1 .. Len(s) + Len(t) : (s \o t)[i] = i
<1> TAKE i \in 1 .. Len(s) + Len(t)
<1>1. CASE i <= Len(s) BY <1>1
<1>2. CASE i > Len(s)
  <2>1. i - Len(s) \in 1 .. Len(t) BY <1>2
  <2>2. (s \o t)[i] = t[i - Len(s)] BY <1>2
  <2> QED BY <2>1, <2>2
<1> QED BY <1>1, <1>2

LEMMA MovedOn ==
    ASSUME NEW a \in Nat, NEW b \in Nat, NEW c \in Nat, NEW d \in Nat, NEW k \in Nat,
           a + b - c = d
    PROVE  /\ (a + k) + b - (c + k) = d
           /\ a + (b + 1) - c = d + 1
OBVIOUS

LEMMA Shifted ==
    ASSUME NEW l \in Nat, NEW n \in 0 .. l, NEW d \in Nat, d <= n, NEW i \in 1 .. l - n
    PROVE  i + n \in 1 .. l /\ i + n > d
OBVIOUS

LEMMA PoolInit == UdpInit => PoolInv
<1> SUFFICES ASSUME UdpInit PROVE PoolInv
  OBVIOUS
<1> USE PoolAssumption DEF UdpInit
<1>1. frames \in Seq(Nat) /\ sentUp \in Seq(Nat) /\ Len(frames) = 0 /\ Len(sentUp) = 0
  OBVIOUS
<1>2. UdpTypeOK
  <2>1. talks \in BOOLEAN /\ silenced \in BOOLEAN OBVIOUS
  <2>2. arrived \in Nat /\ inSocket \in 0 .. SocketRoom /\ taken \in 0 .. Batch /\ done \in Nat
    OBVIOUS
  <2>3. upRes \in -1 .. 1 /\ downRes \in -1 .. 1
    OBVIOUS
  <2>4. control \in {"open", "closed"} /\ stage \in UdpYielded \cup {"up", "sending", "down", "over"}
    OBVIOUS
  <2> QED BY <1>1, <2>1, <2>2, <2>3, <2>4 DEF UdpTypeOK
<1>3. PoolInOrder BY <1>1 DEF PoolInOrder
<1>4. BatchUnderWay BY <1>1 DEF BatchUnderWay
<1> QED BY <1>1, <1>2, <1>3, <1>4 DEF PoolInv

(* sendmmsg returns what it has sent so far.                               *)
LEMMA PoolAfterBatch ==
    ASSUME PoolInv, NEW n \in 0 .. Len(frames), SendReturns(n),
           sentUp' \in Seq(Nat), n >= done, Len(sentUp') = Len(sentUp) + n - done,
           \A i \in 1 .. Len(sentUp') : sentUp'[i] = i,
           UNCHANGED <<arrived, inSocket, talks, downRes, control>>,
           silenced' \in BOOLEAN
    PROVE  PoolInv'
<1> USE PoolAssumption DEF PoolInv, UdpTypeOK, UdpYielded
<1>1. /\ frames' \in Seq(Nat) /\ Len(frames') = Len(frames) - n
      /\ \A i \in 1 .. Len(frames) - n : frames'[i] = frames[i + n]
  BY DropFacts DEF SendReturns
<1>2. taken' = 0 /\ done' = 0 /\ stage' = "down" /\ upRes' \in -1 .. 1
  BY DEF SendReturns
<1>3. UdpTypeOK' BY <1>1, <1>2
<1>4. PoolInOrder'
  <2>1. Len(sentUp') + Len(frames') - done' = arrived'
    <3>1. Len(sentUp) \in Nat /\ Len(frames) \in Nat /\ done \in Nat
      OBVIOUS
    <3>2. Len(sentUp) + Len(frames) - done = arrived
      BY DEF PoolInOrder
    <3> QED BY <3>1, <3>2, <1>1, <1>2, SMTT(30)
  <2>2. ASSUME NEW i \in 1 .. Len(frames')
        PROVE  frames'[i] = Len(sentUp') + i - done'
    <3>1. i + n \in 1 .. Len(frames) /\ i + n > done
      <4>1. Len(frames) \in Nat /\ n \in 0 .. Len(frames) /\ done \in Nat /\ done <= n
        OBVIOUS
      <4>2. i \in 1 .. Len(frames) - n
        BY <1>1
      <4> QED BY <4>1, <4>2, Shifted
    <3>2. frames'[i] = Len(sentUp) + (i + n) - done
      BY <1>1, <3>1 DEF PoolInOrder
    <3> QED BY <1>2, <3>2
  <2> QED BY <2>1, <2>2 DEF PoolInOrder
<1>5. BatchUnderWay' BY <1>1, <1>2 DEF BatchUnderWay
<1> QED BY <1>1, <1>3, <1>4, <1>5

LEMMA PoolStep ==
    ASSUME PoolInv, [UdpNext]_udpVars
    PROVE  PoolInv'
<1> USE PoolAssumption DEF PoolInv, UdpTypeOK, UdpYielded, BatchUnderWay
<1>1. CASE TakesBatch
  BY <1>1 DEF TakesBatch, server, AtMost, PoolInOrder
<1>2. CASE NothingToSend
  BY <1>2 DEF NothingToSend, server, PoolInOrder
<1>3. CASE SendsSome
  <2>1. PICK k \in 1 .. taken - done :
          /\ sentUp' = sentUp \o SubSeq(frames, done + 1, done + k)
          /\ IF done + k = taken
             THEN SendReturns(taken)
             ELSE done' = done + k /\ UNCHANGED <<frames, taken, upRes, stage>>
    BY <1>3 DEF SendsSome
  <2> DEFINE part == SubSeq(frames, done + 1, done + k)
  <2>2. /\ part \in Seq(Nat) /\ Len(part) = k
        /\ \A i \in 1 .. k : part[i] = frames[done + i]
    <3>1. stage = "sending" BY <1>3 DEF SendsSome
    <3>2. done \in Nat /\ k \in Nat /\ frames \in Seq(Nat)
      OBVIOUS
    <3>3. done < taken /\ taken <= Len(frames)
      BY <3>1
    <3>4. done + k <= Len(frames)
      BY <3>2, <3>3
    <3> HIDE DEF PoolInv, UdpTypeOK, UdpYielded, BatchUnderWay
    <3> QED BY <3>2, <3>4, SubSeqFacts, SMTT(30)
  <2>8. sentUp' = sentUp \o part
    BY <2>1
  <2>3. /\ sentUp' \in Seq(Nat) /\ Len(sentUp') = Len(sentUp) + k
    <3> HIDE DEF part
    <3> QED BY <2>2, <2>8, ConcatFacts
  <2>5. UNCHANGED <<arrived, inSocket, talks, downRes, control, silenced>> /\ stage = "sending"
    BY <1>3 DEF SendsSome, server
  <2>4. \A i \in 1 .. Len(sentUp') : sentUp'[i] = i
    <3>1. \A i \in 1 .. Len(part) : part[i] = Len(sentUp) + i
      <4> TAKE i \in 1 .. Len(part)
      <4>1. done + i \in 1 .. Len(frames) /\ done + i > done /\ i \in 1 .. k
        BY <2>2, <2>5
      <4> QED BY <4>1, <2>2 DEF PoolInOrder
    <3>2. \A i \in 1 .. Len(sentUp) : sentUp[i] = i
      BY DEF PoolInOrder
    <3> HIDE DEF part
    <3>3. \A i \in 1 .. Len(sentUp) + Len(part) : (sentUp \o part)[i] = i
      BY <2>2, <3>1, <3>2, CountedOn
    <3>4. Len(sentUp) + Len(part) = Len(sentUp') /\ sentUp' = sentUp \o part
      BY <2>2, <2>3, <2>8
    <3> QED BY <3>3, <3>4
  <2>6. CASE done + k = taken
    <3>1. SendReturns(taken) /\ taken \in 0 .. Len(frames) /\ taken >= done
      BY <2>1, <2>5, <2>6
    <3>2. Len(sentUp') = Len(sentUp) + taken - done
      BY <2>2, <2>3, <2>6, SMTT(30)
    <3> QED BY <2>3, <2>4, <2>5, <3>1, <3>2, PoolAfterBatch
  <2>7. CASE done + k # taken
    <3>1. done' = done + k /\ UNCHANGED <<frames, taken, upRes, stage>> /\ done' < taken
      BY <2>1, <2>7
    <3>2. Len(sentUp') = Len(sentUp) + k
      BY <2>2, <2>3
    <3>3. PoolInOrder'
      <4>1. Len(sentUp') + Len(frames') - done' = arrived'
        <5>1. Len(sentUp) + Len(frames) - done = arrived BY DEF PoolInOrder
        <5>2. Len(sentUp) \in Nat /\ Len(frames) \in Nat /\ done \in Nat /\ arrived \in Nat /\ k \in Nat
          OBVIOUS
        <5>3. (Len(sentUp) + k) + Len(frames) - (done + k) = arrived
          BY <5>1, <5>2, MovedOn, SMTT(30)
        <5> QED BY <5>3, <2>5, <3>1, <3>2
      <4>2. \A i \in 1 .. Len(frames') : i > done' => frames'[i] = Len(sentUp') + i - done'
        BY <2>5, <3>1, <3>2 DEF PoolInOrder
      <4> QED BY <2>4, <4>1, <4>2 DEF PoolInOrder
    <3> QED BY <2>3, <2>5, <3>1, <3>3
  <2> QED BY <2>6, <2>7
<1>4. CASE SendBlocks
  <2>1. UNCHANGED <<arrived, sentUp, inSocket, talks, downRes, control>> /\ silenced' \in BOOLEAN
    BY <1>4 DEF SendBlocks, server, Notices
  <2>2. CASE Yields0("sendWaiting")
    BY <1>4, <2>1, <2>2 DEF SendBlocks, PoolInOrder
  <2>3. CASE ~Yields0("sendWaiting")
    <3>1. SendReturns(done) BY <1>4, <2>3 DEF SendBlocks
    <3> QED BY <3>1, <2>1, PoolAfterBatch DEF PoolInOrder
  <2> QED BY <2>2, <2>3
<1>5. CASE SendFails \/ SendTimesOut
  <2>1. /\ UNCHANGED <<arrived, sentUp, inSocket, talks, downRes, control, silenced>>
        /\ SendReturns(done)
    BY <1>5 DEF SendFails, SendTimesOut, server
  <2> QED BY <2>1, PoolAfterBatch DEF PoolInOrder
<1>6. CASE Down
  <2>1. UNCHANGED <<frames, arrived, sentUp, taken, done, upRes, control>> /\ stage = "down"
    BY <1>6 DEF Down, pool
  <2>2. inSocket' \in 0 .. SocketRoom /\ talks' \in BOOLEAN /\ downRes' \in -1 .. 1
    BY <1>6 DEF Down, Replies, server, AtMost
  <2>3. stage' \in {"paused", "idle", "over"} /\ silenced' \in BOOLEAN
    BY <1>6 DEF Down, LoopYields, Notices
  <2> QED BY <2>1, <2>2, <2>3 DEF PoolInOrder
<1>7. CASE UdpResumes \/ UdpTimesOut
  BY <1>7 DEF UdpResumes, UdpTimesOut, pool, server, PoolInOrder
<1>8. CASE ClientDatagram
  <2>1. /\ frames' \in Seq(Nat) /\ Len(frames') = Len(frames) + 1
        /\ \A i \in 1 .. Len(frames) : frames'[i] = frames[i]
        /\ frames'[Len(frames) + 1] = arrived + 1
    BY <1>8 DEF ClientDatagram
  <2>2. UNCHANGED <<sentUp, taken, done, upRes, inSocket, talks, downRes, control, silenced>>
    BY <1>8 DEF ClientDatagram, server
  <2>3. arrived' = arrived + 1 /\ Len(frames) <= PoolSize
    BY <1>8 DEF ClientDatagram, PoolHasRoom
  <2>4. /\ stage' \in UdpYielded \cup {"up", "sending", "down", "over"}
        /\ stage' \in {"sending", "sendWaiting"} <=> stage \in {"sending", "sendWaiting"}
    BY <1>8 DEF ClientDatagram, UdpWakes
  <2>5. PoolInOrder'
    <3>1. \A i \in 1 .. Len(frames') : i > done => frames'[i] = Len(sentUp) + i - done
      <4> TAKE i \in 1 .. Len(frames')
      <4>1. CASE i \in 1 .. Len(frames) BY <4>1, <2>1 DEF PoolInOrder
      <4>2. CASE i = Len(frames) + 1
        <5>1. Len(sentUp) + Len(frames) - done = arrived BY DEF PoolInOrder
        <5>2. Len(sentUp) \in Nat /\ Len(frames) \in Nat /\ done \in Nat /\ arrived \in Nat OBVIOUS
        <5>3. Len(sentUp) + (Len(frames) + 1) - done = arrived + 1
          BY <5>1, <5>2, MovedOn, SMTT(30)
        <5>4. frames'[i] = arrived + 1
          BY <4>2, <2>1
        <5> QED BY <4>2, <5>3, <5>4
      <4> QED BY <4>1, <4>2, <2>1
    <3>2. Len(sentUp) + Len(frames) - done = arrived BY DEF PoolInOrder
    <3>3. Len(sentUp) \in Nat /\ Len(frames) \in Nat /\ done \in Nat /\ arrived \in Nat OBVIOUS
    <3>6. Len(sentUp) + (Len(frames) + 1) - done = arrived + 1
      BY <3>2, <3>3, MovedOn, SMTT(30)
    <3>4. Len(sentUp') + Len(frames') - done' = arrived'
      BY <2>1, <2>2, <2>3, <3>6
    <3>5. \A i \in 1 .. Len(sentUp') : sentUp'[i] = i
      BY <2>2 DEF PoolInOrder
    <3> QED BY <3>1, <3>4, <3>5, <2>2 DEF PoolInOrder
  <2> QED BY <2>1, <2>2, <2>3, <2>4, <2>5
<1>9. CASE UdpSocketReady \/ ServerDatagram \/ ControlCloses \/ UdpTerminated
  <2>1. UNCHANGED <<frames, arrived, sentUp, taken, done, upRes>>
    BY <1>9 DEF UdpSocketReady, ServerDatagram, ControlCloses, UdpTerminated, pool
  <2>2. /\ stage' \in UdpYielded \cup {"up", "sending", "down", "over"}
        /\ stage' \in {"sending", "sendWaiting"} <=> stage \in {"sending", "sendWaiting"}
    BY <1>9 DEF UdpSocketReady, ServerDatagram, ControlCloses, UdpTerminated, UdpWakes
  <2>3. /\ inSocket' \in 0 .. SocketRoom /\ talks' \in BOOLEAN /\ downRes' \in -1 .. 1
        /\ control' \in {"open", "closed"} /\ silenced' \in BOOLEAN
    <3>1. CASE UdpSocketReady BY <3>1 DEF UdpSocketReady, server
    <3>2. CASE ServerDatagram BY <3>2 DEF ServerDatagram
    <3>3. CASE ControlCloses BY <3>3 DEF ControlCloses, server
    <3>4. CASE UdpTerminated BY <3>4 DEF UdpTerminated, server
    <3> QED BY <1>9, <3>1, <3>2, <3>3, <3>4
  <2> QED BY <2>1, <2>2, <2>3 DEF PoolInOrder
<1>10. CASE ServerFallsSilent
  BY <1>10 DEF ServerFallsSilent, pool, PoolInOrder
<1>11. CASE DatagramDropped \/ UNCHANGED udpVars
  BY <1>11 DEF DatagramDropped, udpVars, PoolInOrder
<1> QED BY <1>1, <1>2, <1>3, <1>4, <1>5, <1>6, <1>7, <1>8, <1>9, <1>10, <1>11 DEF UdpNext, UdpTask

(* What was sent and what waits are, together, all that was let in, each   *)
(* datagram once and in its order.                                         *)
LEMMA PoolInOrderIsExact ==
    ASSUME PoolInv
    PROVE  PoolIsExact
<1> USE DEF PoolInv, UdpTypeOK, BatchUnderWay, PoolInOrder
<1>1. done \in 0 .. Len(frames)
  OBVIOUS
<1>5. \A i \in 1 .. Len(sentUp) : sentUp[i] = i
  OBVIOUS
<1> DEFINE rest == Drop(done, frames)
<1>2. /\ rest \in Seq(Nat) /\ Len(rest) = Len(frames) - done
      /\ \A i \in 1 .. Len(frames) - done : rest[i] = frames[i + done]
  BY <1>1, DropFacts
<1>3. \A i \in 1 .. Len(rest) : rest[i] = Len(sentUp) + i
  <2> TAKE i \in 1 .. Len(rest)
  <2>1. i + done \in 1 .. Len(frames) /\ i + done > done /\ rest[i] = frames[i + done]
    BY <1>1, <1>2
  <2> QED BY <2>1
<1>4. Len(sentUp) + Len(rest) = arrived
  BY <1>2
<1> HIDE DEF rest
<1>9. sentUp \in Seq(Nat) /\ rest \in Seq(Nat)
  BY <1>2
<1>6. /\ sentUp \o rest \in Seq(Nat)
      /\ Len(sentUp \o rest) = Len(sentUp) + Len(rest)
  BY <1>9, ConcatFacts, SMTT(30)
<1>7. \A i \in 1 .. Len(sentUp) + Len(rest) : (sentUp \o rest)[i] = i
  BY <1>2, <1>3, <1>5, CountedOn
<1>8. sentUp \o rest = [n \in 1 .. arrived |-> n]
  <2>1. DOMAIN (sentUp \o rest) = 1 .. arrived /\ arrived \in Nat
    BY <1>4, <1>6
  <2>2. \A i \in 1 .. arrived : (sentUp \o rest)[i] = i
    BY <1>4, <1>7
  <2>3. sentUp \o rest = [n \in DOMAIN (sentUp \o rest) |-> (sentUp \o rest)[n]]
    <3>1. sentUp \o rest \in [1 .. Len(sentUp \o rest) -> Nat]
      BY <1>6, LenProperties
    <3> QED BY <3>1
  <2> QED BY <2>1, <2>2, <2>3
<1> QED BY <1>8 DEF PoolIsExact, rest

(* A datagram of the client that found room is sent once and in its order, *)
(* or still waits: no batch that was sent in part, given up by a time-out  *)
(* or ended by an error loses or repeats one.                              *)
THEOREM PoolInvariance == UdpSpec => []PoolInv
BY PoolInit, PoolStep, PTL DEF UdpSpec

(* The pool of a UDP session is bounded and exact, whatever its size and   *)
(* that of its batches: all that a run checks of it.                       *)
THEOREM UdpInvariance == UdpSpec => []UdpInv
<1>1. PoolInv => UdpInv
  BY PoolInOrderIsExact DEF PoolInv, UdpInv, PoolBounded, BatchUnderWay, UdpTypeOK
<1> QED BY PoolInvariance, <1>1, PTL

-----------------------------------------------------------------------------
(* The splice of a TCP session *)

(* The ring is full of what the client has not acknowledged, byte behind    *)
(* byte up to rp, as long as lwIP has taken all that it was given.          *)
RingHoldsUnacked ==
    hasPcb /\ resB >= 0 =>
        /\ ring.use = Len(unacked)
        /\ acked + Len(unacked) = got
        /\ ~fin
        /\ \A k \in 1 .. Len(unacked) : unacked[k].pos = Place(ring.rp + (RingSize - 1) - (Len(unacked) - k))

(* The counters that hold also after lwIP has refused something, and after  *)
(* a reset.                                                                *)
RingCounts ==
    /\ ring.rda <= ring.use
    /\ ring.wp = Place(ring.rp + ring.rda)
    /\ hasPcb \/ resB >= 0 => ring.rda = 0
    /\ Len(unacked) <= ring.use
    /\ ~hasPcb => unacked = <<>>

SpliceIInv ==
    /\ SpliceTypeOK /\ RingCounts /\ RingHoldsUnacked
    /\ NothingOverwritten /\ StreamInOrder /\ CleanEndsAreComplete /\ WindowIsReturned

LEMMA PlaceFacts ==
    ASSUME NEW i \in Nat
    PROVE  /\ Place(i) \in 0 .. RingSize - 1
           /\ i < RingSize => Place(i) = i
           /\ i >= RingSize /\ i < RingSize + RingSize => Place(i) = i - RingSize
BY SpliceAssumption DEF Place

Entries == [pos : 0 .. RingSize - 1, n : Nat]

LEMMA FunctionIsSeq ==
    ASSUME NEW S, NEW n \in Nat, NEW f \in [1 .. n -> S]
    PROVE  f \in Seq(S) /\ Len(f) = n
OBVIOUS

(* tcp_write of a chunk: all of it behind what is queued, or nothing.      *)
Wrote(Q, q, content, p, n) ==
    /\ Q \in Seq(Entries)
    /\ \A k \in 1 .. Len(q) : Q[k] = q[k]
    /\ \A k \in 1 .. Len(Q) : k > Len(q) =>
         /\ Q[k].pos = p + (k - Len(q) - 1)
         /\ Q[k].n = content[Q[k].pos]
    /\ Q = q \/ Len(Q) = Len(q) + n

LEMMA TcpWriteFacts ==
    ASSUME NEW q \in Seq(Entries), NEW content \in [0 .. RingSize - 1 -> Nat],
           NEW p \in 0 .. RingSize - 1, NEW n \in Nat, p + n <= RingSize,
           NEW Q \in TcpWrite(q, content, [pos |-> p, len |-> n])
    PROVE  Wrote(Q, q, content, p, n)
<1> USE SpliceAssumption DEF Wrote
<1>1. CASE Q = q
  <2>1. Q \in Seq(Entries) BY <1>1
  <2>2. \A k \in 1 .. Len(Q) : ~(k > Len(q)) BY <1>1
  <2>3. \A k \in 1 .. Len(q) : Q[k] = q[k] BY <1>1
  <2> QED BY <1>1, <2>1, <2>2, <2>3
<1>2. CASE Q # q
  <2> DEFINE entry(i) == [pos |-> p + i - 1, n |-> content[p + i - 1]]
             more == [i \in 1 .. n |-> entry(i)]
  <2>1. \A i \in 1 .. n : entry(i) \in Entries
    <3> TAKE i \in 1 .. n
    <3>1. p + i - 1 \in 0 .. RingSize - 1 OBVIOUS
    <3> QED BY <3>1 DEF Entries
  <2>2. Q = q \o more
    BY <1>2 DEF TcpWrite
  <2>3. \A i \in 1 .. n : more[i].pos = p + (i - 1) /\ more[i].n = content[more[i].pos]
    <3> TAKE i \in 1 .. n
    <3>1. more[i].pos = p + i - 1 /\ more[i].n = content[p + i - 1]
      OBVIOUS
    <3>2. p + i - 1 = p + (i - 1) OBVIOUS
    <3> QED BY <3>1, <3>2
  <2>4. more \in [1 .. n -> Entries]
    <3> HIDE DEF entry
    <3> QED BY <2>1
  <2> HIDE DEF more
  <2>5. more \in Seq(Entries) /\ Len(more) = n
    BY <2>4, FunctionIsSeq
  <2>6. /\ Q \in Seq(Entries) /\ Len(Q) = Len(q) + n
        /\ \A k \in 1 .. Len(q) : Q[k] = q[k]
        /\ \A i \in 1 .. n : Q[Len(q) + i] = more[i]
    <3>1. Q \in Seq(Entries) BY <2>2, <2>5, ConcatFacts
    <3>2. Len(Q) = Len(q) + n BY <2>2, <2>5, ConcatFacts
    <3>3. \A k \in 1 .. Len(q) : Q[k] = q[k] BY <2>2, <2>5, ConcatFacts
    <3>4. \A i \in 1 .. n : Q[Len(q) + i] = more[i] BY <2>2, <2>5, ConcatFacts
    <3> QED BY <3>1, <3>2, <3>3, <3>4
  <2>7. ASSUME NEW k \in 1 .. Len(Q), k > Len(q)
        PROVE  /\ Q[k].pos = p + (k - Len(q) - 1)
               /\ Q[k].n = content[Q[k].pos]
    <3>1. PICK i \in 1 .. n : k = Len(q) + i
      <4>1. k - Len(q) \in 1 .. n /\ k = Len(q) + (k - Len(q))
        BY <2>6, <2>7
      <4> QED BY <4>1
    <3>2. Q[k] = more[i] /\ k - Len(q) - 1 = i - 1
      BY <2>6, <3>1
    <3> QED BY <3>2, <2>3
  <2> QED BY <2>6, <2>7
<1> QED BY <1>1, <1>2

Rings == [rp : 0 .. RingSize - 1, wp : 0 .. RingSize - 1, rda : 0 .. RingSize, use : 0 .. RingSize]

(* Going on from a place round the ring.                                   *)
LEMMA PlaceSums ==
    ASSUME NEW a \in Nat, NEW b \in Nat, a < RingSize + RingSize, b < RingSize
    PROVE  /\ Place(Place(a) + b) = Place(a + b)
           /\ Place(a + RingSize) = Place(a)
BY SpliceAssumption DEF Place

(* What is handed over is what was readable from some place on, round the   *)
(* end of the ring: all of it, one of its two chunks, or nothing.          *)
WroteFrom(Q, q, content, rp, n, s) ==
    /\ Q \in Seq(Entries)
    /\ Len(Q) >= Len(q) /\ s + Len(Q) <= Len(q) + n
    /\ \A k \in 1 .. Len(q) : Q[k] = q[k]
    /\ \A k \in 1 .. Len(Q) : k > Len(q) =>
         /\ Q[k].pos = Place(rp + s + (k - Len(q) - 1))
         /\ Q[k].n = content[Q[k].pos]

WroteOn(Q, q, content, rp, n) == \E s \in 0 .. n : WroteFrom(Q, q, content, rp, n, s)

(* One tcp_write of n bytes that are s bytes behind rp.                    *)
LEMMA WroteOnce ==
    ASSUME NEW q \in Seq(Entries), NEW content \in [0 .. RingSize - 1 -> Nat],
           NEW rp \in 0 .. RingSize - 1, NEW N \in Nat, NEW s \in 0 .. N, NEW n \in Nat, s + n <= N,
           NEW p \in 0 .. RingSize - 1, p + n <= RingSize, rp + N < RingSize + RingSize,
           rp + s = p \/ rp + s = p + RingSize,
           NEW Q, Wrote(Q, q, content, p, n)
    PROVE  WroteFrom(Q, q, content, rp, N, s)
<1> USE SpliceAssumption
<1>1. /\ Q \in Seq(Entries) /\ Len(q) \in Nat /\ Len(Q) \in Nat
      /\ Len(Q) = Len(q) \/ Len(Q) = Len(q) + n
  BY DEF Wrote
<1>2. Len(Q) >= Len(q) /\ s + Len(Q) <= Len(q) + N
  BY <1>1
<1>3. ASSUME NEW k \in 1 .. Len(Q), k > Len(q)
      PROVE  Q[k].pos = Place(rp + s + (k - Len(q) - 1))
  <2>1. PICK j : j = k - Len(q) - 1
    OBVIOUS
  <2>2. j \in Nat /\ j < n
    BY <1>1, <1>3, <2>1
  <2>3. Q[k].pos = p + j
    BY <1>3, <2>1 DEF Wrote
  <2>4. Place(rp + s + j) = p + j
    <3>1. p + j \in Nat /\ p + j < RingSize
      BY <2>2
    <3>2. CASE rp + s = p
      BY <3>1, <3>2, PlaceFacts
    <3>3. CASE rp + s = p + RingSize
      <4>1. rp + s + j = (p + j) + RingSize
        BY <2>2, <3>3
      <4>2. Place((p + j) + RingSize) = Place(p + j)
        BY <3>1, PlaceSums
      <4> QED BY <3>1, <4>1, <4>2, PlaceFacts
    <3> QED BY <3>2, <3>3
  <2> QED BY <2>1, <2>3, <2>4
<1> QED BY <1>1, <1>2, <1>3 DEF Wrote, WroteFrom

LEMMA TcpWriteAllFacts ==
    ASSUME NEW q \in Seq(Entries), NEW content \in [0 .. RingSize - 1 -> Nat],
           NEW r \in Rings,
           NEW Q \in TcpWriteAll(q, content, Chunks(r))
    PROVE  WroteOn(Q, q, content, r.rp, r.rda)
<1> USE SpliceAssumption
<1>0. PICK rp \in 0 .. RingSize - 1, N \in 0 .. RingSize : rp = r.rp /\ N = r.rda
  BY DEF Rings
<1>1. CASE N = 0
  <2>1. Chunks(r) = <<>> BY <1>0, <1>1 DEF Chunks
  <2>2. Q = q BY <2>1 DEF TcpWriteAll
  <2>3. 0 \in 0 .. N BY <1>1
  <2>4. WroteFrom(Q, q, content, rp, N, 0)
    BY <1>1, <2>2 DEF WroteFrom
  <2> QED BY <1>0, <2>3, <2>4 DEF WroteOn
<1>2. CASE N # 0 /\ rp + N <= RingSize
  <2>1. Chunks(r) = <<[pos |-> rp, len |-> N]>> BY <1>0, <1>2 DEF Chunks
  <2>2. Q \in TcpWrite(q, content, [pos |-> rp, len |-> N])
    BY <2>1 DEF TcpWriteAll
  <2>3. Wrote(Q, q, content, rp, N)
    <3>1. N \in Nat /\ rp + N <= RingSize BY <1>2
    <3> QED BY <2>2, <3>1, TcpWriteFacts
  <2>4. WroteFrom(Q, q, content, rp, N, 0)
    <3>1. 0 \in 0 .. N /\ 0 + N <= N /\ rp + 0 = rp /\ rp + N < RingSize + RingSize
      BY <1>2
    <3>2. q \in Seq(Entries) /\ N \in Nat /\ rp \in 0 .. RingSize - 1 /\ rp + N <= RingSize
      BY <1>2
    <3> QED BY <2>3, <3>1, <3>2, WroteOnce
  <2>5. 0 \in 0 .. N OBVIOUS
  <2> QED BY <1>0, <2>4, <2>5 DEF WroteOn
<1>3. CASE rp + N > RingSize
  <2>1. PICK n1, n2 : n1 = RingSize - rp /\ n2 = N - n1
    OBVIOUS
  <2>2. /\ n1 \in 1 .. N /\ n2 \in 1 .. N /\ n1 + n2 = N
        /\ rp + n1 = RingSize /\ n2 <= RingSize /\ 0 \in 0 .. RingSize - 1
        /\ rp + N < RingSize + RingSize
    BY <1>3, <2>1
  <2>3. Chunks(r) = <<[pos |-> rp, len |-> n1], [pos |-> 0, len |-> n2]>>
    <3>1. r.rda # 0 /\ ~(r.rp + r.rda <= RingSize) BY <1>0, <1>3
    <3>2. RingSize - r.rp = n1 /\ r.rda - (RingSize - r.rp) = n2 BY <1>0, <2>1
    <3> QED BY <1>0, <3>1, <3>2 DEF Chunks
  <2>4. PICK P \in TcpWrite(q, content, [pos |-> rp, len |-> n1]) :
          Q \in TcpWrite(P, content, [pos |-> 0, len |-> n2])
    BY <2>3 DEF TcpWriteAll
  <2>5. Wrote(P, q, content, rp, n1)
    <3>1. n1 \in Nat /\ rp + n1 <= RingSize BY <2>2
    <3>2. rp \in 0 .. RingSize - 1 /\ q \in Seq(Entries) OBVIOUS
    <3> QED BY <2>4, <3>1, <3>2, TcpWriteFacts
  <2>6. Wrote(Q, P, content, 0, n2)
    <3>1. P \in Seq(Entries) BY <2>5 DEF Wrote
    <3>2. n2 \in Nat /\ 0 + n2 <= RingSize BY <2>2
    <3> QED BY <2>2, <2>4, <3>1, <3>2, TcpWriteFacts
  <2>7. CASE P = q
    <3>1. WroteFrom(Q, q, content, rp, N, n1)
      <4>1. /\ n1 \in 0 .. N /\ n2 \in Nat /\ n1 + n2 <= N /\ 0 + n2 <= RingSize
            /\ rp + n1 = 0 + RingSize
        BY <2>2
      <4>2. /\ q \in Seq(Entries) /\ N \in Nat /\ rp \in 0 .. RingSize - 1
            /\ 0 \in 0 .. RingSize - 1 /\ rp + N < RingSize + RingSize
        BY <2>2
      <4>3. Wrote(Q, q, content, 0, n2) BY <2>6, <2>7
      <4> QED BY <4>1, <4>2, <4>3, WroteOnce
    <3>2. n1 \in 0 .. N BY <2>2
    <3> QED BY <1>0, <3>1, <3>2 DEF WroteOn
  <2>8. CASE P # q
    <3>1. P \in Seq(Entries) /\ Len(P) = Len(q) + n1 /\ Q \in Seq(Entries)
      BY <2>5, <2>6, <2>8 DEF Wrote
    <3>2. WroteFrom(P, q, content, rp, N, 0)
      <4>1. 0 \in 0 .. N /\ 0 + n1 <= N /\ rp + 0 = rp /\ rp + n1 <= RingSize /\ n1 \in Nat
        BY <2>2
      <4>2. q \in Seq(Entries) /\ N \in Nat /\ rp \in 0 .. RingSize - 1 /\ rp + N < RingSize + RingSize
        BY <2>2
      <4> QED BY <2>5, <4>1, <4>2, WroteOnce
    <3>3. WroteFrom(Q, P, content, rp, N, n1)
      <4>1. /\ n1 \in 0 .. N /\ n2 \in Nat /\ n1 + n2 <= N /\ 0 + n2 <= RingSize
            /\ rp + n1 = 0 + RingSize
        BY <2>2
      <4>2. P \in Seq(Entries) /\ N \in Nat /\ 0 \in 0 .. RingSize - 1 /\ rp + N < RingSize + RingSize
        BY <2>2, <3>1
      <4> QED BY <2>6, <4>1, <4>2, WroteOnce
    <3>4. Len(Q) >= Len(q) /\ 0 + Len(Q) <= Len(q) + N
      <4>1. Len(Q) >= Len(P) /\ n1 + Len(Q) <= Len(P) + N
        BY <3>3 DEF WroteFrom
      <4>2. /\ Len(Q) \in Nat /\ Len(P) \in Nat /\ Len(q) \in Nat /\ n1 \in Nat
            /\ Len(P) = Len(q) + n1
        BY <2>2, <3>1
      <4> QED BY <4>1, <4>2
    <3>5. ASSUME NEW k \in 1 .. Len(q)
          PROVE  Q[k] = q[k]
      <4>1. k \in 1 .. Len(P) BY <2>2, <3>1
      <4> QED BY <4>1, <2>5, <2>6 DEF Wrote
    <3>6. ASSUME NEW k \in 1 .. Len(Q), k > Len(q)
          PROVE  Q[k].pos = Place(rp + 0 + (k - Len(q) - 1)) /\ Q[k].n = content[Q[k].pos]
      <4>1. CASE k <= Len(P)
        <5>1. k \in 1 .. Len(P) BY <3>1, <4>1
        <5> QED BY <2>6, <3>2, <3>6, <5>1 DEF Wrote, WroteFrom
      <4>2. CASE k > Len(P)
        <5>1. rp + n1 + (k - Len(P) - 1) = rp + 0 + (k - Len(q) - 1)
          BY <2>2, <3>1
        <5> QED BY <3>3, <4>2, <5>1 DEF WroteFrom
      <4> QED BY <3>1, <4>1, <4>2
    <3>7. WroteFrom(Q, q, content, rp, N, 0)
      BY <3>1, <3>4, <3>5, <3>6 DEF WroteFrom
    <3>8. 0 \in 0 .. N OBVIOUS
    <3> QED BY <1>0, <3>7, <3>8 DEF WroteOn
  <2> QED BY <2>7, <2>8
<1> QED BY <1>1, <1>2, <1>3

(* readv fills the n places from wp on and leaves the others as they are.  *)
LEMMA FilledFacts ==
    ASSUME SpliceTypeOK, NEW n \in 0 .. RingSize
    PROVE  /\ Filled(n) \in [0 .. RingSize - 1 -> Nat]
           /\ \A j \in 0 .. RingSize - 1 :
                Filled(n)[Place(ring.wp + j)] = IF j < n THEN got + j + 1 ELSE slot[Place(ring.wp + j)]
<1> USE SpliceAssumption
<1> DEFINE K(i) == Place(i - ring.wp + RingSize)
           F == [i \in 0 .. RingSize - 1 |-> IF K(i) < n THEN got + K(i) + 1 ELSE slot[i]]
<1>1. Filled(n) = F
  BY DEF Filled
<1>2. ring.wp \in 0 .. RingSize - 1 /\ got \in Nat /\ slot \in [0 .. RingSize - 1 -> Nat]
  BY DEF SpliceTypeOK
<1>3. \A i \in 0 .. RingSize - 1 : K(i) \in 0 .. RingSize - 1
  <2> TAKE i \in 0 .. RingSize - 1
  <2>1. i - ring.wp + RingSize \in Nat BY <1>2
  <2> QED BY <2>1, PlaceFacts
<1>4. F \in [0 .. RingSize - 1 -> Nat]
  <2> HIDE DEF K
  <2>1. \A i \in 0 .. RingSize - 1 : (IF K(i) < n THEN got + K(i) + 1 ELSE slot[i]) \in Nat
    <3> TAKE i \in 0 .. RingSize - 1
    <3>1. slot[i] \in Nat /\ got \in Nat BY <1>2
    <3>2. K(i) \in Nat BY <1>3
    <3> QED BY <3>1, <3>2
  <2> QED BY <2>1
<1>5. ASSUME NEW j \in 0 .. RingSize - 1
      PROVE  F[Place(ring.wp + j)] = IF j < n THEN got + j + 1 ELSE slot[Place(ring.wp + j)]
  <2>1. PICK i : i = Place(ring.wp + j)
    OBVIOUS
  <2>2. ring.wp + j \in Nat /\ ring.wp + j < RingSize + RingSize
    BY <1>2
  <2>3. i \in 0 .. RingSize - 1
    BY <2>1, <2>2, PlaceFacts
  <2>4. K(i) = j
    <3>1. CASE ring.wp + j < RingSize
      <4>1. i = ring.wp + j BY <2>1, <2>2, <3>1, PlaceFacts
      <4>2. i - ring.wp + RingSize = j + RingSize BY <4>1, <1>2
      <4>3. Place(j + RingSize) = Place(j) /\ Place(j) = j
        BY PlaceSums, PlaceFacts
      <4> QED BY <4>2, <4>3
    <3>2. CASE ring.wp + j >= RingSize
      <4>1. Place(ring.wp + j) = (ring.wp + j) - RingSize BY <2>2, <3>2, PlaceFacts
      <4>2. i - ring.wp + RingSize = j BY <2>1, <4>1, <1>2
      <4> QED BY <4>2, PlaceFacts
    <3> QED BY <3>1, <3>2, <2>2
  <2>5. F[i] = IF K(i) < n THEN got + K(i) + 1 ELSE slot[i]
    <3> HIDE DEF K
    <3> QED BY <2>3
  <2> QED BY <2>1, <2>4, <2>5
<1> QED BY <1>1, <1>4, <1>5

LEMMA SpliceInitial == SpliceInit => SpliceIInv
<1> SUFFICES ASSUME SpliceInit PROVE SpliceIInv
  OBVIOUS
<1> USE SpliceAssumption DEF SpliceInit
<1>1. /\ ring \in [rp : 0 .. RingSize - 1, wp : 0 .. RingSize - 1, rda : 0 .. RingSize, use : 0 .. RingSize]
      /\ slot \in [0 .. RingSize - 1 -> Nat]
  OBVIOUS
<1>2. unacked = <<>> /\ Len(unacked) = 0 /\ unacked \in Seq([pos : 0 .. RingSize - 1, n : Nat])
  OBVIOUS
<1>3. got \in Nat /\ acked \in Nat /\ fromClient \in Nat /\ pbufs \in Nat /\ window \in Nat
  OBVIOUS
<1>4. fin \in BOOLEAN /\ eof \in BOOLEAN /\ shut \in BOOLEAN /\ hasPcb \in BOOLEAN /\ ended \in BOOLEAN
  OBVIOUS
<1>5. resF \in -1 .. 1 /\ resB \in -1 .. 1 /\ at \in {"f", "b", "drain", "over", "freed"} \cup Yielded
  OBVIOUS
<1>6. SpliceTypeOK
  BY <1>1, <1>2, <1>3, <1>4, <1>5 DEF SpliceTypeOK
<1>7. RingCounts
  BY <1>2, PlaceFacts DEF RingCounts
<1>8. RingHoldsUnacked
  BY <1>2 DEF RingHoldsUnacked
<1>9. NothingOverwritten /\ StreamInOrder /\ CleanEndsAreComplete /\ WindowIsReturned
  BY <1>2 DEF NothingOverwritten, StreamInOrder, CleanEndsAreComplete, WindowIsReturned
<1> QED BY <1>6, <1>7, <1>8, <1>9 DEF SpliceIInv

(* What does not touch the ring, what lwIP holds and the counts of the      *)
(* stream leaves them in order.                                            *)
LEMMA ServerSideKept ==
    ASSUME SpliceIInv, UNCHANGED <<ring, slot, got, unacked, acked, hasPcb, resB>>, fin' = fin
    PROVE  RingCounts' /\ RingHoldsUnacked' /\ NothingOverwritten' /\ StreamInOrder'
BY DEF SpliceIInv, RingCounts, RingHoldsUnacked, NothingOverwritten, StreamInOrder

LEMMA ForwardKeeps == ASSUME SpliceIInv, SpliceForward PROVE SpliceIInv'
<1> USE DEF SpliceForward
<1>1. /\ UNCHANGED <<ring, slot, got, unacked, acked, fin, hasPcb, resB>>
      /\ UNCHANGED <<fromClient, eof, ended>> /\ at' = "b"
  BY DEF serverSide
<1>2. /\ pbufs' \in Nat /\ window' \in Nat /\ shut' \in BOOLEAN /\ resF' \in -1 .. 1
      /\ shut' => eof /\ pbufs' = 0
      /\ hasPcb => window' + pbufs' = RcvWindow
  <2> USE DEF SpliceIInv, SpliceTypeOK, CleanEndsAreComplete, WindowIsReturned
  <2>1. CASE resF < 0 /\ UNCHANGED <<pbufs, window, shut, resF>>
    BY <2>1
  <2>2. CASE /\ \E n \in 1 .. pbufs : pbufs' = pbufs - n /\ window' = IF hasPcb THEN window + n ELSE window
             /\ resF' = 1 /\ UNCHANGED shut
    BY <2>2
  <2>3. CASE pbufs > 0 /\ resF' \in {0, -1} /\ UNCHANGED <<pbufs, window, shut>>
    BY <2>3
  <2>4. CASE /\ pbufs = 0 /\ resF' = (IF eof THEN -1 ELSE 0) /\ shut' = eof
             /\ UNCHANGED <<pbufs, window>>
    BY <2>4
  <2> QED BY <2>1, <2>2, <2>3, <2>4
<1>3. SpliceTypeOK'
  BY <1>1, <1>2 DEF SpliceIInv, SpliceTypeOK
<1>4. CleanEndsAreComplete' /\ WindowIsReturned'
  BY <1>1, <1>2 DEF SpliceIInv, CleanEndsAreComplete, WindowIsReturned
<1> QED BY <1>1, <1>3, <1>4, ServerSideKept DEF SpliceIInv

(* lwIP's callback for an acknowledgement: the ring gives the bytes free.  *)
LEMMA AcksKeep == ASSUME SpliceIInv, ClientAcks PROVE SpliceIInv'
<1> USE SpliceAssumption DEF SpliceIInv
<1>1. PICK n \in 1 .. Len(unacked) :
        /\ unacked' = SubSeq(unacked, n + 1, Len(unacked))
        /\ acked' = acked + n
        /\ ring' = ReadRelease(ring, n)
  BY DEF ClientAcks
<1>2. /\ UNCHANGED <<slot, got, fin, fromClient, pbufs, window, eof, shut, hasPcb, ended, resF, resB>>
      /\ hasPcb /\ at' \in {"f", "b", "drain", "over", "freed"} \cup Yielded
  BY DEF ClientAcks, clientSide, Wakes, Yielded
<1>3. unacked \in Seq(Entries) /\ Len(unacked) \in Nat
  BY DEF SpliceTypeOK, Entries
<1>4. /\ unacked' \in Seq(Entries) /\ Len(unacked') = Len(unacked) - n
      /\ \A k \in 1 .. Len(unacked') : unacked'[k] = unacked[k + n] /\ k + n \in 1 .. Len(unacked)
  BY <1>1, <1>3, DropFacts DEF Drop
<1>5. ring \in Rings /\ ring.rda = 0 /\ Len(unacked) <= ring.use /\ ring.wp = Place(ring.rp)
  BY <1>2 DEF SpliceTypeOK, Rings, RingCounts
<1>6. /\ ring' \in Rings /\ ring'.rda = 0 /\ ring'.use = ring.use - n
      /\ ring'.wp = Place(ring'.rp)
      /\ ring.use # n => ring'.rp = ring.rp
  <2>1. CASE ring.use = n
    <3>1. ring' = [ring EXCEPT !.use = 0, !.rp = 0, !.wp = 0] BY <1>1, <2>1 DEF ReadRelease
    <3>2. Place(0) = 0 BY PlaceFacts
    <3>3. ring'.use = 0 /\ ring'.rp = 0 /\ ring'.wp = 0 /\ ring'.rda = 0 /\ ring' \in Rings
      <4>1. 0 \in 0 .. RingSize - 1 /\ 0 \in 0 .. RingSize OBVIOUS
      <4> QED BY <3>1, <4>1, <1>5 DEF Rings
    <3>4. ring.use - n = 0
      BY <2>1, <1>3
    <3> QED BY <2>1, <3>2, <3>3, <3>4
  <2>2. CASE ring.use # n
    <3>1. ring' = [ring EXCEPT !.use = ring.use - n] BY <1>1, <2>2 DEF ReadRelease
    <3>2. ring.use - n \in 0 .. RingSize BY <1>3, <1>5 DEF Rings
    <3> QED BY <2>2, <3>1, <3>2, <1>5 DEF Rings
  <2> QED BY <2>1, <2>2
<1>7. acked' \in Nat /\ acked' + Len(unacked') = acked + Len(unacked)
  <2>1. acked \in Nat /\ n \in Nat BY <1>3 DEF SpliceTypeOK
  <2>2. (acked + n) + (Len(unacked) - n) = acked + Len(unacked) BY <2>1, <1>3
  <2>3. acked' = acked + n /\ Len(unacked') = Len(unacked) - n BY <1>1, <1>4
  <2> QED BY <2>1, <2>2, <2>3
<1>8. SpliceTypeOK'
  BY <1>2, <1>4, <1>6, <1>7 DEF SpliceTypeOK, Entries, Rings
<1>9. RingCounts'
  BY <1>2, <1>3, <1>4, <1>5, <1>6 DEF RingCounts, Rings
<1>10. RingHoldsUnacked'
  <2> SUFFICES ASSUME resB >= 0 PROVE RingHoldsUnacked'
    BY <1>2 DEF RingHoldsUnacked
  <2>1. /\ ring.use = Len(unacked) /\ acked + Len(unacked) = got /\ ~fin
        /\ \A k \in 1 .. Len(unacked) : unacked[k].pos = Place(ring.rp + (RingSize - 1) - (Len(unacked) - k))
    BY <1>2 DEF RingHoldsUnacked
  <2>2. ring'.use = Len(unacked') /\ acked' + Len(unacked') = got' /\ ~fin'
    BY <1>2, <1>4, <1>6, <1>7, <2>1
  <2>3. ASSUME NEW k \in 1 .. Len(unacked')
        PROVE  unacked'[k].pos = Place(ring'.rp + (RingSize - 1) - (Len(unacked') - k))
    <3>1. ring'.rp = ring.rp
      BY <1>3, <1>4, <1>6, <2>1
    <3>2. Len(unacked') - k = Len(unacked) - (k + n)
      BY <1>3, <1>4
    <3> QED BY <1>4, <2>1, <3>1, <3>2
  <2> QED BY <2>2, <2>3 DEF RingHoldsUnacked
<1>11. NothingOverwritten'
  <2>1. \A k \in 1 .. Len(unacked) : slot[unacked[k].pos] = unacked[k].n
    BY <1>3 DEF NothingOverwritten
  <2>2. DOMAIN unacked' = 1 .. Len(unacked')
    BY <1>4
  <2>3. ASSUME NEW k \in 1 .. Len(unacked')
        PROVE  slot'[unacked'[k].pos] = unacked'[k].n
    BY <1>2, <1>4, <2>1
  <2> QED BY <2>2, <2>3 DEF NothingOverwritten
<1>12. StreamInOrder'
  <2>0. acked \in Nat /\ n \in Nat /\ n <= Len(unacked) /\ acked' = acked + n /\ hasPcb' = hasPcb
    BY <1>1, <1>2, <1>3 DEF SpliceTypeOK
  <2>1. /\ \A j, k \in 1 .. Len(unacked) : j < k => unacked[j].n < unacked[k].n
        /\ \A k \in 1 .. Len(unacked) : unacked[k].n \in Nat /\ unacked[k].n >= acked + k
        /\ hasPcb /\ ring.use = Len(unacked) => \A k \in 1 .. Len(unacked) : unacked[k].n = acked + k
    <3>1. DOMAIN unacked = 1 .. Len(unacked) BY <1>3
    <3>2. \A k \in 1 .. Len(unacked) : unacked[k] \in Entries BY <1>3
    <3>3. \A k \in 1 .. Len(unacked) : unacked[k].n \in Nat BY <3>2 DEF Entries
    <3> QED BY <3>1, <3>3 DEF StreamInOrder
  <2>2. DOMAIN unacked' = 1 .. Len(unacked')
    BY <1>4
  <2>3. ASSUME NEW j \in 1 .. Len(unacked'), NEW k \in 1 .. Len(unacked'), j < k
        PROVE  unacked'[j].n < unacked'[k].n
    <3>1. j + n < k + n BY <2>0, <2>3
    <3> QED BY <1>4, <2>1, <3>1
  <2>4. ASSUME NEW k \in 1 .. Len(unacked')
        PROVE  unacked'[k].n >= acked' + k
    <3>1. unacked[k + n].n \in Nat /\ unacked[k + n].n >= acked + (k + n)
      BY <1>4, <2>1
    <3> QED BY <1>4, <2>0, <3>1
  <2>5. ASSUME hasPcb', ring'.use = Len(unacked'), NEW k \in 1 .. Len(unacked')
        PROVE  unacked'[k].n = acked' + k
    <3>1. ring.use = Len(unacked)
      <4>1. ring.use \in Nat BY <1>5 DEF Rings
      <4> QED BY <1>3, <1>4, <1>6, <2>0, <2>5, <4>1
    <3>2. unacked[k + n].n = acked + (k + n)
      BY <1>4, <2>0, <2>1, <2>5, <3>1
    <3> QED BY <1>4, <2>0, <3>2
  <2> QED BY <2>2, <2>3, <2>4, <2>5 DEF StreamInOrder
<1>13. CleanEndsAreComplete' /\ WindowIsReturned'
  <2>1. ring.use = Len(unacked) => ring'.use = Len(unacked')
    BY <1>3, <1>4, <1>6
  <2> QED BY <1>2, <1>7, <2>1 DEF CleanEndsAreComplete, WindowIsReturned
<1> QED BY <1>8, <1>9, <1>10, <1>11, <1>12, <1>13

(* q points to the bytes a + 1, a + 2, ... of the stream in a table, and its *)
(* last entry to the place before rp.                                      *)
Holds(q, table, a) == \A k \in 1 .. Len(q) : table[q[k].pos] = q[k].n /\ q[k].n = a + k

EndsAt(q, rp) == \A k \in 1 .. Len(q) : q[k].pos = Place(rp + (RingSize - 1) - (Len(q) - k))

FilledOn(new, old, rp, n, c) ==
    \A j \in 0 .. RingSize - 1 : new[Place(rp + j)] = IF j < n THEN c + j + 1 ELSE old[Place(rp + j)]

(* q points to bytes that are in a table, in the order of the stream and    *)
(* behind its byte a.                                                      *)
InTable(q, table) == \A k \in 1 .. Len(q) : table[q[k].pos] = q[k].n

Ordered(q, a) ==
    /\ \A j, k \in 1 .. Len(q) : j < k => q[j].n < q[k].n
    /\ \A k \in 1 .. Len(q) : q[k].n >= a + k

(* Reading n bytes into the ring and handing them, or a part of them, to    *)
(* lwIP: what it holds is still what is in the ring, in the order of the   *)
(* stream; when nothing was refused, it has no gap and ends at rp.         *)
LEMMA HandedOver ==
    ASSUME NEW q \in Seq(Entries), NEW Q \in Seq(Entries),
           NEW old \in [0 .. RingSize - 1 -> Nat], NEW new \in [0 .. RingSize - 1 -> Nat],
           NEW rp \in 0 .. RingSize - 1, NEW n \in Nat, NEW a \in Nat,
           Len(q) + n <= RingSize, Holds(q, old, a), EndsAt(q, rp),
           WroteOn(Q, q, new, rp, n), FilledOn(new, old, rp, n, a + Len(q))
    PROVE  /\ InTable(Q, new)
           /\ Ordered(Q, a)
           /\ Len(Q) = Len(q) + n => Holds(Q, new, a) /\ EndsAt(Q, Place(rp + n))
<1> USE SpliceAssumption
<1>0. PICK l \in Nat, m \in Nat : l = Len(q) /\ m = Len(Q)
  OBVIOUS
<1>1. PICK s \in 0 .. n : WroteFrom(Q, q, new, rp, n, s)
  BY DEF WroteOn
<1>2. /\ l + n <= RingSize /\ l <= m /\ s + m <= l + n
      /\ \A k \in 1 .. l : Q[k] = q[k]
      /\ \A k \in 1 .. m : k > l => Q[k].pos = Place(rp + s + (k - l - 1)) /\ Q[k].n = new[Q[k].pos]
  BY <1>0, <1>1 DEF WroteFrom
<1>3. /\ \A k \in 1 .. l : q[k].pos = Place(rp + (RingSize - 1) - (l - k))
      /\ \A k \in 1 .. l : old[q[k].pos] = q[k].n /\ q[k].n = a + k
  BY <1>0 DEF Holds, EndsAt
<1>4. \A j \in 0 .. RingSize - 1 :
        new[Place(rp + j)] = IF j < n THEN (a + l) + j + 1 ELSE old[Place(rp + j)]
  BY <1>0 DEF FilledOn
<1>5. ASSUME NEW k \in 1 .. m, k <= l
      PROVE  new[Q[k].pos] = Q[k].n /\ Q[k].n = a + k
  <2>1. PICK j : j = (RingSize - 1) - (l - k)
    OBVIOUS
  <2>2. j \in 0 .. RingSize - 1 /\ ~(j < n) /\ k \in 1 .. l
    BY <1>2, <1>5, <2>1
  <2>3. rp + (RingSize - 1) - (l - k) = rp + j
    BY <2>1, <2>2
  <2>4. q[k].pos = Place(rp + j)
    BY <1>3, <2>2, <2>3
  <2>5. new[Place(rp + j)] = old[Place(rp + j)]
    BY <1>4, <2>2
  <2> QED BY <1>2, <1>3, <2>2, <2>4, <2>5
<1>6. ASSUME NEW k \in 1 .. m, k > l
      PROVE  new[Q[k].pos] = Q[k].n /\ Q[k].n = a + s + k
  <2>1. PICK j : j = s + (k - l - 1)
    OBVIOUS
  <2>2. j \in 0 .. RingSize - 1 /\ j < n
    BY <1>2, <1>6, <2>1
  <2>3. rp + s + (k - l - 1) = rp + j
    BY <2>1
  <2>4. Q[k].pos = Place(rp + j) /\ Q[k].n = new[Q[k].pos]
    BY <1>2, <1>6, <2>3
  <2>5. new[Place(rp + j)] = (a + l) + j + 1
    BY <1>4, <2>2
  <2>6. (a + l) + j + 1 = a + s + k
    BY <2>1
  <2> QED BY <2>4, <2>5, <2>6
<1>7. InTable(Q, new)
  BY <1>0, <1>5, <1>6 DEF InTable
<1>8. Ordered(Q, a)
  <2>1. \A k \in 1 .. m : Q[k].n = a + k \/ Q[k].n = a + s + k
    <3> TAKE k \in 1 .. m
    <3>1. CASE k <= l BY <1>5, <3>1
    <3>2. CASE k > l BY <1>6, <3>2
    <3> QED BY <3>1, <3>2
  <2>2. \A k \in 1 .. m : k <= l => Q[k].n = a + k
    BY <1>5
  <2>3. \A k \in 1 .. m : k > l => Q[k].n = a + s + k
    BY <1>6
  <2>4. ASSUME NEW j \in 1 .. m, NEW k \in 1 .. m, j < k
        PROVE  Q[j].n < Q[k].n
    <3>1. CASE k <= l
      <4>1. Q[j].n = a + j /\ Q[k].n = a + k BY <2>2, <2>4, <3>1
      <4> QED BY <2>4, <4>1
    <3>2. CASE k > l
      <4>1. Q[k].n = a + s + k BY <2>3, <3>2
      <4>2. Q[j].n = a + j \/ Q[j].n = a + s + j BY <2>1
      <4>3. a + j < a + s + k /\ a + s + j < a + s + k BY <1>0, <2>4
      <4> QED BY <4>1, <4>2, <4>3
    <3> QED BY <3>1, <3>2
  <2>5. ASSUME NEW k \in 1 .. m
        PROVE  Q[k].n >= a + k
    <3>1. CASE Q[k].n = a + k BY <3>1
    <3>2. CASE Q[k].n = a + s + k BY <3>2
    <3> QED BY <2>1, <3>1, <3>2
  <2> QED BY <1>0, <2>4, <2>5 DEF Ordered
<1>9. ASSUME Len(Q) = Len(q) + n
      PROVE  s = 0 /\ m = l + n
  BY <1>0, <1>2, <1>9
<1>10. ASSUME Len(Q) = Len(q) + n
       PROVE  Holds(Q, new, a)
  <2>1. ASSUME NEW k \in 1 .. m
        PROVE  new[Q[k].pos] = Q[k].n /\ Q[k].n = a + k
    <3>1. CASE k <= l BY <1>5, <3>1
    <3>2. CASE k > l
      <4>1. a + s + k = a + k BY <1>9, <1>10
      <4> QED BY <1>6, <3>2, <4>1
    <3> QED BY <3>1, <3>2
  <2> QED BY <1>0, <2>1 DEF Holds
<1>11. ASSUME Len(Q) = Len(q) + n, NEW k \in 1 .. m
       PROVE  Q[k].pos = Place(Place(rp + n) + (RingSize - 1) - (m - k))
  <2>0. s = 0 /\ m = l + n
    BY <1>9, <1>11
  <2>1. PICK b : b = (RingSize - 1) - (m - k)
    OBVIOUS
  <2>2. b \in Nat /\ b < RingSize /\ rp + n \in Nat /\ rp + n < RingSize + RingSize
    BY <1>2, <2>0, <2>1
  <2>3. Place(Place(rp + n) + b) = Place((rp + n) + b)
    BY <2>2, PlaceSums
  <2>4. Place(rp + n) + (RingSize - 1) - (m - k) = Place(rp + n) + b
    <3>1. Place(rp + n) \in Nat
      <4>1. Place(rp + n) \in 0 .. RingSize - 1 BY <2>2, PlaceFacts
      <4> QED BY <4>1
    <3> QED BY <2>1, <2>2, <3>1
  <2>5. CASE k <= l
    <3>1. (rp + n) + b = rp + (RingSize - 1) - (l - k)
      BY <2>0, <2>1
    <3>2. Q[k] = q[k] /\ q[k].pos = Place(rp + (RingSize - 1) - (l - k))
      <4>1. k \in 1 .. l BY <2>5
      <4> QED BY <1>2, <1>3, <4>1, SMTT(30)
    <3> QED BY <2>3, <2>4, <3>1, <3>2
  <2>6. CASE k > l
    <3>1. PICK i : i = rp + (k - l - 1)
      OBVIOUS
    <3>2. i \in Nat /\ i < RingSize + RingSize /\ (rp + n) + b = i + RingSize
      <4>1. k <= l + n /\ l + n <= RingSize /\ RingSize \in Nat BY <1>2, <2>0
      <4>2. i \in Nat /\ i < RingSize + RingSize BY <2>6, <3>1, <4>1
      <4>3. b = (RingSize - 1) - ((l + n) - k) BY <2>0, <2>1
      <4> QED BY <2>6, <3>1, <4>1, <4>2, <4>3
    <3>3. Place(i + RingSize) = Place(i)
      BY <3>2, PlaceSums
    <3>4. rp + s + (k - l - 1) = i
      BY <2>0, <3>1
    <3> QED BY <1>2, <2>3, <2>4, <2>6, <3>2, <3>3, <3>4
  <2> QED BY <2>5, <2>6
<1>12. ASSUME Len(Q) = Len(q) + n
       PROVE  EndsAt(Q, Place(rp + n))
  BY <1>0, <1>11, <1>12 DEF EndsAt
<1> QED BY <1>7, <1>8, <1>10, <1>12

(* tcp_splice_b with a pcb: what was read is handed over, or a part of it.  *)
LEMMA BackwardKeeps ==
    ASSUME SpliceIInv, hasPcb, resB >= 0, NEW n \in 0 .. Space(ring), NEW res \in -1 .. 1,
           got' = got + n, slot' = Filled(n), HandOver(WriteFinish(ring, n), slot', res),
           UNCHANGED <<acked, clientSide, hasPcb, ended, resF>>, at' = LoopsTo(resF, resB')
    PROVE  SpliceIInv'
<1> USE SpliceAssumption DEF SpliceIInv
<1>1. /\ ring \in Rings /\ unacked \in Seq(Entries) /\ got \in Nat /\ acked \in Nat
      /\ resF \in -1 .. 1 /\ slot \in [0 .. RingSize - 1 -> Nat]
  BY DEF SpliceTypeOK, Rings, Entries
<1>2. PICK rp \in 0 .. RingSize - 1, l \in 0 .. RingSize : rp = ring.rp /\ l = ring.use
  BY <1>1 DEF Rings
<1>3. /\ ring.rda = 0 /\ l = Len(unacked) /\ ring.wp = rp /\ acked + l = got /\ ~fin
      /\ EndsAt(unacked, rp)
  <2>1. Place(rp + 0) = rp BY <1>2, PlaceFacts
  <2> QED BY <1>1, <1>2, <2>1 DEF RingCounts, RingHoldsUnacked, EndsAt
<1>4. n \in Nat /\ l + n <= RingSize
  BY <1>2 DEF Space
<1>5. slot' \in [0 .. RingSize - 1 -> Nat] /\ FilledOn(slot', slot, rp, n, acked + Len(unacked))
  <2>1. n \in 0 .. RingSize BY <1>2, <1>4
  <2>2. /\ slot' \in [0 .. RingSize - 1 -> Nat]
        /\ \A j \in 0 .. RingSize - 1 :
             slot'[Place(ring.wp + j)] = IF j < n THEN got + j + 1 ELSE slot[Place(ring.wp + j)]
    BY <2>1, FilledFacts
  <2> QED BY <1>3, <2>2 DEF FilledOn
<1>6. PICK r : r = WriteFinish(ring, n)
  OBVIOUS
<1>7. r \in Rings /\ r.rp = rp /\ r.wp = Place(rp + n) /\ r.rda = n /\ r.use = l + n
  <2>1. Place(rp + n) \in 0 .. RingSize - 1
    BY <1>4, PlaceFacts
  <2>2. l + n \in 0 .. RingSize /\ 0 + n = n /\ n \in 0 .. RingSize
    BY <1>2, <1>4
  <2>3. r = [ring EXCEPT !.wp = Place(rp + n), !.use = l + n, !.rda = 0 + n]
    BY <1>2, <1>3, <1>6 DEF WriteFinish
  <2> QED BY <1>1, <1>2, <2>1, <2>2, <2>3 DEF Rings
<1>8. PICK m : m = Len(unacked')
  OBVIOUS
<1>9. /\ unacked' \in TcpWriteAll(unacked, slot', Chunks(r))
      /\ ring' = ReadFinish(r)
      /\ fin' = (fin \/ (Chunks(r) = <<>> /\ res < 0))
      /\ resB' \in CASE Len(unacked') < Len(unacked) + r.rda -> {-1} [] Chunks(r) = <<>> -> {res} [] OTHER -> {1, -1}
  BY <1>6 DEF HandOver
<1>10. Chunks(r) = <<>> <=> n = 0
  BY <1>7 DEF Chunks
<1>11. WroteOn(unacked', unacked, slot', rp, n)
  BY <1>1, <1>5, <1>7, <1>9, TcpWriteAllFacts
<1>12. unacked' \in Seq(Entries) /\ m \in Nat /\ l <= m /\ m <= l + n
  <2>1. PICK s \in 0 .. n : WroteFrom(unacked', unacked, slot', rp, n, s)
    BY <1>11 DEF WroteOn
  <2>2. unacked' \in Seq(Entries) /\ Len(unacked') >= Len(unacked) /\ s + Len(unacked') <= Len(unacked) + n
    BY <2>1 DEF WroteFrom
  <2> QED BY <1>2, <1>3, <1>4, <1>8, <2>2
<1>13. /\ resB' \in -1 .. 1
       /\ resB' >= 0 => m = l + n /\ (n = 0 => res >= 0)
  <2>1. CASE m < l + n
    <3>1. Len(unacked') < Len(unacked) + r.rda BY <1>3, <1>7, <1>8, <2>1
    <3>2. Chunks(r) # <<>> BY <1>2, <1>4, <1>10, <1>12, <2>1
    <3>3. resB' \in {-1} BY <1>9, <3>1, <3>2
    <3> QED BY <3>3, <2>1
  <2>2. CASE ~(m < l + n) /\ n = 0 BY <1>3, <1>7, <1>8, <1>9, <1>10, <1>12, <2>2
  <2>3. CASE ~(m < l + n) /\ n # 0 BY <1>3, <1>4, <1>7, <1>8, <1>9, <1>10, <1>12, <2>3
  <2> QED BY <2>1, <2>2, <2>3
<1>14. fin' = (n = 0 /\ res < 0)
  BY <1>3, <1>9, <1>10
<1>15. /\ InTable(unacked', slot')
       /\ Ordered(unacked', acked)
       /\ m = l + n => Holds(unacked', slot', acked) /\ EndsAt(unacked', Place(rp + n))
  <2>1. Holds(unacked, slot, acked)
    <3>1. DOMAIN unacked = 1 .. Len(unacked) BY <1>1
    <3>2. ring.use = Len(unacked) BY <1>2, <1>3
    <3> QED BY <3>1, <3>2 DEF NothingOverwritten, StreamInOrder, Holds
  <2>2. Len(unacked) + n <= RingSize
    BY <1>3, <1>4
  <2>3. /\ InTable(unacked', slot')
        /\ Ordered(unacked', acked)
        /\ Len(unacked') = Len(unacked) + n => Holds(unacked', slot', acked) /\ EndsAt(unacked', Place(rp + n))
    <3>1. unacked \in Seq(Entries) /\ unacked' \in Seq(Entries) BY <1>1, <1>12
    <3>2. slot \in [0 .. RingSize - 1 -> Nat] /\ slot' \in [0 .. RingSize - 1 -> Nat]
      BY <1>1, <1>5
    <3>3. rp \in 0 .. RingSize - 1 /\ n \in Nat /\ acked \in Nat BY <1>1, <1>4
    <3>4. EndsAt(unacked, rp) BY <1>3
    <3>5. FilledOn(slot', slot, rp, n, acked + Len(unacked)) BY <1>5
    <3> HIDE DEF SpliceIInv
    <3> QED BY <1>11, <2>1, <2>2, <3>1, <3>2, <3>3, <3>4, <3>5, HandedOver, ZenonT(60)
  <2> QED BY <1>3, <1>8, <2>3
<1>16. /\ ring' \in Rings /\ ring'.rp = Place(rp + n) /\ ring'.wp = Place(rp + n)
       /\ ring'.rda = 0 /\ ring'.use = l + n
  <2>1. ring' = [r EXCEPT !.rp = Place(rp + n), !.rda = 0]
    BY <1>7, <1>9 DEF ReadFinish
  <2>2. Place(rp + n) \in 0 .. RingSize - 1 /\ 0 \in 0 .. RingSize
    BY <1>4, PlaceFacts
  <2> QED BY <1>7, <2>1, <2>2 DEF Rings
<1>17. /\ UNCHANGED <<acked, fromClient, pbufs, window, eof, shut, hasPcb, ended, resF>>
       /\ at' \in {"f", "b", "drain", "over", "freed"} \cup Yielded
  BY DEF clientSide, LoopsTo, Yielded
<1>18. SpliceTypeOK'
  <2>1. fin' \in BOOLEAN BY <1>14
  <2>2. got' \in Nat BY <1>1, <1>4
  <2> QED BY <1>5, <1>12, <1>13, <1>16, <1>17, <2>1, <2>2 DEF SpliceTypeOK, Rings, Entries
<1>19. RingCounts'
  <2>1. Place(ring'.rp + ring'.rda) = ring'.wp
    <3>1. PICK i \in 0 .. RingSize - 1 : i = Place(rp + n) BY <1>4, PlaceFacts
    <3>2. Place(i + 0) = i BY <3>1, PlaceFacts
    <3> QED BY <3>1, <3>2, <1>16
  <2> QED BY <1>8, <1>12, <1>16, <1>17, <2>1 DEF RingCounts
<1>20. ASSUME resB' >= 0
       PROVE  RingHoldsUnacked'
  <2>1. m = l + n /\ ~fin'
    <3>1. m = l + n /\ (n = 0 => res >= 0) BY <1>13, <1>20
    <3>2. ~(n = 0 /\ res < 0) BY <3>1
    <3> QED BY <1>14, <3>1, <3>2
  <2>2. ring'.use = Len(unacked') /\ acked' + Len(unacked') = got'
    <3>1. acked + (l + n) = got + n BY <1>1, <1>2, <1>3, <1>4, SMTT(30)
    <3> QED BY <1>8, <1>16, <1>17, <2>1, <3>1
  <2>3. \A k \in 1 .. Len(unacked') :
          unacked'[k].pos = Place(ring'.rp + (RingSize - 1) - (Len(unacked') - k))
    BY <1>15, <1>16, <2>1 DEF EndsAt
  <2> QED BY <2>1, <2>2, <2>3 DEF RingHoldsUnacked
<1>21. RingHoldsUnacked'
  BY <1>20 DEF RingHoldsUnacked
<1>22. NothingOverwritten' /\ StreamInOrder'
  <2>1. DOMAIN unacked' = 1 .. m /\ DOMAIN unacked' = 1 .. Len(unacked')
    BY <1>8, <1>12
  <2>2. acked' = acked BY <1>17
  <2>3. NothingOverwritten'
    BY <1>15, <2>1 DEF NothingOverwritten, InTable
  <2>4. ring'.use = Len(unacked') => \A k \in 1 .. m : unacked'[k].n = acked + k
    <3>1. ring'.use = Len(unacked') => m = l + n BY <1>8, <1>16
    <3> QED BY <1>8, <1>15, <3>1 DEF Holds
  <2>5. StreamInOrder'
    BY <1>8, <1>15, <2>1, <2>2, <2>4 DEF StreamInOrder, Ordered
  <2> QED BY <2>3, <2>5
<1>23. CleanEndsAreComplete' /\ WindowIsReturned'
  <2>1. fin' => ring'.use = Len(unacked') /\ acked' + Len(unacked') = got'
    <3>1. CASE n = 0
      <4>1. m = l /\ ring'.use = l BY <1>2, <1>12, <1>16, <3>1
      <4> QED BY <1>1, <1>2, <1>3, <1>8, <1>17, <3>1, <4>1
    <3>2. CASE n # 0 BY <1>14, <3>2
    <3> QED BY <3>1, <3>2
  <2> QED BY <1>17, <2>1 DEF CleanEndsAreComplete, WindowIsReturned
<1> QED BY <1>18, <1>19, <1>21, <1>22, <1>23

(* tcp_splice_b, whether there is a pcb or not.                            *)
LEMMA BackwardStep ==
    ASSUME SpliceIInv, SpliceBackward
    PROVE  SpliceIInv'
<1> USE SpliceAssumption DEF SpliceIInv
<1>1. /\ UNCHANGED <<fromClient, pbufs, window, eof, shut, hasPcb, ended, resF>>
      /\ UNCHANGED clientSide
      /\ at' = LoopsTo(resF, resB') /\ at' \in {"f", "b", "drain", "over", "freed"} \cup Yielded
  BY DEF SpliceBackward, clientSide, LoopsTo, Yielded
<1>2. CASE resB < 0 /\ UNCHANGED <<serverSide, resB>>
  <2>1. UNCHANGED <<ring, slot, got, unacked, acked, hasPcb, resB>> /\ fin' = fin
    BY <1>1, <1>2 DEF serverSide
  <2>2. SpliceTypeOK'
    BY <1>1, <2>1 DEF SpliceTypeOK
  <2> QED BY <1>1, <2>1, <2>2, ServerSideKept DEF CleanEndsAreComplete, WindowIsReturned
<1>3. CASE ~(resB < 0 /\ UNCHANGED <<serverSide, resB>>)
  <2>1. PICK read \in Reads :
          /\ resB >= 0
          /\ got' = got + read.n
          /\ slot' = Filled(read.n)
          /\ IF hasPcb
             THEN HandOver(WriteFinish(ring, read.n), slot', read.res)
             ELSE ring' = WriteFinish(ring, read.n) /\ resB' = -1 /\ UNCHANGED <<unacked, fin>>
          /\ UNCHANGED acked
    BY <1>3 DEF SpliceBackward
  <2>2. PICK n, res : n = read.n /\ res = read.res
    OBVIOUS
  <2>3. ring.use \in 0 .. RingSize /\ Space(ring) \in Nat /\ got \in Nat
    BY DEF SpliceTypeOK, Space
  <2>4. n \in 0 .. Space(ring) /\ res \in -1 .. 1
    <3>1. 0 \in 0 .. Space(ring)
      BY <2>3
    <3>2. \A i \in 1 .. (IF Space(ring) < ServerBytes - got THEN Space(ring) ELSE ServerBytes - got) :
            i \in 0 .. Space(ring)
      BY <2>3
    <3> QED BY <2>2, <3>1, <3>2 DEF Reads
  <2>5. CASE hasPcb
    <3>1. HandOver(WriteFinish(ring, n), slot', res)
      BY <2>1, <2>2, <2>5
    <3>2. got' = got + n /\ slot' = Filled(n) /\ resB >= 0 /\ acked' = acked
      BY <2>1, <2>2
    <3> QED BY <1>1, <2>4, <2>5, <3>1, <3>2, BackwardKeeps
  <2>6. CASE ~hasPcb
    <3>1. /\ ring' = WriteFinish(ring, n) /\ resB' = -1 /\ UNCHANGED <<unacked, fin, acked>>
          /\ got' = got + n /\ slot' = Filled(n) /\ resB >= 0
      BY <2>1, <2>2, <2>6
    <3>2. /\ ring \in Rings /\ ring.rda = 0 /\ unacked = <<>> /\ Len(unacked) = 0
          /\ ring.wp = Place(ring.rp)
      BY <2>6, <3>1 DEF RingCounts, SpliceTypeOK, Rings
    <3>3. PICK rp \in 0 .. RingSize - 1 : rp = ring.rp
      BY <3>2 DEF Rings
    <3>4. ring.wp = rp /\ n \in 0 .. RingSize /\ Place(rp + n) \in 0 .. RingSize - 1
      <4>1. n \in 0 .. RingSize BY <2>3, <2>4 DEF Space
      <4> QED BY <3>2, <3>3, <4>1, PlaceFacts
    <3>5. /\ ring' \in Rings /\ ring'.rp = rp /\ ring'.wp = Place(rp + n)
          /\ ring'.rda = n /\ ring'.use = ring.use + n
      <4>1. ring' = [ring EXCEPT !.wp = Place(rp + n), !.use = ring.use + n, !.rda = n]
        <5>1. 0 + n = n BY <3>4
        <5> QED BY <3>1, <3>2, <3>4, <5>1 DEF WriteFinish
      <4>2. ring.use + n \in 0 .. RingSize
        BY <2>3, <2>4 DEF Space
      <4> QED BY <3>2, <3>3, <3>4, <4>1, <4>2 DEF Rings
    <3>6. slot' \in [0 .. RingSize - 1 -> Nat] /\ got' \in Nat
      <4>1. SpliceTypeOK /\ n \in 0 .. RingSize BY <3>4
      <4>2. Filled(n) \in [0 .. RingSize - 1 -> Nat] BY <4>1, FilledFacts
      <4>3. got + n \in Nat BY <2>3, <3>4
      <4> QED BY <3>1, <4>2, <4>3
    <3>7. SpliceTypeOK'
      <4>1. resB' \in -1 .. 1 BY <3>1
      <4>2. unacked' \in Seq([pos : 0 .. RingSize - 1, n : Nat]) BY <3>1 DEF SpliceTypeOK
      <4> QED BY <1>1, <3>1, <3>5, <3>6, <4>1, <4>2 DEF SpliceTypeOK, Rings
    <3>8. RingCounts'
      <4>1. ring'.rda <= ring'.use /\ Len(unacked') <= ring'.use
        BY <2>3, <3>1, <3>2, <3>4, <3>5
      <4> QED BY <1>1, <2>6, <3>1, <3>2, <3>5, <4>1 DEF RingCounts
    <3>9. RingHoldsUnacked' /\ NothingOverwritten' /\ StreamInOrder' /\ CleanEndsAreComplete' /\ WindowIsReturned'
      BY <1>1, <2>6, <3>1, <3>2
         DEF RingHoldsUnacked, NothingOverwritten, StreamInOrder, CleanEndsAreComplete, WindowIsReturned
    <3> QED BY <3>7, <3>8, <3>9
  <2> QED BY <2>5, <2>6
<1> QED BY <1>2, <1>3

LEMMA SpliceStep ==
    ASSUME SpliceIInv, [SpliceNext]_spliceVars
    PROVE  SpliceIInv'
<1> USE SpliceAssumption DEF SpliceIInv
<1>1. ASSUME UNCHANGED <<ring, slot, got, unacked, acked, hasPcb, resB>>, fin' = fin,
             UNCHANGED <<shut, resF>>, ended' \in BOOLEAN, eof' \in BOOLEAN, eof => eof',
             fromClient' \in Nat, pbufs' \in Nat, window' \in Nat,
             at' \in {"f", "b", "drain", "over", "freed"} \cup Yielded,
             shut => pbufs' = 0, hasPcb => window' + pbufs' = RcvWindow
      PROVE  SpliceIInv'
  <2>1. SpliceTypeOK'
    BY <1>1 DEF SpliceTypeOK
  <2>2. CleanEndsAreComplete' /\ WindowIsReturned'
    BY <1>1 DEF CleanEndsAreComplete, WindowIsReturned
  <2> QED BY <1>1, <2>1, <2>2, ServerSideKept
<1> USE DEF SpliceTypeOK, CleanEndsAreComplete, WindowIsReturned
<1>2. CASE SpliceForward BY <1>2, ForwardKeeps
<1>3. CASE SpliceBackward BY <1>3, BackwardStep
<1>4. CASE ClientAcks BY <1>4, AcksKeep
<1>5. CASE SpliceResumes \/ Drains \/ SpliceSocketReady \/ SpliceTimesOut
  <2>1. UNCHANGED <<ring, slot, got, unacked, acked, fin, fromClient, pbufs, window, eof, shut, hasPcb, ended, resF, resB>>
    BY <1>5 DEF SpliceResumes, Drains, SpliceSocketReady, SpliceTimesOut, serverSide, clientSide
  <2>2. at' \in {"f", "b", "drain", "over", "freed"} \cup Yielded
    <3>1. CASE SpliceResumes BY <3>1 DEF SpliceResumes
    <3>2. CASE Drains BY <3>2 DEF Drains, Yielded
    <3>3. CASE SpliceSocketReady BY <3>3 DEF SpliceSocketReady, Wakes
    <3>4. CASE SpliceTimesOut BY <3>4 DEF SpliceTimesOut
    <3> QED BY <1>5, <3>1, <3>2, <3>3, <3>4
  <2> QED BY <1>1, <2>1, <2>2
<1>6. CASE SpliceTerminated
  <2>1. UNCHANGED <<ring, slot, got, unacked, acked, fin, fromClient, pbufs, window, eof, shut, hasPcb, resF, resB>>
    BY <1>6 DEF SpliceTerminated, serverSide, clientSide
  <2>2. ended' \in BOOLEAN /\ at' \in {"f", "b", "drain", "over", "freed"} \cup Yielded
    BY <1>6 DEF SpliceTerminated, Wakes, Yielded
  <2> QED BY <1>1, <2>1, <2>2
<1>7. CASE ClientSends
  <2>1. UNCHANGED <<ring, slot, got, unacked, acked, fin, eof, shut, hasPcb, ended, resF, resB>>
    BY <1>7 DEF ClientSends, serverSide
  <2>2. /\ hasPcb /\ ~eof /\ window > 0
        /\ fromClient' = fromClient + 1 /\ pbufs' = pbufs + 1 /\ window' = window - 1
    BY <1>7 DEF ClientSends
  <2>3. fromClient' \in Nat /\ pbufs' \in Nat /\ window' \in Nat /\ window' + pbufs' = RcvWindow
    <3>1. window + pbufs = RcvWindow /\ window \in Nat /\ pbufs \in Nat /\ fromClient \in Nat
      BY <2>2
    <3> QED BY <2>2, <3>1
  <2>4. at' \in {"f", "b", "drain", "over", "freed"} \cup Yielded
    BY <1>7 DEF ClientSends, Wakes, Yielded
  <2>5. ~shut BY <2>2
  <2> QED BY <1>1, <2>1, <2>3, <2>4, <2>5
<1>8. CASE ClientCloses
  <2>1. UNCHANGED <<ring, slot, got, unacked, acked, fin, fromClient, pbufs, window, shut, hasPcb, ended, resF, resB>>
    BY <1>8 DEF ClientCloses, serverSide
  <2>2. eof' = TRUE /\ at' \in {"f", "b", "drain", "over", "freed"} \cup Yielded
    BY <1>8 DEF ClientCloses, Wakes, Yielded
  <2> QED BY <1>1, <2>1, <2>2
<1>9. CASE ClientResets \/ Destructs
  <2>1. /\ UNCHANGED <<ring, slot, got, acked, fin, fromClient, window, eof, shut, resF, resB>>
        /\ hasPcb' = FALSE /\ unacked' = <<>> /\ Len(unacked') = 0
    BY <1>9 DEF ClientResets, Destructs, clientSide
  <2>2. /\ pbufs' \in Nat /\ (shut => pbufs' = 0) /\ ended' \in BOOLEAN
        /\ at' \in {"f", "b", "drain", "over", "freed"} \cup Yielded
    <3>1. CASE ClientResets BY <3>1 DEF ClientResets, clientSide, Wakes, Yielded
    <3>2. CASE Destructs BY <3>2 DEF Destructs
    <3> QED BY <1>9, <3>1, <3>2
  <2>3. SpliceTypeOK'
    <3>1. hasPcb' \in BOOLEAN BY <2>1
    <3>2. <<>> \in Seq([pos : 0 .. RingSize - 1, n : Nat]) OBVIOUS
    <3> QED BY <2>1, <2>2, <3>1, <3>2
  <2>4. RingCounts'
    BY <2>1 DEF RingCounts
  <2>5. RingHoldsUnacked' /\ CleanEndsAreComplete' /\ WindowIsReturned'
    BY <2>1, <2>2 DEF RingHoldsUnacked
  <2>6. NothingOverwritten' /\ StreamInOrder'
    <3>1. DOMAIN unacked' = {} BY <2>1
    <3> QED BY <3>1 DEF NothingOverwritten, StreamInOrder
  <2> QED BY <2>3, <2>4, <2>5, <2>6
<1>10. CASE UNCHANGED spliceVars
  BY <1>1, <1>10 DEF spliceVars
<1> QED BY <1>2, <1>3, <1>4, <1>5, <1>6, <1>7, <1>8, <1>9, <1>10 DEF SpliceNext, SpliceTask

(* The ring, what lwIP points to, the stream's counts and the client's      *)
(* window agree at every step of a splice.                                 *)
THEOREM SpliceInvariance == SpliceSpec => []SpliceIInv
BY SpliceInitial, SpliceStep, PTL DEF SpliceSpec

(* No byte that lwIP may still have to send again is overwritten in a ring  *)
(* of any size, the ring's counters fit what is in it, and the client's     *)
(* window does not shrink for good.                                        *)
THEOREM SpliceInvTheorem == SpliceSpec => []SpliceInv
<1>1. SpliceIInv => SpliceInv
  <2> SUFFICES ASSUME SpliceIInv PROVE SpliceInv
    OBVIOUS
  <2>1. RingAccounts
    BY DEF SpliceIInv, RingCounts, RingHoldsUnacked, RingAccounts
  <2> QED BY <2>1 DEF SpliceIInv, SpliceInv
<1> QED BY SpliceInvariance, <1>1, PTL

(* The client receives the bytes of the server in order and none twice,     *)
(* without a gap as long as lwIP has refused nothing, and an end that looks *)
(* clean to either side is complete - whichever chunks lwIP refuses, and    *)
(* over any number of failed packets, time-outs and resets.                *)
THEOREM StreamIsWholeTheorem == SpliceSpec => []StreamIsWhole
<1>1. SpliceIInv => StreamIsWhole
  BY DEF SpliceIInv, StreamIsWhole
<1> QED BY SpliceInvariance, <1>1, PTL

=============================================================================
