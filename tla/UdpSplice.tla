------------------------------- MODULE UdpSplice -------------------------------
(***************************************************************************)
(* The splice of one UDP session, as the app configures it (udp: 'udp'):   *)
(* datagrams of the client wait in a pool and go to the server in batches; *)
(* datagrams of the server go straight to lwIP; and the TCP connection     *)
(* over which the association was made has to stay open.                   *)
(* src/hev-socks5-session-udp.c, src/core/src/hev-socks5-udp.c.            *)
(*                                                                         *)
(* The client's datagrams are numbered 1, 2, ... as they arrive.  UDP has  *)
(* no duty to deliver: what counts is what the session does to them.       *)
(***************************************************************************)
EXTENDS Integers, Sequences, SequencesExt

CONSTANTS
    PoolSize,         \* UDP_POOL_SIZE
    Batch,            \* udp-copy-buffer-nums
    ClientDatagrams,  \* datagrams the client sends that find room; more of them find none
    SocketRoom        \* datagrams of the server that the socket's buffer holds

ASSUME PoolAssumption ==
    /\ PoolSize \in Nat /\ Batch \in Nat \ {0}
    /\ ClientDatagrams \in Nat /\ SocketRoom \in Nat

VARIABLES
    frames,    \* frame_list: the numbers of the datagrams that wait
    arrived,   \* datagrams of the client that found room so far
    sentUp,    \* those that were sent to the server, in this order
    inSocket,  \* datagrams of the server that can be read
    talks,     \* it may send more
    control,   \* the connection of the association: "open", "closed"
    silenced,  \* the session's timeout is 0
    taken,     \* the size of the batch that sendmmsg was given; 0 outside of it
    done,      \* how many of them it has sent
    upRes, downRes,  \* res_f and res_b
    stage      \* where the task is

udpVars == <<frames, arrived, sentUp, inSocket, talks, control, silenced,
             taken, done, upRes, downRes, stage>>

pool == <<frames, arrived, sentUp, taken, done, upRes>>
server == <<inSocket, talks, downRes>>

UdpYielded == {"idle", "sendWaiting", "paused"}

UdpInit ==
    /\ frames = <<>> /\ arrived = 0 /\ sentUp = <<>>
    /\ inSocket = 0 /\ talks = TRUE
    /\ control = "open" /\ silenced = FALSE
    /\ taken = 0 /\ done = 0
    /\ upRes = 1 /\ downRes = 1
    /\ stage = "up"

Drop(n, seq) == SubSeq(seq, n + 1, Len(seq))
AtMost(n, m) == IF n < m THEN n ELSE m

-----------------------------------------------------------------------------
(* Waking and yielding *)

(* hev_task_wakeup, if the task sleeps *)
UdpWakes ==
    stage' = CASE stage = "idle" -> "up" [] stage = "sendWaiting" -> "sending" [] OTHER -> stage

(* task_io_yielder returns 0, after a turn of the others ("paused") or     *)
(* a sleep: not when the control connection has ended, nor instead of a    *)
(* sleep of a terminated session.                                          *)
Yields0(st) == control = "open" /\ (st = "paused" \/ ~silenced)

(* It terminates the session when it finds that connection closed. *)
Notices == silenced' = (silenced \/ control = "closed")

-----------------------------------------------------------------------------
(* hev_socks5_session_udp_fwd_f *)

TakesBatch ==
    /\ stage = "up" /\ upRes >= 0 /\ frames # <<>>
    /\ stage' = "sending" /\ taken' = AtMost(Len(frames), Batch)
    /\ UNCHANGED <<frames, arrived, sentUp, done, upRes, server, control, silenced>>

NothingToSend ==
    /\ stage = "up" /\ (upRes < 0 \/ frames = <<>>)
    /\ stage' = "down" /\ upRes' = IF upRes < 0 THEN upRes ELSE 0
    /\ UNCHANGED <<frames, arrived, sentUp, taken, done, server, control, silenced>>

(* Mutant: the whole batch leaves the pool. *)
SendReturnsAll(n) ==
    /\ frames' = Drop(taken, frames)
    /\ upRes' = IF n > 0 THEN 1 ELSE -1
    /\ stage' = "down" /\ taken' = 0 /\ done' = 0

(* sendmmsg returns n: the frames that were sent leave the pool, and none  *)
(* is an error, which ends this direction for good.                        *)
SendReturns(n) ==
    /\ frames' = Drop(n, frames)
    /\ upRes' = IF n > 0 THEN 1 ELSE -1
    /\ stage' = "down" /\ taken' = 0 /\ done' = 0

(* hev_task_io_socket_sendmmsg: the socket takes some of them ... *)
SendsSome ==
    /\ stage = "sending"
    /\ \E k \in 1 .. taken - done :
         /\ sentUp' = sentUp \o SubSeq(frames, done + 1, done + k)
         /\ IF done + k = taken
            THEN SendReturns(taken)
            ELSE done' = done + k /\ UNCHANGED <<frames, taken, upRes, stage>>
    /\ UNCHANGED <<arrived, server, control, silenced>>

(* ... or none now: the task waits, unless the yielder returns -1 ...      *)
SendBlocks ==
    /\ stage = "sending" /\ Notices
    /\ IF Yields0("sendWaiting")
       THEN stage' = "sendWaiting" /\ UNCHANGED <<frames, taken, done, upRes>>
       ELSE SendReturns(done)
    /\ UNCHANGED <<arrived, sentUp, server, control>>

(* ... or it fails, ... *)
SendFails ==
    /\ stage = "sending" /\ SendReturns(done)
    /\ UNCHANGED <<arrived, sentUp, server, control, silenced>>

(* ... or the wait takes longer than the timeout. *)
SendTimesOut ==
    /\ stage = "sendWaiting" /\ SendReturns(done)
    /\ UNCHANGED <<arrived, sentUp, server, control, silenced>>

-----------------------------------------------------------------------------
(* hev_socks5_session_udp_fwd_b, the loop's choice and its yield *)

(* A batch of replies that lwIP takes; or one it does not, because the tun *)
(* is full, say, which ends this direction, as a failed read does.         *)
Replies ==
    \/ downRes < 0 /\ UNCHANGED server
    \/ /\ downRes >= 0 /\ UNCHANGED talks
       /\ \/ inSocket = 0 /\ downRes' = 0 /\ UNCHANGED inSocket
          \/ \E n \in 1 .. AtMost(inSocket, Batch) : inSocket' = inSocket - n /\ downRes' \in {1, -1}
          \/ downRes' = -1 /\ UNCHANGED inSocket

LoopYields(u, d) ==
    IF u > 0 \/ d > 0 THEN "paused" ELSE IF u = 0 \/ d = 0 THEN "idle" ELSE "over"

Down ==
    /\ stage = "down" /\ Replies
    /\ LET st == LoopYields(upRes, downRes') IN
         IF st = "over" THEN stage' = st /\ UNCHANGED silenced
         ELSE stage' = (IF Yields0(st) THEN st ELSE "over") /\ Notices
    /\ UNCHANGED <<pool, control>>

UdpResumes == stage = "paused" /\ stage' = "up" /\ UNCHANGED <<pool, server, control, silenced>>

(* The sleep has lasted its time. *)
UdpTimesOut == stage = "idle" /\ stage' = "over" /\ UNCHANGED <<pool, server, control, silenced>>

(* A socket is ready. *)
UdpSocketReady ==
    /\ stage = "sendWaiting" /\ UdpWakes
    /\ UNCHANGED <<pool, server, control, silenced>>

-----------------------------------------------------------------------------
(* Everybody else, while the task has yielded *)

(* The test of udp_recv_handler, which lets one more in than the pool's size. *)
PoolHasRoom == Len(frames) <= PoolSize

(* udp_recv_handler for a datagram that finds room ... *)
ClientDatagram ==
    /\ stage \in UdpYielded /\ arrived < ClientDatagrams
    /\ PoolHasRoom
    /\ arrived' = arrived + 1 /\ frames' = Append(frames, arrived + 1)
    /\ UdpWakes
    /\ UNCHANGED <<sentUp, taken, done, upRes, server, control, silenced>>

(* Mutant: the task is woken although the datagram is dropped. *)
DatagramDroppedLoudly ==
    /\ stage \in UdpYielded /\ ~PoolHasRoom
    /\ UdpWakes
    /\ UNCHANGED <<pool, server, control, silenced>>

(* ... and for one that does not: nobody is told. *)
DatagramDropped ==
    /\ stage \in UdpYielded /\ ~PoolHasRoom
    /\ UNCHANGED udpVars

ServerDatagram ==
    /\ stage \in UdpYielded /\ talks /\ inSocket < SocketRoom
    /\ inSocket' = inSocket + 1
    /\ UdpWakes
    /\ UNCHANGED <<pool, talks, downRes, control, silenced>>

ServerFallsSilent == talks /\ talks' = FALSE /\ UNCHANGED <<pool, inSocket, downRes, control, silenced, stage>>

ControlCloses ==
    /\ stage \in UdpYielded /\ control = "open"
    /\ control' = "closed"
    /\ UdpWakes
    /\ UNCHANGED <<pool, server, silenced>>

(* hev_socks5_session_terminate *)
UdpTerminated ==
    /\ stage \in UdpYielded /\ ~silenced
    /\ silenced' = TRUE
    /\ UdpWakes
    /\ UNCHANGED <<pool, server, control>>

-----------------------------------------------------------------------------

UdpTask ==
    \/ TakesBatch \/ NothingToSend \/ SendsSome \/ SendBlocks \/ SendFails
    \/ Down \/ UdpResumes

UdpNext ==
    \/ UdpTask \/ SendTimesOut \/ UdpTimesOut \/ UdpSocketReady
    \/ ClientDatagram \/ DatagramDropped \/ ServerDatagram \/ ServerFallsSilent \/ ControlCloses \/ UdpTerminated

UdpSpec == UdpInit /\ [][UdpNext]_udpVars

-----------------------------------------------------------------------------
(* Properties *)

UdpTypeOK ==
    /\ frames \in Seq(Nat) /\ arrived \in Nat /\ sentUp \in Seq(Nat)
    /\ inSocket \in 0 .. SocketRoom /\ talks \in BOOLEAN
    /\ control \in {"open", "closed"} /\ silenced \in BOOLEAN
    /\ taken \in 0 .. Batch /\ done \in Nat
    /\ upRes \in -1 .. 1 /\ downRes \in -1 .. 1
    /\ stage \in UdpYielded \cup {"up", "sending", "down", "over"}

(* The pool is bounded, whatever the server's socket does while the client *)
(* sends, and a batch that is under way is at its head.                    *)
PoolBounded ==
    /\ Len(frames) <= PoolSize + 1
    /\ taken <= Len(frames) /\ (taken > 0 => done < taken)

(* Every datagram that found room is sent at most once and in its order,   *)
(* and none is lost while the session lives: what a batch did not get rid  *)
(* of is still at the head of the pool.                                    *)
PoolIsExact ==
    sentUp \o Drop(done, frames) = [n \in 1 .. arrived |-> n]

(* The pool never passes its limit by more than one datagram, and holds    *)
(* exactly what is still to be sent.                                       *)
UdpInv == UdpTypeOK /\ PoolBounded /\ PoolIsExact

(* The session of an association whose control connection has ended ends,  *)
(* although both of its directions may be busy.                            *)
ControlEndsSession == control = "closed" ~> stage = "over"

(* A session whose direction to the server has failed ends once the server *)
(* is silent, however much the client goes on sending: its datagrams fill  *)
(* the pool, and those that find no room do not keep the session awake.    *)
DeafSessionEnds == upRes = -1 /\ ~talks ~> stage = "over"

(* A session that has lost one of its sides does not outlive the other.    *)
SessionEnds == ControlEndsSession /\ DeafSessionEnds

=============================================================================
