---------------------------- MODULE MCConnection ----------------------------
(***************************************************************************)
(* What a connection passes through between tun and network, checked one   *)
(* part at a time: the run that serves it, its tasks, the handshake with   *)
(* the relay, the two splices of the engine, the relay's UDP association   *)
(* and its reading of the ClientHello.  A behaviour is of the part that    *)
(* its first state names; the others stay as they are (the tasks, the      *)
(* handshake and the reading as they are when all has ended).              *)
(***************************************************************************)
EXTENDS TunnelSync, TcpSplice, UdpSplice, SocksHandshake, TaskSystem, UdpAssociation, ClientHello, TLC

MCPriority == [t \in Tasks |-> IF t = "a" THEN 2 ELSE 1]
MCPayload == <<"p1", "p2">>

RECURSIVE Cuts(_, _)
(* The ways to cut a message into at most n records, empty ones included. *)
Cuts(message, n) ==
    IF n = 1 THEN {<<TlsHandshake, Len(message)>> \o message}
    ELSE UNION {{(<<TlsHandshake, k>> \o SubSeq(message, 1, k)) \o rest :
                   rest \in Cuts(SubSeq(message, k + 1, Len(message)), n - 1)} : k \in 0 .. Len(message)}

After == {<<>>, <<20, 1, 1>>, <<22, 1, 9>>, <<22>>}
Whole == {<<HelloType, 1, 7>>, <<HelloType, 2, 7, 22>>, <<HelloType, 1, 7, 11>>}
CutUp == UNION {Cuts(m, n) : m \in Whole, n \in 1 .. 2} \cup Cuts(<<HelloType, 1, 7>>, 3)
MCHellos ==
    {[bytes |-> c \o a, name |-> 7, size |-> Len(c)] : c \in CutUp, a \in After}
      \cup {[bytes |-> b, name |-> NoName, size |-> 0] :
              b \in {<<>>, <<71, 69, 84>>, <<22, 0, 20, 1, 1>>, <<22, 2, 2, 1, 7>>, <<22, 3, 2, 1, 7>>, <<22, 2, 1, 0>>,
                     <<22, 2, 1, 1, 20, 1, 7>>, <<22, 1, 1, 20, 1, 1, 22, 2, 1, 7>>}}

VARIABLE part

SyncPart ==
    /\ part = "sync" /\ SyncNext
    /\ UNCHANGED <<part, spliceVars, udpVars, handshakeVars, taskVars, udpaVars, helloVars>>

SplicePart ==
    /\ part = "tcp" /\ SpliceNext
    /\ UNCHANGED <<part, syncVars, udpVars, handshakeVars, taskVars, udpaVars, helloVars>>

UdpPart ==
    /\ part = "udp" /\ UdpNext
    /\ UNCHANGED <<part, syncVars, spliceVars, handshakeVars, taskVars, udpaVars, helloVars>>

HandshakePart ==
    /\ part = "handshake" /\ HandshakeNext
    /\ UNCHANGED <<part, syncVars, spliceVars, udpVars, taskVars, udpaVars, helloVars>>

TaskPart ==
    /\ part = "tasks" /\ TaskNext
    /\ UNCHANGED <<part, syncVars, spliceVars, udpVars, handshakeVars, udpaVars, helloVars>>

UdpaPart ==
    /\ part = "association" /\ UdpaNext
    /\ UNCHANGED <<part, syncVars, spliceVars, udpVars, handshakeVars, taskVars, helloVars>>

HelloPart ==
    /\ part = "hello" /\ HelloNext
    /\ UNCHANGED <<part, syncVars, spliceVars, udpVars, handshakeVars, taskVars, udpaVars>>

NoHandshake ==
    /\ config = [pipeline |-> FALSE, user |-> Secret, cmd |-> "tls", dest |-> "d1"]
    /\ engine = "failed" /\ todo = <<>>
    /\ relay = "closed" /\ valid = FALSE /\ request = NoRequest
    /\ up = <<>> /\ down = <<>> /\ read = <<>>

NoTasks ==
    /\ doing = [t \in Tasks |-> "stopped"]
    /\ ready = {} /\ key = [t \in Tasks |-> 0] /\ current = Nobody
    /\ locker = FALSE /\ waiters = <<>> /\ inside = {}
    /\ timers = <<>> /\ expired = 0
    /\ joiner = [t \in Tasks |-> Nobody]

NoHello ==
    /\ hello = [bytes |-> <<>>, name |-> NoName, size |-> 0]
    /\ came = 0 /\ finished = TRUE /\ used = 0
    /\ verdict = NeedMore /\ reading = "end"

MCInit ==
    /\ part \in {"sync", "tcp", "udp", "handshake", "tasks", "association", "hello"}
    /\ SyncInit /\ SpliceInit /\ UdpInit /\ UdpaInit
    /\ IF part = "handshake" THEN HandshakeInit ELSE NoHandshake
    /\ IF part = "tasks" THEN TaskInit ELSE NoTasks
    /\ IF part = "hello" THEN HelloInit ELSE NoHello

partVars == <<part, syncVars, spliceVars, udpVars, handshakeVars, taskVars, udpaVars, helloVars>>

(* Only the start and stop of the run must never get stuck; a splice, a    *)
(* handshake or the last task may end.                                     *)
MayEnd == part # "sync" /\ UNCHANGED partVars

MCNext == SyncPart \/ SplicePart \/ UdpPart \/ HandshakePart \/ TaskPart \/ UdpaPart \/ HelloPart

(* Each part's fairness, for the part that runs.                           *)
MCSpec ==
    /\ MCInit /\ [][MCNext \/ MayEnd]_partVars
    /\ WF_spliceVars(part = "tcp" /\ SpliceTask)
    /\ WF_spliceVars(part = "tcp" /\ ClientAcks)
    /\ WF_udpVars(part = "udp" /\ UdpTask)
    /\ WF_udpVars(part = "udp" /\ UdpTimesOut)
    /\ WF_udpVars(part = "udp" /\ SendTimesOut)
    /\ WF_handshakeVars(part = "handshake" /\ EngineSteps)
    /\ WF_handshakeVars(part = "handshake" /\ RelaySteps)
    /\ WF_taskVars(part = "tasks" /\ Schedules)
    /\ WF_taskVars(part = "tasks" /\ GoesOn)
    /\ WF_taskVars(part = "tasks" /\ Turn)
    /\ WF_udpaVars(part = "association" /\ Loop)
    /\ WF_helloVars(part = "hello" /\ ReadsHello)
    /\ WF_helloVars(part = "hello" /\ GivesUp)

=============================================================================
