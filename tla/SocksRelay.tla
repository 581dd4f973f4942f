------------------------------- MODULE SocksRelay -------------------------------
(***************************************************************************)
(* LocalSocksRelay: its threads and its sockets.                           *)
(*                                                                         *)
(* One thread accepts.  Every connection has a handler thread that         *)
(* negotiates, opens the socket to the outside ("out": the upstream of a   *)
(* CONNECT, the datagram socket of a UDP ASSOCIATE) and relays one         *)
(* direction, and a helper thread that relays the other or watches the     *)
(* control connection.  close () comes from another thread at any moment:  *)
(* it closes what is in the set of sessions, under the set's lock, and     *)
(* shuts the executor down.                                                *)
(*                                                                         *)
(* The other ends are the engine, whose sockets are closed before close () *)
(* is called (TunnelService: the engine stops first), and the network.     *)
(***************************************************************************)
EXTENDS Naturals

CONSTANTS
    Conns,  \* the connections that the engine makes
    Asks    \* what each of them may ask for

Commands == {"connect", "tls", "udp"}  \* CONNECT, CONNECT to port 443, UDP ASSOCIATE

ASSUME AsksAssumption == Asks \in [Conns -> SUBSET Commands]

Kinds == {"client", "out"}
Client(c) == <<"client", c>>
Out(c) == <<"out", c>>
Server == <<"server", "server">>
Sockets == (Kinds \X Conns) \cup {Server}

VARIABLES
    waiting,   \* connections in the server socket's backlog
    acceptor,  \* the accept thread: its place and its connection
    command,   \* per connection: what it asks for
    handler,   \* per connection: where its handler thread is
    helper,    \* per connection: where its second thread is
    fd,        \* per socket: not made yet, open, lost (open, and no code refers to it) or closed
    gone,      \* the sockets whose other end has closed
    sessions,  \* the set of sessions
    closer     \* close (): not called, at work with the lock, shutting down, returned

envVars == <<waiting, command, gone>>
threadVars == <<acceptor, handler, helper>>
vars == <<envVars, threadVars, fd, sessions, closer>>

HandlerPcs == {"none", "negotiate", "dial", "add", "answer", "first", "spawn", "copy",
               "closeClient", "closeOut", "removeOut", "catch", "finally", "ended"}
HelperPcs == {"none", "copy", "closeClient", "closeOut", "removeOut", "ended"}

TypeOK ==
    /\ waiting \subseteq Conns
    /\ acceptor \in [pc : {"accept", "add", "submit", "ended"}, conn : Conns \cup {Server}]
    /\ acceptor.pc \in {"add", "submit"} => acceptor.conn \in Conns
    /\ command \in [Conns -> Commands]
    /\ handler \in [Conns -> HandlerPcs]
    /\ helper \in [Conns -> HelperPcs]
    /\ fd \in [Sockets -> {"none", "open", "lost", "closed"}]
    /\ gone \subseteq Sockets
    /\ sessions \subseteq Sockets
    /\ closer \in {"idle", "closing", "shutdown", "done"}

(* Mutant of Init: start () does not enter the server socket. *)
InitForgetsServer ==
    /\ waiting = {}
    /\ acceptor = [pc |-> "accept", conn |-> Server]
    /\ command \in {asked \in [Conns -> Commands] : \A c \in Conns : asked[c] \in Asks[c]}
    /\ handler = [c \in Conns |-> "none"]
    /\ helper = [c \in Conns |-> "none"]
    /\ fd = [x \in Sockets |-> IF x = Server THEN "open" ELSE "none"]
    /\ gone = {}
    /\ sessions = {}
    /\ closer = "idle"

(* After start (). *)
Init ==
    /\ waiting = {}
    /\ acceptor = [pc |-> "accept", conn |-> Server]
    /\ command \in {asked \in [Conns -> Commands] : \A c \in Conns : asked[c] \in Asks[c]}
    /\ handler = [c \in Conns |-> "none"]
    /\ helper = [c \in Conns |-> "none"]
    /\ fd = [x \in Sockets |-> IF x = Server THEN "open" ELSE "none"]
    /\ gone = {}
    /\ sessions = {Server}
    /\ closer = "idle"

IsOpen(x) == fd[x] \in {"open", "lost"}
Close(x) == fd' = [fd EXCEPT ![x] = IF @ = "open" THEN "closed" ELSE @]
Unlocked == closer # "closing"
Accepting == closer # "done"  \* the executor has not been shut down

-----------------------------------------------------------------------------
(* The engine and the network *)

EngineConnects(c) ==
    /\ closer = "idle" /\ c \notin waiting /\ handler[c] = "none" /\ fd[Client(c)] = "none"
    /\ waiting' = waiting \cup {c}
    /\ UNCHANGED <<command, gone, threadVars, fd, sessions, closer>>

(* A datagram socket has no other end, one that is lost was not connected. *)
OtherEndCloses(x) ==
    /\ x # Server /\ x \notin gone /\ fd[x] = "open"
    /\ \A c \in Conns : x = Out(c) => command[c] # "udp"
    /\ gone' = gone \cup {x}
    /\ UNCHANGED <<waiting, command, threadVars, fd, sessions, closer>>

-----------------------------------------------------------------------------
(* acceptLoop *)

Accepts ==
    /\ acceptor.pc = "accept" /\ IsOpen(Server)
    /\ \E c \in waiting :
          /\ waiting' = waiting \ {c}
          /\ acceptor' = [pc |-> "add", conn |-> c]
          /\ fd' = [fd EXCEPT ![Client(c)] = "open"]
    /\ UNCHANGED <<command, gone, handler, helper, sessions, closer>>

(* Mutant of AcceptorAdds: the client is not entered. *)
AcceptorAddsNothing ==
    /\ acceptor.pc = "add" /\ Unlocked
    /\ acceptor' = [acceptor EXCEPT !.pc = "submit"]
    /\ UNCHANGED <<envVars, handler, helper, fd, sessions, closer>>

(* sessions += client *)
AcceptorAdds ==
    /\ acceptor.pc = "add" /\ Unlocked
    /\ sessions' = sessions \cup {Client(acceptor.conn)}
    /\ acceptor' = [acceptor EXCEPT !.pc = "submit"]
    /\ UNCHANGED <<envVars, handler, helper, fd, closer>>

(* executor.execute: after shutdownNow it throws, which ends the thread. *)
AcceptorSubmits ==
    /\ acceptor.pc = "submit"
    /\ IF Accepting
       THEN /\ handler' = [handler EXCEPT ![acceptor.conn] = "negotiate"]
            /\ acceptor' = [pc |-> "accept", conn |-> Server]
       ELSE /\ UNCHANGED handler
            /\ acceptor' = [pc |-> "ended", conn |-> Server]
    /\ UNCHANGED <<envVars, helper, fd, sessions, closer>>

(* accept () throws a SocketException when the server socket is closed. *)
AcceptorEnds ==
    /\ acceptor.pc = "accept" /\ ~IsOpen(Server)
    /\ acceptor' = [acceptor EXCEPT !.pc = "ended"]
    /\ UNCHANGED <<envVars, handler, helper, fd, sessions, closer>>

(* It also throws when an accept fails on the open socket, for want of     *)
(* descriptors: nothing accepts from then on.                              *)
AcceptorFails ==
    /\ acceptor.pc = "accept" /\ IsOpen(Server) /\ waiting # {}
    /\ acceptor' = [acceptor EXCEPT !.pc = "ended"]
    /\ UNCHANGED <<envVars, handler, helper, fd, sessions, closer>>

-----------------------------------------------------------------------------
(* handleClient *)

Goes(c, pc) == handler' = [handler EXCEPT ![c] = pc]

(* negotiate and readRequest: the engine says all that is expected (it     *)
(* asks for nothing but the Commands) ...                                  *)
Negotiates(c) ==
    /\ handler[c] = "negotiate" /\ IsOpen(Client(c))
    /\ Goes(c, IF command[c] = "tls" THEN "answer" ELSE "dial")
    /\ UNCHANGED <<envVars, acceptor, helper, fd, sessions, closer>>

(* ... or does not, or a socket is closed at one end. *)
NegotiationFails(c) ==
    /\ handler[c] = "negotiate"
    /\ ~IsOpen(Client(c)) \/ Client(c) \in gone
    /\ Goes(c, "catch")
    /\ UNCHANGED <<envVars, acceptor, helper, fd, sessions, closer>>

(* connectProtected, within its timeout, or the datagram socket.  A socket *)
(* that is not protected is closed, and so is one whose connect fails      *)
(* (java.net.Socket does that); one whose bindSocket or options fail       *)
(* between the two is not, and the exception loses it.                     *)
Dials(c) ==
    /\ handler[c] = "dial"
    /\ \/ fd' = [fd EXCEPT ![Out(c)] = "open"] /\ Goes(c, "add")
       \/ Goes(c, "catch") /\ UNCHANGED fd
       \/ fd' = [fd EXCEPT ![Out(c)] = "lost"] /\ Goes(c, "catch")
    /\ UNCHANGED <<envVars, acceptor, helper, sessions, closer>>

(* The datagram socket cannot be protected: the engine is told, and the    *)
(* client is forgotten without being closed.                               *)
UdpRefused(c) ==
    /\ handler[c] = "dial" /\ command[c] = "udp"
    /\ Goes(c, "finally")
    /\ UNCHANGED <<envVars, acceptor, helper, fd, sessions, closer>>

(* sessions += upstream, sessions += relay *)
HandlerAdds(c) ==
    /\ handler[c] = "add" /\ Unlocked
    /\ sessions' = sessions \cup {Out(c)}
    /\ Goes(c, IF command[c] = "tls" THEN "first" ELSE "answer")
    /\ UNCHANGED <<envVars, acceptor, helper, fd, closer>>

(* writeReply; for port 443 before the upstream is known, and followed by  *)
(* readClientHello, which a timeout or an end of file ends as well.        *)
Answers(c) ==
    /\ handler[c] = "answer"
    /\ \/ IsOpen(Client(c)) /\ Goes(c, IF command[c] = "tls" THEN "dial" ELSE "spawn")
       \/ (~IsOpen(Client(c)) \/ Client(c) \in gone) /\ Goes(c, "catch")
    /\ UNCHANGED <<envVars, acceptor, helper, fd, sessions, closer>>

(* The ClientHello goes to the upstream, unless none was read. *)
WritesFirst(c) ==
    /\ handler[c] = "first"
    /\ \/ Goes(c, "spawn")
       \/ (~IsOpen(Out(c)) \/ Out(c) \in gone) /\ Goes(c, "catch")
    /\ UNCHANGED <<envVars, acceptor, helper, fd, sessions, closer>>

Spawns(c) ==
    /\ handler[c] = "spawn"
    /\ IF Accepting
       THEN Goes(c, "copy") /\ helper' = [helper EXCEPT ![c] = "copy"]
       ELSE Goes(c, "catch") /\ UNCHANGED helper
    /\ UNCHANGED <<envVars, acceptor, fd, sessions, closer>>

(* The blocking call of a copy or receive loop sees its end: the handler   *)
(* of a CONNECT reads from the client, its helper from the upstream; the   *)
(* handler of a UDP ASSOCIATE receives on the datagram socket, its helper  *)
(* reads the control connection.                                           *)
HandlerSource(c) == IF command[c] = "udp" THEN Out(c) ELSE Client(c)
HelperSource(c) == IF command[c] = "udp" THEN Client(c) ELSE Out(c)

SeesEnd(x) == ~IsOpen(x) \/ x \in gone

(* A write of the loop fails: only when there is something to write. *)
MayFail(c, x) == command[c] = "udp" \/ ~IsOpen(x) \/ x \in gone

HandlerSeesEnd(c) ==
    /\ handler[c] = "copy" /\ SeesEnd(HandlerSource(c))
    /\ Goes(c, IF command[c] = "udp" THEN "closeOut" ELSE "closeClient")
    /\ UNCHANGED <<envVars, acceptor, helper, fd, sessions, closer>>

HandlerFails(c) ==
    /\ handler[c] = "copy" /\ MayFail(c, Out(c))
    /\ Goes(c, IF command[c] = "udp" THEN "closeOut" ELSE "closeClient")
    /\ UNCHANGED <<envVars, acceptor, helper, fd, sessions, closer>>

(* The two finally blocks: client, upstream, set, or relay, set, client *)
AfterClose(c) ==
    IF command[c] = "udp"
    THEN [closeOut |-> "removeOut", removeOut |-> "closeClient", closeClient |-> "finally"]
    ELSE [closeClient |-> "closeOut", closeOut |-> "removeOut", removeOut |-> "finally"]

HandlerCloses(c) ==
    /\ handler[c] \in {"closeClient", "closeOut"}
    /\ Close(IF handler[c] = "closeOut" THEN Out(c) ELSE Client(c))
    /\ Goes(c, AfterClose(c)[handler[c]])
    /\ UNCHANGED <<envVars, acceptor, helper, sessions, closer>>

HandlerRemoves(c) ==
    /\ handler[c] = "removeOut" /\ Unlocked
    /\ sessions' = sessions \ {Out(c)}
    /\ Goes(c, AfterClose(c)["removeOut"])
    /\ UNCHANGED <<envVars, acceptor, helper, fd, closer>>

(* handleClient's catch closes the client, its finally removes it. *)
HandlerCatches(c) ==
    /\ handler[c] = "catch"
    /\ Close(Client(c))
    /\ Goes(c, "finally")
    /\ UNCHANGED <<envVars, acceptor, helper, sessions, closer>>

(* Mutant of HandlerEnds: the client stays in the set. *)
HandlerEndsUntidily(c) ==
    /\ handler[c] = "finally" /\ Unlocked
    /\ Goes(c, "ended")
    /\ UNCHANGED <<envVars, acceptor, helper, fd, sessions, closer>>

HandlerEnds(c) ==
    /\ handler[c] = "finally" /\ Unlocked
    /\ sessions' = sessions \ {Client(c)}
    /\ Goes(c, "ended")
    /\ UNCHANGED <<envVars, acceptor, helper, fd, closer>>

-----------------------------------------------------------------------------
(* The helper thread *)

HelperGoes(c, pc) == helper' = [helper EXCEPT ![c] = pc]

HelperSeesEnd(c) ==
    /\ helper[c] = "copy" /\ SeesEnd(HelperSource(c))
    /\ HelperGoes(c, IF command[c] = "udp" THEN "closeOut" ELSE "closeClient")
    /\ UNCHANGED <<envVars, acceptor, handler, fd, sessions, closer>>

HelperFails(c) ==
    /\ helper[c] = "copy" /\ command[c] # "udp" /\ MayFail(c, Client(c))
    /\ HelperGoes(c, "closeClient")
    /\ UNCHANGED <<envVars, acceptor, handler, fd, sessions, closer>>

(* Mutant of HelperCloses: only the upstream is closed. *)
HelperClosesUpstream(c) ==
    /\ helper[c] \in {"closeClient", "closeOut"}
    /\ IF helper[c] = "closeOut" THEN Close(Out(c)) ELSE UNCHANGED fd
    /\ HelperGoes(c, CASE helper[c] = "closeClient" -> "closeOut"
                       [] command[c] = "udp" -> "ended"
                       [] OTHER -> "removeOut")
    /\ UNCHANGED <<envVars, acceptor, handler, sessions, closer>>

HelperCloses(c) ==
    /\ helper[c] \in {"closeClient", "closeOut"}
    /\ Close(IF helper[c] = "closeOut" THEN Out(c) ELSE Client(c))
    /\ HelperGoes(c, CASE helper[c] = "closeClient" -> "closeOut"
                       [] helper[c] = "closeOut" /\ command[c] = "udp" -> "ended"
                       [] helper[c] = "closeOut" /\ command[c] # "udp" -> "removeOut")
    /\ UNCHANGED <<envVars, acceptor, handler, sessions, closer>>

HelperEnds(c) ==
    /\ helper[c] = "removeOut" /\ Unlocked
    /\ sessions' = sessions \ {Out(c)}
    /\ HelperGoes(c, "ended")
    /\ UNCHANGED <<envVars, acceptor, handler, fd, closer>>

-----------------------------------------------------------------------------
(* close () *)

(* cleanupTunnel has stopped the engine: its ends are closed. *)
CloseBegins ==
    /\ closer = "idle"
    /\ closer' = "closing"
    /\ gone' = gone \cup {Client(c) : c \in Conns}
    /\ UNCHANGED <<waiting, command, threadVars, fd, sessions>>

(* sessions.toList ().forEach (::closeQuietly), holding the lock *)
CloserCloses ==
    /\ closer = "closing"
    /\ \E x \in sessions : Close(x) /\ sessions' = sessions \ {x}
    /\ UNCHANGED <<envVars, threadVars, closer>>

(* sessions.clear (), the lock is released *)
CloserUnlocks ==
    /\ closer = "closing" /\ sessions = {}
    /\ closer' = "shutdown"
    /\ UNCHANGED <<envVars, threadVars, fd, sessions>>

(* executor.shutdownNow (); socket calls do not see the interrupt *)
CloserShutsDown ==
    /\ closer = "shutdown"
    /\ closer' = "done"
    /\ UNCHANGED <<envVars, threadVars, fd, sessions>>

-----------------------------------------------------------------------------
AcceptorSteps == Accepts \/ AcceptorAdds \/ AcceptorSubmits \/ AcceptorEnds

(* What a handler does on its own; Negotiates and HandlerFails are up to   *)
(* the other ends.                                                         *)
HandlerSteps(c) ==
    \/ NegotiationFails(c) \/ Dials(c) \/ UdpRefused(c) \/ HandlerAdds(c) \/ Answers(c) \/ WritesFirst(c)
    \/ Spawns(c) \/ HandlerSeesEnd(c) \/ HandlerCloses(c) \/ HandlerRemoves(c)
    \/ HandlerCatches(c) \/ HandlerEnds(c)

HelperSteps(c) == HelperSeesEnd(c) \/ HelperCloses(c) \/ HelperEnds(c)

CloserSteps == CloserCloses \/ CloserUnlocks \/ CloserShutsDown

Next ==
    \/ \E c \in Conns :
          \/ EngineConnects(c) \/ Negotiates(c) \/ HandlerSteps(c) \/ HandlerFails(c)
          \/ HelperSteps(c) \/ HelperFails(c)
    \/ \E x \in Sockets : OtherEndCloses(x)
    \/ AcceptorSteps \/ AcceptorFails \/ CloseBegins \/ CloserSteps

Spec == Init /\ [][Next]_vars

(* Threads run, a blocking read sees a closed socket or an end of file, a  *)
(* connect is answered or times out, a write is taken or fails; whether    *)
(* and when anybody else acts is open.                                     *)
Fairness ==
    /\ WF_vars(AcceptorSteps) /\ WF_vars(CloserSteps)
    /\ \A c \in Conns : WF_vars(HandlerSteps(c)) /\ WF_vars(HelperSteps(c))

FairSpec == Spec /\ Fairness

-----------------------------------------------------------------------------
(* Properties *)

(* Until close () is called, it will find every open socket: in the set of *)
(* sessions, or in the hands of a thread that is about to enter it.  There *)
(* are two exceptions: a socket to the outside whose bindSocket has failed *)
(* (connectProtected, handleUdpAssociate), and the client of a refused UDP *)
(* ASSOCIATE (handleUdpAssociate).                                         *)
InHand(x) ==
    \/ acceptor.pc = "add" /\ x = Client(acceptor.conn)
    \/ \E c \in Conns : handler[c] = "add" /\ x = Out(c)

Refused(c) == command[c] = "udp" /\ handler[c] \in {"finally", "ended"} /\ fd[Out(c)] = "none"

Unbound(c) ==
    fd[Out(c)] = "lost" /\ helper[c] = "none" /\ handler[c] \in {"catch", "finally", "ended"}

EverySocketIsFound ==
    closer = "idle" => \A x \in Sockets : IsOpen(x) =>
        \/ x \in sessions \/ InHand(x)
        \/ \E c \in Conns : (x = Out(c) /\ Unbound(c)) \/ (x = Client(c) /\ Refused(c))

(* When both threads of a connection have ended, nothing of it is left:    *)
(* its sockets are closed, and none of them is kept in the set of sessions *)
(* for the life of the relay (the finally blocks of relayBothWays,         *)
(* handleUdpAssociate and handleClient).                                   *)
RelayedIsReleased ==
    \A c \in Conns : helper[c] = "ended" /\ handler[c] = "ended" =>
        /\ ~IsOpen(Client(c)) /\ ~IsOpen(Out(c))
        /\ {Client(c), Out(c)} \cap sessions = {}

(* What makes them inductive: no thread is ahead of its connection, and a  *)
(* thread takes a socket out of the set only when it is closed.            *)
Unmet(c) == handler[c] = "none"
Relaying == {"copy", "closeClient", "closeOut", "removeOut"}
Undialled(c) ==
    \/ handler[c] \in {"none", "negotiate", "dial"}
    \/ handler[c] = "answer" /\ command[c] = "tls"
Dialled(c) ==
    \/ handler[c] \in {"add", "first", "spawn"} \cup Relaying
    \/ handler[c] = "answer" /\ command[c] # "tls"

BeforeItsTurn ==
    /\ \A c \in Conns :
          /\ c \in waiting => fd[Client(c)] = "none" /\ Unmet(c)
          /\ Undialled(c) => fd[Out(c)] = "none"
          /\ Dialled(c) => fd[Out(c)] \in {"open", "closed"}
          /\ fd[Client(c)] # "lost" /\ (fd[Out(c)] = "lost" => Unbound(c))
          /\ helper[c] # "none" => handler[c] \in Relaying \cup {"finally", "ended"}
          /\ handler[c] \in Relaying => helper[c] # "none"
    /\ acceptor.pc \in {"add", "submit"} =>
          Unmet(acceptor.conn) /\ acceptor.conn \notin waiting /\ fd[Client(acceptor.conn)] # "none"

ClosedFirst ==
    \A c \in Conns :
        /\ handler[c] = "removeOut" => ~IsOpen(Out(c))
        /\ handler[c] \in {"closeOut", "removeOut"} /\ command[c] # "udp" => ~IsOpen(Client(c))
        /\ handler[c] \in {"finally", "ended"} => ~IsOpen(Client(c)) \/ Refused(c)
        /\ helper[c] \in {"removeOut", "ended"} => ~IsOpen(Out(c))

RelayInv == TypeOK /\ EverySocketIsFound /\ BeforeItsTurn /\ ClosedFirst

(* One direction of a connection does not outlive the other: when one of   *)
(* its threads has ended, so has the other sooner or later.                *)
OneEndsBothEnd ==
    \A c \in Conns :
        /\ helper[c] = "ended" ~> handler[c] = "ended"
        /\ helper[c] # "none" /\ handler[c] = "ended" ~> helper[c] = "ended"

(* After close () no thread of the relay stays, although some may have     *)
(* accepted or connected behind its back.                                  *)
AllEnded ==
    /\ acceptor.pc = "ended"
    /\ \A c \in Conns : handler[c] \in {"none", "ended"} /\ helper[c] \in {"none", "ended"}

CloseEndsThreads == closer = "done" ~> AllEnded

=============================================================================
