---------------------------- MODULE UdpAssociation ----------------------------
(***************************************************************************)
(* The datagrams of one UDP association of the relay: handleUdpAssociate   *)
(* of LocalSocksRelay.kt, with the outcome of DnsOverride.response.        *)
(*                                                                         *)
(* One socket serves both sides.  Whoever sends the first datagram is the  *)
(* client; a datagram of the client is a request, one of anybody else is a *)
(* response.  The engine is the only one that knows the socket's port      *)
(* before a request has left: the servers here answer and do not ask.      *)
(* What happens to the sockets and threads is in SocksRelay.               *)
(***************************************************************************)
EXTENDS Integers, Sequences, SequencesExt

CONSTANTS
    Servers,         \* addresses that requests may name
    MaxDatagrams,    \* datagrams that reach the socket
    NoAddress        \* clientAddress before there is a client

ASSUME AddressAssumption == MaxDatagrams \in Nat /\ NoAddress \notin Servers \cup {"engine"} /\ "engine" \notin Servers

(* What parseUdpRequest and DnsOverride make of a request: not one; for a  *)
(* name that cannot be resolved; for UDP/443; a query for a name with a    *)
(* fixed address; any other query; anything else.                          *)
Packets == {"malformed", "unresolved", "quic", "fixedQuery", "query", "data"}

VARIABLES
    seen,       \* the datagrams that reached the socket: [from, what, to]
    next,       \* the first of them that the loop has not received
    left,       \* the datagrams that left it: [id, to, source]
    answering,  \* the servers that something was sent to
    client,     \* clientAddress
    packet,     \* the number of the datagram that the loop handles, or 0
    socket      \* "open"; "closed" by the end of the control connection; "ended"

udpaVars == <<seen, next, left, answering, client, packet, socket>>

UdpaInit ==
    /\ seen = <<>> /\ next = 1 /\ left = <<>> /\ answering = {}
    /\ client = NoAddress /\ packet = 0 /\ socket = "open"

-----------------------------------------------------------------------------
(* The senders and the control connection *)

Arrives(from, what, to) ==
    /\ socket = "open" /\ Len(seen) < MaxDatagrams
    /\ seen' = Append(seen, [from |-> from, what |-> what, to |-> to])
    /\ UNCHANGED <<next, left, answering, client, packet, socket>>

EngineSends == \E what \in Packets, to \in Servers : Arrives("engine", what, to)

ServerAnswers == \E s \in answering : Arrives(s, "data", "engine")

(* The helper thread closes the socket when the engine has closed the      *)
(* control connection.                                                     *)
ControlEnds ==
    /\ socket = "open" /\ socket' = "closed"
    /\ UNCHANGED <<seen, next, left, answering, client, packet>>

-----------------------------------------------------------------------------
(* The loop of handleUdpAssociate *)

(* relay.receive, and who the client is: also a datagram that makes no     *)
(* request decides that.                                                   *)
Receives ==
    /\ socket = "open" /\ packet = 0 /\ next <= Len(seen)
    /\ packet' = next /\ next' = next + 1
    /\ client' = IF client = NoAddress THEN seen[next].from ELSE client
    /\ UNCHANGED <<seen, left, answering, socket>>

FromClient(d) == d.from = client
Skipped(d) == FromClient(d) /\ d.what \in {"malformed", "quic"}
Throws(d) == FromClient(d) /\ d.what = "unresolved"

(* A loop's continue. *)
Skips ==
    /\ packet > 0 /\ Skipped(seen[packet])
    /\ packet' = 0
    /\ UNCHANGED <<seen, next, left, answering, client, socket>>

(* Mutant: the answer of DnsOverride is sent, and the query as well. *)
SendsBoth ==
    /\ socket = "open" /\ packet > 0
    /\ LET d == seen[packet] IN
         /\ ~Skipped(d) /\ ~Throws(d)
         /\ left' = left \o
              (IF FromClient(d) /\ d.what = "fixedQuery"
               THEN <<[id |-> packet, to |-> client, source |-> d.to]>> ELSE <<>>)
              \o <<IF FromClient(d) THEN [id |-> packet, to |-> d.to, source |-> client]
                   ELSE [id |-> packet, to |-> client, source |-> d.from]>>
    /\ answering' = answering \cup ({left'[k].to : k \in DOMAIN left'} \ {client})
    /\ packet' = 0
    /\ UNCHANGED <<seen, next, client, socket>>

(* relay.send: of the answer of DnsOverride, in the name of the server     *)
(* that was asked; of a request, to its destination; of a response,        *)
(* wrapped with its source.                                                *)
Sends ==
    /\ socket = "open" /\ packet > 0
    /\ LET d == seen[packet] IN
         /\ ~Skipped(d) /\ ~Throws(d)
         /\ left' = Append(left,
              IF ~FromClient(d) THEN [id |-> packet, to |-> client, source |-> d.from]
              ELSE IF d.what = "fixedQuery" THEN [id |-> packet, to |-> client, source |-> d.to]
              ELSE [id |-> packet, to |-> d.to, source |-> client])
    /\ answering' = answering \cup ({left'[k].to : k \in DOMAIN left'} \ {client})
    /\ packet' = 0
    /\ UNCHANGED <<seen, next, client, socket>>

(* Mutant: a closed socket is noticed by a receive, not by a send. *)
AssociationLingers ==
    /\ socket # "ended"
    /\ \/ packet = 0 /\ socket = "closed"
       \/ packet > 0 /\ socket = "open" /\ ~Skipped(seen[packet])
    /\ socket' = "ended"
    /\ UNCHANGED <<seen, next, left, answering, client, packet>>

(* The finally block, after an exception: the socket is closed, a name     *)
(* cannot be resolved, the network does not take a datagram.               *)
AssociationEnds ==
    /\ socket # "ended"
    /\ \/ packet = 0 /\ socket = "closed"
       \/ packet > 0 /\ ~Skipped(seen[packet])
    /\ socket' = "ended"
    /\ UNCHANGED <<seen, next, left, answering, client, packet>>

-----------------------------------------------------------------------------

Loop == Receives \/ Skips \/ Sends \/ AssociationEnds

UdpaNext == EngineSends \/ ServerAnswers \/ ControlEnds \/ Loop

UdpaSpec == UdpaInit /\ [][UdpaNext]_udpaVars

-----------------------------------------------------------------------------
(* Properties *)

Peers == Servers \cup {"engine"}

UdpaTypeOK ==
    /\ seen \in Seq([from : Peers, what : Packets, to : Peers])
    /\ next \in Nat \ {0} /\ packet \in Nat
    /\ left \in Seq([id : Nat, to : Peers, source : Peers])
    /\ answering \subseteq Servers
    /\ client \in {NoAddress} \cup Peers
    /\ socket \in {"open", "closed", "ended"}

(* The client of an association is the engine, although the loop takes     *)
(* whoever comes first: a server that only answers can come no earlier     *)
(* than a request of the engine.                                           *)
ClientIsEngine == client \in {NoAddress, "engine"}

(* The relay is a relay: every datagram that leaves it stands for one that *)
(* came, in the order in which they came.  A request goes where it says; a *)
(* response goes to the engine under the name of its sender; UDP/443 and   *)
(* queries for fixed names reach no server, and the engine takes the       *)
(* answer to such a query for that of the server it asked.                 *)
StandsFor(out, d) ==
    \/ d.from = "engine" /\ d.what \in {"query", "data"} /\ out.to = d.to
    \/ d.from = "engine" /\ d.what = "fixedQuery" /\ out.to = "engine" /\ out.source = d.to
    \/ d.from # "engine" /\ out.to = "engine" /\ out.source = d.from

OneForOne ==
    /\ \A k \in DOMAIN left : StandsFor(left[k], seen[left[k].id])
    /\ \A j, k \in DOMAIN left : j < k => left[j].id < left[k].id

(* The socket's datagrams are taken one by one, for the one client.        *)
UdpaInv == UdpaTypeOK /\ packet < next /\ next <= Len(seen) + 1 /\ ClientIsEngine /\ OneForOne

(* An association whose control connection has ended ends, at whatever     *)
(* point of its loop it is.                                                *)
ControlEndsAssociation == socket = "closed" ~> socket = "ended"

=============================================================================
