--------------------------- MODULE SocksHandshake ---------------------------
(***************************************************************************)
(* How a session of the engine and the relay agree on one connection: the  *)
(* client side of hev-socks5-client.c, in its two orders, against the      *)
(* server side of LocalSocksRelay.kt.  What one side writes and the other  *)
(* reads are two separate programs; nothing but the bytes connects them.   *)
(*                                                                         *)
(* The two streams are sequences of fields.  Both sides read until they    *)
(* have all the fields that they ask for, so a read takes them at once.    *)
(***************************************************************************)
EXTENDS Integers, Sequences, SequencesExt

CONSTANTS
    Users,    \* credentials; the relay's own are Secret
    Secret,
    NoUser,   \* the configuration of the engine has no credentials
    Dests,    \* destinations of a request; Bound stands for those of an answer
    Bound,
    Payload   \* what the engine sends when it may

ASSUME HandshakeAssumption ==
    /\ Secret \in Users /\ NoUser \notin Users
    /\ Payload \in Seq(STRING)

(* CONNECT to a port, CONNECT to port 443, UDP ASSOCIATE, and FWD_UDP,     *)
(* which is the request of an engine configured with udp: 'tcp'.           *)
Requests == {"connect", "tls", "associate", "forward"}

VARIABLES
    config,  \* of the engine: [pipeline, user, cmd, dest]
    engine,  \* "handshake", "splice" or "failed", which closes its socket
    todo,    \* what is left of its handshake
    relay,   \* "greeting", "creds", "request", "serve", "relay", "idle", "closed"
    valid,   \* the relay accepted the credentials
    request, \* what the relay read
    up,      \* from the engine to the relay, not read yet
    down,    \* from the relay to the engine, not read yet
    read      \* what the relay read after the request

handshakeVars == <<config, engine, todo, relay, valid, request, up, down, read>>
engineSide == <<engine, todo>>
relaySide == <<relay, valid, request, read>>

Standard == <<"methods", "method", "creds", "verdict", "request", "response">>
Pipeline == <<"methods", "creds", "request", "method", "verdict", "response">>

NoRequest == [cmd |-> "none", dest |-> Bound]

HandshakeInit ==
    /\ config \in [pipeline : BOOLEAN, user : Users \cup {NoUser}, cmd : Requests, dest : Dests]
    /\ engine = "handshake"
    /\ todo = IF config.pipeline THEN Pipeline ELSE Standard
    /\ relay = "greeting" /\ valid = FALSE /\ request = NoRequest
    /\ up = <<>> /\ down = <<>> /\ read = <<>>

-----------------------------------------------------------------------------
(* The engine *)

IsAt(step) == engine = "handshake" /\ todo # <<>> /\ Head(todo) = step

EngineWrites(fields) ==
    /\ up' = IF relay = "closed" THEN up ELSE up \o fields
    /\ todo' = Tail(todo)
    /\ UNCHANGED <<config, engine, relaySide, down>>

WritesMethods ==
    /\ IsAt("methods")
    /\ EngineWrites(<<"v5", "one", IF config.user = NoUser THEN "none" ELSE "user">>)

WritesCreds ==
    /\ IsAt("creds")
    /\ EngineWrites(IF config.user = NoUser THEN <<>> ELSE <<"v1", config.user>>)

WritesRequest ==
    /\ IsAt("request")
    /\ EngineWrites(<<"v5", config.cmd, "rsv", config.dest>>)

(* Reading n fields: the answer decides, the end of the stream fails.      *)
EngineReads(n, accepted, next) ==
    /\ Len(down) >= n
    /\ down' = SubSeq(down, n + 1, Len(down))
    /\ engine' = IF accepted THEN engine ELSE "failed"
    /\ todo' = IF accepted THEN next ELSE <<>>
    /\ UNCHANGED <<config, relaySide, up>>

(* read_auth_method; without authentication the steps that belong to it    *)
(* are not taken.                                                          *)
ReadsMethod ==
    /\ IsAt("method")
    /\ EngineReads(2, Len(down) >= 2 /\ down[1] = "v5" /\ down[2] \in {"user", "none"},
                   IF down[2] = "user" THEN Tail(todo)
                   ELSE SelectSeq(Tail(todo), LAMBDA s : s \notin {"creds", "verdict"}))

ReadsVerdict ==
    /\ IsAt("verdict")
    /\ EngineReads(2, Len(down) >= 2 /\ down[1] = "v1" /\ down[2] = "success", Tail(todo))

ReadsResponse ==
    /\ IsAt("response")
    /\ EngineReads(4, Len(down) >= 4 /\ down[1] = "v5" /\ down[2] = "success", Tail(todo))

(* A read that ends early, fails or takes too long, and terminate ().      *)
SeesTheEnd ==
    /\ \E step \in {"method", "verdict", "response"} : IsAt(step)
    /\ relay = "closed" /\ Len(down) < (IF Head(todo) = "response" THEN 4 ELSE 2)
    /\ engine' = "failed" /\ todo' = <<>>
    /\ UNCHANGED <<config, relaySide, up, down>>

EngineGivesUp ==
    /\ engine = "handshake"
    /\ engine' = "failed" /\ todo' = <<>>
    /\ UNCHANGED <<config, relaySide, up, down>>

(* The handshake is over: the splice begins to send. *)
Splices ==
    /\ engine = "handshake" /\ todo = <<>>
    /\ engine' = "splice"
    /\ up' = IF relay = "closed" THEN up ELSE up \o Payload
    /\ UNCHANGED <<config, todo, relaySide, down>>

EngineSteps ==
    \/ WritesMethods \/ WritesCreds \/ WritesRequest
    \/ ReadsMethod \/ ReadsVerdict \/ ReadsResponse
    \/ SeesTheEnd \/ Splices

-----------------------------------------------------------------------------
(* The relay *)

RelayReads(n) == Len(up) >= n /\ up' = SubSeq(up, n + 1, Len(up))

(* Closing a socket with unread input may take away what was sent on it.   *)
RelayCloses(answer) ==
    /\ relay' = "closed"
    /\ \E d \in {down \o answer} \cup (IF up' # <<>> THEN {<<>>} ELSE {}) : down' = d

(* negotiate *)
Negotiates1 ==
    /\ relay = "greeting"
    /\ RelayReads(3)
    /\ IF up[1] = "v5" /\ up[3] = "user"
       THEN relay' = "creds" /\ down' = down \o <<"v5", "user">>
       ELSE RelayCloses(IF up[1] = "v5" THEN <<"v5", "none acceptable">> ELSE <<>>)
    /\ UNCHANGED <<config, engineSide, valid, request, read>>

Negotiates2 ==
    /\ relay = "creds"
    /\ RelayReads(2)
    /\ IF up[1] = "v1" /\ up[2] = Secret
       THEN relay' = "request" /\ valid' = TRUE /\ down' = down \o <<"v1", "success">>
       ELSE /\ RelayCloses(IF up[1] = "v1" THEN <<"v1", "failure">> ELSE <<>>)
            /\ UNCHANGED valid
    /\ UNCHANGED <<config, engineSide, request, read>>

(* Mutant: the reserved field is not read. *)
ReadsShortRequest ==
    /\ relay = "request"
    /\ RelayReads(3)
    /\ IF up[1] = "v5"
       THEN relay' = "serve" /\ request' = [cmd |-> up[2], dest |-> up[3]] /\ UNCHANGED down
       ELSE RelayCloses(<<>>) /\ UNCHANGED request
    /\ UNCHANGED <<config, engineSide, valid, read>>

(* readRequest *)
ReadsRequest ==
    /\ relay = "request"
    /\ RelayReads(4)
    /\ IF up[1] = "v5"
       THEN relay' = "serve" /\ request' = [cmd |-> up[2], dest |-> up[4]] /\ UNCHANGED down
       ELSE RelayCloses(<<>>) /\ UNCHANGED request
    /\ UNCHANGED <<config, engineSide, valid, read>>

RelayAnswers(code, then) ==
    /\ relay = "serve"
    /\ down' = down \o <<"v5", code, "rsv", Bound>>
    /\ relay' = then
    /\ UNCHANGED <<config, engineSide, valid, request, up, read>>

(* handleConnect and handleUdpAssociate: to port 443 the answer comes      *)
(* before the connection, to other ports after it.                         *)
Serves ==
    /\ request.cmd \in {"connect", "tls", "associate"}
    /\ RelayAnswers("success", "relay")

(* The socket could not be protected; the command is not known: answered,  *)
(* and then the socket is neither read nor closed.                         *)
Refuses ==
    \/ request.cmd = "associate" /\ RelayAnswers("failure", "idle")
    \/ request.cmd \notin {"connect", "tls", "associate"} /\ RelayAnswers("unknown", "idle")

(* Mutant: a failed connection leaves the engine's socket open. *)
DropsConnection ==
    /\ relay = "serve" /\ request.cmd = "connect"
    /\ relay' = "idle"
    /\ UNCHANGED <<config, engineSide, valid, request, up, down, read>>

(* The upstream connection, or anything else, failed. *)
ConnectionFails ==
    /\ relay = "serve" /\ request.cmd \in {"connect", "associate"}
    /\ UNCHANGED <<config, engineSide, valid, request, up, read>>
    /\ RelayCloses(<<>>)

(* From here on everything that is read belongs to the connection. *)
Relays ==
    /\ relay = "relay" /\ up # <<>>
    /\ read' = read \o up
    /\ up' = <<>>
    /\ UNCHANGED <<config, engineSide, relay, valid, request, down>>

(* The engine is gone and what a read asks for will not come. *)
RelaySeesTheEnd ==
    /\ engine = "failed"
    /\ \/ relay = "greeting" /\ Len(up) < 3
       \/ relay = "creds" /\ Len(up) < 2
       \/ relay = "request" /\ Len(up) < 4
       \/ relay = "relay" /\ up = <<>>
    /\ relay' = "closed"
    /\ UNCHANGED <<config, engineSide, valid, request, up, down, read>>

RelaySteps ==
    \/ Negotiates1 \/ Negotiates2 \/ ReadsRequest
    \/ Serves \/ Refuses \/ ConnectionFails \/ Relays \/ RelaySeesTheEnd

HandshakeNext == EngineSteps \/ EngineGivesUp \/ RelaySteps

HandshakeSpec == HandshakeInit /\ [][HandshakeNext]_handshakeVars

-----------------------------------------------------------------------------
(* Properties *)

(* When the engine begins to splice, the relay has accepted it, has read   *)
(* the very request that the engine was to make and has not refused it.    *)
AgreedOnRequest ==
    engine = "splice" =>
        /\ valid /\ config.user = Secret /\ relay # "idle"
        /\ request = [cmd |-> config.cmd, dest |-> config.dest]

(* Not a field of the handshake is taken for the application's bytes, and  *)
(* none of these is lost: in either order of writing, what follows the     *)
(* request is what the splice sent.                                        *)
PayloadIsWhole ==
    (engine = "splice" /\ relay = "relay") => read \o up = Payload

(* Both sides cut the two streams at the same places: the relay serves     *)
(* the request that the engine made, and relays what belongs to it.        *)
SplicedAsAsked == AgreedOnRequest /\ PayloadIsWhole

(* Neither side waits for a word that the other will not say: the engine   *)
(* comes to an end of its handshake without any time-out, and the relay    *)
(* does not keep negotiating with an engine that is gone.                  *)
HandshakeSettles ==
    /\ <>(engine # "handshake")
    /\ (engine = "failed") ~> (relay \in {"idle", "closed"})

=============================================================================
