--------------------------- MODULE ConnectionProofs ---------------------------
(***************************************************************************)
(* What passes between the engine and the relay.                           *)
(*                                                                         *)
(* UdpAssociation, for any servers and any number of datagrams: the client *)
(* of an association is the engine, and it relays one for one.             *)
(*                                                                         *)
(* SocksHandshake, for any credentials, destinations and payload: of what  *)
(* one side wrote the other has not read exactly the rest, so both cut the *)
(* two streams at the same places.                                         *)
(***************************************************************************)
EXTENDS UdpAssociation, SocksHandshake, SequenceTheorems, TLAPS

(* What the loop rests on: servers are only asked by what left, and what    *)
(* left stands for a datagram before the one in hand.                      *)
Relayed ==
    /\ UdpaTypeOK
    /\ ClientIsEngine
    /\ packet < next /\ next <= Len(seen) + 1
    /\ packet > 0 => client = "engine"
    /\ client = NoAddress => next = 1 /\ answering = {}
    /\ \A i \in DOMAIN seen : seen[i].from # "engine" => client # NoAddress
    /\ \A k \in DOMAIN left :
         /\ left[k].id \in 1 .. next - 1
         /\ packet > 0 => left[k].id < packet
         /\ StandsFor(left[k], seen[left[k].id])
    /\ \A j, k \in DOMAIN left : j < k => left[j].id < left[k].id
    /\ packet > 0 => packet = next - 1

LEMMA Elements ==
    ASSUME NEW S, NEW s \in Seq(S)
    PROVE  \A k \in 1 .. Len(s) : k \in DOMAIN s /\ s[k] \in S
OBVIOUS

LEMMA RelayedInit == UdpaInit => Relayed
BY AddressAssumption DEF UdpaInit, Relayed, UdpaTypeOK, ClientIsEngine

LEMMA RelayedStep ==
    ASSUME Relayed, [UdpaNext]_udpaVars
    PROVE  Relayed'
<1> USE AddressAssumption DEF Relayed, UdpaTypeOK, ClientIsEngine
<1>1. ASSUME NEW from \in Peers, NEW what \in Packets, NEW to \in Peers,
             Arrives(from, what, to), from # "engine" => client # NoAddress
      PROVE  Relayed'
  <2> DEFINE d == [from |-> from, what |-> what, to |-> to]
  <2>1. /\ seen' = Append(seen, d) /\ Len(seen') = Len(seen) + 1
        /\ seen' \in Seq([from : Peers, what : Packets, to : Peers])
        /\ \A i \in DOMAIN seen : seen'[i] = seen[i]
        /\ seen'[Len(seen) + 1] = d
    BY <1>1 DEF Arrives, Peers
  <2>2. \A k \in DOMAIN left : left[k].id \in DOMAIN seen
    OBVIOUS
  <2>3. UNCHANGED <<next, left, answering, client, packet, socket>>
    BY <1>1 DEF Arrives
  <2>4. \A i \in DOMAIN seen' : seen'[i].from # "engine" => client' # NoAddress
    BY <1>1, <2>1, <2>3
  <2>5. \A k \in DOMAIN left : StandsFor(left[k], seen'[left[k].id])
    BY <2>1, <2>2
  <2> QED BY <2>1, <2>3, <2>4, <2>5 DEF Peers
<1>2. CASE EngineSends
  <2> PICK what \in Packets, to \in Servers : Arrives("engine", what, to)
    BY <1>2 DEF EngineSends
  <2> QED BY <1>1 DEF Peers
<1>3. CASE ServerAnswers
  <2>1. PICK s \in answering : Arrives(s, "data", "engine")
    BY <1>3 DEF ServerAnswers
  <2>2. s \in Peers /\ "data" \in Packets /\ "engine" \in Peers /\ client # NoAddress
    BY <2>1 DEF Peers, Packets
  <2> QED BY <1>1, <2>1, <2>2
<1>4. CASE ControlEnds
  BY <1>4 DEF ControlEnds
<1>5. CASE Receives
  <2>1. next \in 1 .. Len(seen)
    BY <1>5 DEF Receives
  <2>2. client' = "engine" /\ packet' = next /\ next' = next + 1
    BY <1>5, <2>1 DEF Receives
  <2>3. UNCHANGED <<seen, left, answering, socket>>
    BY <1>5 DEF Receives
  <2>4. UdpaTypeOK'
    BY <2>1, <2>2, <2>3 DEF Peers
  <2>5. ClientIsEngine'
    BY <2>2
  <2>6. packet' < next' /\ next' <= Len(seen') + 1 /\ packet' = next' - 1
    BY <2>1, <2>2, <2>3
  <2>7. \A k \in DOMAIN left :
          /\ left[k].id \in 1 .. next' - 1 /\ left[k].id < packet'
          /\ StandsFor(left[k], seen[left[k].id])
    BY <2>1, <2>2, SMTT(30)
  <2> QED BY <2>2, <2>3, <2>4, <2>5, <2>6, <2>7
<1>6. CASE Skips
  BY <1>6 DEF Skips
<1>7. CASE Sends
  <2> DEFINE d == seen[packet]
             out == IF ~FromClient(d) THEN [id |-> packet, to |-> client, source |-> d.from]
                    ELSE IF d.what = "fixedQuery" THEN [id |-> packet, to |-> client, source |-> d.to]
                    ELSE [id |-> packet, to |-> d.to, source |-> client]
  <2>1. /\ packet \in DOMAIN seen /\ client = "engine"
        /\ d \in [from : Peers, what : Packets, to : Peers]
    <3>1. packet \in 1 .. Len(seen) /\ client = "engine"
      BY <1>7 DEF Sends
    <3>2. seen \in Seq([from : Peers, what : Packets, to : Peers])
      OBVIOUS
    <3> QED BY <3>1, <3>2, Elements
  <2>2. /\ left' = Append(left, out) /\ Len(left') = Len(left) + 1
        /\ \A k \in DOMAIN left : left'[k] = left[k]
        /\ left'[Len(left) + 1] = out
        /\ ~Skipped(d) /\ ~Throws(d)
    BY <1>7 DEF Sends
  <2>3. out \in [id : Nat, to : Peers, source : Peers] /\ out.id = packet
    BY <2>1 DEF Peers
  <2>4. StandsFor(out, d)
    BY <2>1, <2>2 DEF StandsFor, Skipped, Throws, FromClient, Packets
  <2>5. left' \in Seq([id : Nat, to : Peers, source : Peers])
    BY <2>2, <2>3 DEF Peers
  <2>6. answering' \subseteq Servers
    <3>1. answering' = answering \cup ({left'[k].to : k \in DOMAIN left'} \ {"engine"})
      BY <1>7, <2>1 DEF Sends
    <3>2. \A k \in 1 .. Len(left') : left'[k] \in [id : Nat, to : Peers, source : Peers]
      BY <2>5, Elements
    <3>3. DOMAIN left' = 1 .. Len(left')
      BY <2>5
    <3> QED BY <3>1, <3>2, <3>3 DEF Peers
  <2>7. UNCHANGED <<seen, next, client, socket>> /\ packet' = 0
    BY <1>7 DEF Sends
  <2>8. UdpaTypeOK'
    BY <2>5, <2>6, <2>7 DEF Peers
  <2>9. \A k \in DOMAIN left' :
          /\ left'[k].id \in 1 .. next - 1
          /\ StandsFor(left'[k], seen[left'[k].id])
    BY <2>1, <2>2, <2>3, <2>4
  <2>10. \A j, k \in DOMAIN left' : j < k => left'[j].id < left'[k].id
    BY <2>2, <2>3, <2>1
  <2> QED BY <2>1, <2>7, <2>8, <2>9, <2>10 DEF Peers
<1>8. CASE AssociationEnds
  BY <1>8 DEF AssociationEnds
<1>9. CASE UNCHANGED udpaVars
  BY <1>9 DEF udpaVars
<1> QED BY <1>2, <1>3, <1>4, <1>5, <1>6, <1>7, <1>8, <1>9 DEF UdpaNext, Loop

(* Every datagram on its way through an association has its cause, and     *)
(* none of them names a client but the engine.                             *)
THEOREM RelayedInvariance == UdpaSpec => []Relayed
BY RelayedInit, RelayedStep, PTL DEF UdpaSpec

(* The client of an association is the engine, although the loop takes     *)
(* whoever comes first for it.                                             *)
THEOREM ClientIsEngineTheorem == UdpaSpec => []ClientIsEngine
<1>1. Relayed => ClientIsEngine BY DEF Relayed
<1> QED BY RelayedInvariance, <1>1, PTL

(* Every datagram that leaves stands for one that came, in their order.    *)
THEOREM OneForOneTheorem == UdpaSpec => []OneForOne
<1>1. Relayed => OneForOne BY DEF Relayed, OneForOne
<1> QED BY RelayedInvariance, <1>1, PTL

(* The relay of an association is one: all that a run checks of it.        *)
THEOREM UdpaInvariance == UdpaSpec => []UdpaInv
<1>1. Relayed => UdpaInv BY DEF Relayed, UdpaInv, OneForOne
<1> QED BY RelayedInvariance, <1>1, PTL


-----------------------------------------------------------------------------
(* The handshake of the engine with the relay *)

(* The prover does not know of a literal that it is a member of STRING.    *)
Words == {"v5", "v1", "one", "none", "user", "rsv", "success", "none acceptable", "failure", "unknown"}

Fields == Words \cup Requests \cup Users \cup Dests \cup {NoUser, Bound} \cup STRING

(* What the engine writes in its three blocks, and the good answers of the *)
(* relay in its three.                                                     *)
Methods == <<"v5", "one", IF config.user = NoUser THEN "none" ELSE "user">>
Creds == IF config.user = NoUser THEN <<>> ELSE <<"v1", config.user>>
Request == <<"v5", config.cmd, "rsv", config.dest>>

Method == <<"v5", "user">>
Verdict == <<"v1", "success">>
Response == <<"v5", "success", "rsv", Bound>>

(* Of three blocks, those after the first r up to the first w: of w that   *)
(* were written, r are read.                                               *)
Unread(b1, b2, b3, r, w) ==
    (IF r < 1 /\ 1 <= w THEN b1 ELSE <<>>)
      \o ((IF r < 2 /\ 2 <= w THEN b2 ELSE <<>>)
      \o (IF r < 3 /\ 3 <= w THEN b3 ELSE <<>>))

Up(c, w) == Unread(Methods, Creds, Request, c, w)
Down(e, g) == Unread(Method, Verdict, Response, e, g)

Block(b1, b2, b3, k) == IF k = 1 THEN b1 ELSE IF k = 2 THEN b2 ELSE b3

Order == IF config.pipeline THEN Pipeline ELSE Standard

(* Before the i-th step of its order, the engine has written w blocks and  *)
(* read e answers, and t is what is left to do.                            *)
EngineAt(w, e, t) ==
    \E i \in 1 .. 7 :
      /\ t = SubSeq(Order, i, 6)
      /\ IF config.pipeline THEN IF i <= 4 THEN w = i - 1 /\ e = 0 ELSE w = 3 /\ e = i - 4
         ELSE w = i \div 2 /\ e = (i - 1) \div 2

(* What the relay may say when it closes the connection.                   *)
Closing(g, last) ==
    \/ g \in {0, 1, 2} /\ last = <<>>
    \/ g = 0 /\ last = <<"v5", "none acceptable">>
    \/ g = 1 /\ last = <<"v1", "failure">>

(* The relay has read c blocks and given g good answers, and then last;    *)
(* what it read no longer matters when it has closed the connection.       *)
RelayAt(c, g, last) ==
    \/ relay = "greeting" /\ c = 0 /\ g = 0 /\ last = <<>>
    \/ relay = "creds" /\ c = 1 /\ g = 1 /\ last = <<>>
    \/ relay = "request" /\ c = 2 /\ g = 2 /\ last = <<>>
    \/ relay = "serve" /\ c = 3 /\ g = 2 /\ last = <<>>
    \/ relay = "relay" /\ c = 3 /\ g = 3 /\ last = <<>>
    \/ /\ relay = "idle" /\ c = 3 /\ g = 2
       /\ \E code \in {"failure", "unknown"} : last = <<"v5", code, "rsv", Bound>>
    \/ relay = "closed" /\ c = 0 /\ Closing(g, last)

(* What the relay knows after c blocks. *)
Told(c) ==
    /\ c >= 1 => config.user # NoUser
    /\ c >= 2 => valid /\ config.user = Secret
    /\ c >= 3 => request = [cmd |-> config.cmd, dest |-> config.dest]

Refusals ==
    {<<>>, <<"v5", "none acceptable">>, <<"v1", "failure">>,
     <<"v5", "failure", "rsv", Bound>>, <<"v5", "unknown", "rsv", Bound>>}

ConfigOK == config \in [pipeline : BOOLEAN, user : Users \cup {NoUser}, cmd : Requests, dest : Dests]

(* Of what one side wrote, the other has not read the rest. *)
Midway(w, e, c, g, last) ==
    /\ EngineAt(w, e, todo) /\ RelayAt(c, g, last) /\ Told(c)
    /\ c <= w /\ e <= g
    /\ relay # "closed" => up = Up(c, w)
    /\ \/ down = Down(e, g) \o last
       \/ relay = "closed" /\ down = <<>>

InStep ==
    /\ ConfigOK
    /\ engine \in {"handshake", "splice", "failed"}
    /\ engine = "handshake" =>
         /\ read = <<>>
         /\ \E w, e, c, g \in 0 .. 3 : \E last \in Refusals : Midway(w, e, c, g, last)
    /\ engine = "splice" =>
         /\ relay = "relay" /\ Told(3)
         /\ read \in Seq(Fields) /\ up \in Seq(Fields) /\ read \o up = Payload

Cut(s, t, d) ==
    /\ SubSeq(d, Len(s) + 1, Len(d)) = t
    /\ \A i \in 1 .. Len(s) : d[i] = s[i]

LEMMA Joined ==
    ASSUME NEW S, NEW s \in Seq(S), NEW t \in Seq(S)
    PROVE  /\ s \o t \in Seq(S) /\ Len(s \o t) = Len(s) + Len(t)
           /\ s \o <<>> = s /\ <<>> \o s = s
OBVIOUS

LEMMA CutAgain ==
    ASSUME NEW S, NEW s \in Seq(S), NEW t \in Seq(S), NEW d, d = s \o t
    PROVE  Cut(s, t, d)
BY DEF Cut

LEMMA Associative ==
    ASSUME NEW S, NEW s \in Seq(S), NEW t \in Seq(S), NEW u \in Seq(S)
    PROVE  (s \o t) \o u = s \o (t \o u)
OBVIOUS

(* Writing the next block adds it at the end, and what is unread begins    *)
(* with the block after those that are read.                               *)
GoesOn(S, b1, b2, b3, r, w) ==
    /\ Unread(b1, b2, b3, r, w) \in Seq(S)
    /\ r = w => Unread(b1, b2, b3, r, w) = <<>>
    /\ w < 3 => Unread(b1, b2, b3, r, w) \o Block(b1, b2, b3, w + 1) = Unread(b1, b2, b3, r, w + 1)
    /\ r < w => Unread(b1, b2, b3, r, w) = Block(b1, b2, b3, r + 1) \o Unread(b1, b2, b3, r + 1, w)

LEMMA UnreadFacts ==
    ASSUME NEW S, NEW b1 \in Seq(S), NEW b2 \in Seq(S), NEW b3 \in Seq(S),
           NEW r \in 0 .. 3, NEW w \in 0 .. 3, r <= w
    PROVE  GoesOn(S, b1, b2, b3, r, w)
<1> DEFINE U(i, j) == Unread(b1, b2, b3, i, j)
           B(k) == Block(b1, b2, b3, k)
<1>1. b1 \o b2 \in Seq(S) /\ b2 \o b3 \in Seq(S)
  BY Joined
<1>2. b1 \o (b2 \o b3) \in Seq(S)
  BY <1>1, Joined
<1>3. (b1 \o b2) \o b3 = b1 \o (b2 \o b3)
  BY Associative
<1>4. <<>> \in Seq(S) /\ <<>> \o <<>> = <<>>
  OBVIOUS
<1>5. \A s \in Seq(S) : s \o <<>> = s /\ <<>> \o s = s
  OBVIOUS
<1>6. /\ U(0, 0) = <<>> \o (<<>> \o <<>>) /\ U(1, 1) = <<>> \o (<<>> \o <<>>)
      /\ U(2, 2) = <<>> \o (<<>> \o <<>>) /\ U(3, 3) = <<>> \o (<<>> \o <<>>)
  BY DEF Unread
<1>7. /\ U(0, 1) = b1 \o (<<>> \o <<>>) /\ U(1, 2) = <<>> \o (b2 \o <<>>)
      /\ U(2, 3) = <<>> \o (<<>> \o b3)
  BY DEF Unread
<1>8. /\ U(0, 2) = b1 \o (b2 \o <<>>) /\ U(1, 3) = <<>> \o (b2 \o b3)
      /\ U(0, 3) = b1 \o (b2 \o b3)
  BY DEF Unread
<1>9. B(1) = b1 /\ B(2) = b2 /\ B(3) = b3
  BY DEF Block
<1>10. U(0, 0) = <<>> /\ U(1, 1) = <<>> /\ U(2, 2) = <<>> /\ U(3, 3) = <<>>
  BY <1>4, <1>6, Zenon
<1>11. /\ U(0, 1) = b1 /\ U(1, 2) = b2 /\ U(2, 3) = b3
       /\ U(0, 2) = b1 \o b2 /\ U(1, 3) = b2 \o b3 /\ U(0, 3) = b1 \o (b2 \o b3)
  BY <1>1, <1>2, <1>4, <1>5, <1>7, <1>8, Zenon
<1> HIDE DEF U, B
<1>15. r = w => r \in {0, 1, 2, 3}
  OBVIOUS
<1>16. r < w =>
         \/ (r = 0 /\ w = 1) \/ (r = 1 /\ w = 2) \/ (r = 2 /\ w = 3)
         \/ (r = 0 /\ w = 2) \/ (r = 1 /\ w = 3) \/ (r = 0 /\ w = 3)
  OBVIOUS
<1>17. r = w \/ r < w
  OBVIOUS
<1>12. U(r, w) \in Seq(S)
  <2>1. CASE r = w BY <2>1, <1>4, <1>10, <1>15, Zenon
  <2>2. CASE r < w BY <2>2, <1>1, <1>2, <1>11, <1>16, Zenon
  <2> QED BY <2>1, <2>2, <1>17
<1>18. r = w => U(r, w) = <<>>
  BY <1>10, <1>15, Zenon
<1>13. ASSUME w < 3 PROVE U(r, w) \o B(w + 1) = U(r, w + 1)
  <2>1. /\ U(0, 0) \o B(1) = U(0, 1) /\ U(1, 1) \o B(2) = U(1, 2) /\ U(2, 2) \o B(3) = U(2, 3)
    BY <1>5, <1>9, <1>10, <1>11, Zenon
  <2>2. /\ U(0, 1) \o B(2) = U(0, 2) /\ U(1, 2) \o B(3) = U(1, 3) /\ U(0, 2) \o B(3) = U(0, 3)
    BY <1>3, <1>9, <1>11, Zenon
  <2>3. (r = 0 /\ w = 0) \/ (r = 1 /\ w = 1) \/ (r = 2 /\ w = 2) \/ (r = 0 /\ w = 1) \/ (r = 1 /\ w = 2) \/ (r = 0 /\ w = 2)
    BY <1>13
  <2>4. 0 + 1 = 1 /\ 1 + 1 = 2 /\ 2 + 1 = 3
    OBVIOUS
  <2> QED BY <2>1, <2>2, <2>3, <2>4, Zenon
<1>14. ASSUME r < w PROVE U(r, w) = B(r + 1) \o U(r + 1, w)
  <2>1. /\ U(0, 1) = B(1) \o U(1, 1) /\ U(1, 2) = B(2) \o U(2, 2) /\ U(2, 3) = B(3) \o U(3, 3)
    BY <1>5, <1>9, <1>10, <1>11, Zenon
  <2>2. /\ U(0, 2) = B(1) \o U(1, 2) /\ U(1, 3) = B(2) \o U(2, 3) /\ U(0, 3) = B(1) \o U(1, 3)
    BY <1>9, <1>11, Zenon
  <2>4. 0 + 1 = 1 /\ 1 + 1 = 2 /\ 2 + 1 = 3
    OBVIOUS
  <2> QED BY <1>14, <1>16, <2>1, <2>2, <2>4, Zenon
<1> QED BY <1>12, <1>13, <1>14, <1>18 DEF U, B, GoesOn

(* The steps that the engine has done tell where it is.                    *)
Steps == {"methods", "creds", "request", "method", "verdict", "response"}

LEMMA OrderOfSteps ==
    /\ Pipeline[1] = "methods" /\ Pipeline[2] = "creds" /\ Pipeline[3] = "request"
    /\ Pipeline[4] = "method" /\ Pipeline[5] = "verdict" /\ Pipeline[6] = "response"
    /\ Standard[1] = "methods" /\ Standard[2] = "method" /\ Standard[3] = "creds"
    /\ Standard[4] = "verdict" /\ Standard[5] = "request" /\ Standard[6] = "response"
BY DEF Pipeline, Standard

LEMMA OrderFacts ==
    ASSUME NEW i \in 1 .. 7
    PROVE  /\ i <= 6 =>
                /\ SubSeq(Order, i, 6) # <<>>
                /\ Head(SubSeq(Order, i, 6)) = Order[i]
                /\ Tail(SubSeq(Order, i, 6)) = SubSeq(Order, i + 1, 6)
           /\ i = 7 => SubSeq(Order, i, 6) = <<>>
<1>1. PICK s : s = Order OBVIOUS
<1>2. \A k \in 1 .. 6 : s[k] \in Steps
  <2>1. \A k \in 1 .. 6 : k \in {1, 2, 3, 4, 5, 6} OBVIOUS
  <2>2. CASE s = Pipeline
    <3>1. /\ s[1] \in Steps /\ s[2] \in Steps /\ s[3] \in Steps
          /\ s[4] \in Steps /\ s[5] \in Steps /\ s[6] \in Steps
      BY <2>2, OrderOfSteps DEF Steps
    <3> QED BY <2>1, <3>1, Zenon
  <2>3. CASE s = Standard
    <3>1. /\ s[1] \in Steps /\ s[2] \in Steps /\ s[3] \in Steps
          /\ s[4] \in Steps /\ s[5] \in Steps /\ s[6] \in Steps
      BY <2>3, OrderOfSteps DEF Steps
    <3> QED BY <2>1, <3>1, Zenon
  <2> QED BY <1>1, <2>2, <2>3 DEF Order
<1>3. PICK p, q : p = SubSeq(s, i, 6) /\ q = SubSeq(s, i + 1, 6)
  OBVIOUS
<1>4. i \in Int /\ i + 1 \in Int /\ 6 \in Int
  OBVIOUS
<1>5. /\ p \in Seq(Steps) /\ Len(p) = IF i <= 6 THEN 6 - i + 1 ELSE 0
      /\ \A k \in 1 .. 6 - i + 1 : p[k] = s[i + k - 1]
  <2>1. \A k \in i .. 6 : s[k] \in Steps BY <1>2
  <2> QED BY <1>3, <1>4, <2>1, SubSeqProperties
<1>6. /\ q \in Seq(Steps) /\ Len(q) = IF i + 1 <= 6 THEN 6 - (i + 1) + 1 ELSE 0
      /\ \A k \in 1 .. 6 - (i + 1) + 1 : q[k] = s[(i + 1) + k - 1]
  <2>1. \A k \in i + 1 .. 6 : s[k] \in Steps BY <1>2
  <2> QED BY <1>3, <1>4, <2>1, SubSeqProperties
<1>7. ASSUME i <= 6
      PROVE  p # <<>> /\ Head(p) = s[i] /\ Tail(p) = q
  <2>1. Len(p) = 7 - i /\ p # <<>>
    BY <1>5, <1>7
  <2>2. Head(p) = s[i]
    <3>1. p[1] = s[i] BY <1>5, <1>7
    <3> QED BY <3>1
  <2>3. /\ Tail(p) \in Seq(Steps) /\ Len(Tail(p)) = 6 - i
        /\ \A k \in 1 .. 6 - i : Tail(p)[k] = p[k + 1]
    BY <1>5, <2>1, HeadTailProperties
  <2>4. Len(q) = 6 - i
    BY <1>6, <1>7
  <2>5. ASSUME NEW k \in 1 .. 6 - i PROVE Tail(p)[k] = q[k]
    <3>1. Tail(p)[k] = p[k + 1] BY <2>3
    <3>2. p[k + 1] = s[i + k] BY <1>5, <1>7
    <3>3. q[k] = s[i + k] BY <1>6, <1>7
    <3> QED BY <3>1, <3>2, <3>3
  <2>6. Tail(p) = q
    BY <1>6, <2>3, <2>4, <2>5, SeqEqual
  <2> QED BY <2>1, <2>2, <2>6
<1>8. ASSUME i = 7 PROVE p = <<>>
  BY <1>5, <1>8
<1> QED BY <1>1, <1>3, <1>7, <1>8

LEMMA EngineGoesOn ==
    ASSUME NEW w, NEW e, NEW t, EngineAt(w, e, t), config.pipeline \in BOOLEAN
    PROVE  /\ t = <<>> => w = 3 /\ e = 3
           /\ t # <<>> =>
                /\ Head(t) = "methods" => w = 0 /\ EngineAt(1, e, Tail(t))
                /\ Head(t) = "creds" => w = 1 /\ EngineAt(2, e, Tail(t))
                /\ Head(t) = "request" => w = 2 /\ EngineAt(3, e, Tail(t))
                /\ Head(t) = "method" => e = 0 /\ EngineAt(w, 1, Tail(t))
                /\ Head(t) = "verdict" => e = 1 /\ EngineAt(w, 2, Tail(t))
                /\ Head(t) = "response" => e = 2 /\ EngineAt(w, 3, Tail(t))
<1> DEFINE At(i, v, f) ==
      IF config.pipeline THEN IF i <= 4 THEN v = i - 1 /\ f = 0 ELSE v = 3 /\ f = i - 4
      ELSE v = i \div 2 /\ f = (i - 1) \div 2
<1>1. PICK i \in 1 .. 7 : t = SubSeq(Order, i, 6) /\ At(i, w, e)
  BY DEF EngineAt
<1>2. CASE i = 7
  BY <1>1, <1>2, OrderFacts
<1>3. CASE i <= 6
  <2>1. t # <<>> /\ Head(t) = Order[i] /\ Tail(t) = SubSeq(Order, i + 1, 6)
    BY <1>1, <1>3, OrderFacts
  <2>2. \A v, f : At(i + 1, v, f) => EngineAt(v, f, Tail(t))
    <3>1. PICK j \in 1 .. 7 : j = i + 1 BY <1>3
    <3>2. Tail(t) = SubSeq(Order, j, 6) BY <2>1, <3>1
    <3>3. \A v, f : At(j, v, f) => EngineAt(v, f, Tail(t))
      BY <3>2 DEF EngineAt
    <3> HIDE DEF At
    <3> QED BY <3>1, <3>3
  <2>3. /\ Head(t) = "methods" => w = 0 /\ At(i + 1, 1, e)
        /\ Head(t) = "creds" => w = 1 /\ At(i + 1, 2, e)
        /\ Head(t) = "request" => w = 2 /\ At(i + 1, 3, e)
        /\ Head(t) = "method" => e = 0 /\ At(i + 1, w, 1)
        /\ Head(t) = "verdict" => e = 1 /\ At(i + 1, w, 2)
        /\ Head(t) = "response" => e = 2 /\ At(i + 1, w, 3)
    <3>1. i \in {1, 2, 3, 4, 5, 6}
      BY <1>3
    <3>2. CASE config.pipeline
      BY <1>1, <2>1, <3>1, <3>2, OrderOfSteps, SMTT(30) DEF Order
    <3>3. CASE ~config.pipeline
      BY <1>1, <2>1, <3>1, <3>3, OrderOfSteps, SMTT(30) DEF Order
    <3> QED BY <3>2, <3>3
  <2> HIDE DEF At
  <2> QED BY <2>1, <2>2, <2>3
<1> QED BY <1>2, <1>3

(* The blocks and the answers, field by field.                             *)
LEMMA BlocksOfEngine ==
    ASSUME ConfigOK
    PROVE  /\ Methods \in Seq(Fields) /\ Len(Methods) = 3
           /\ config.user = NoUser => Methods[3] # "user"
           /\ Creds \in Seq(Fields)
           /\ config.user # NoUser => Len(Creds) = 2 /\ Creds[2] = config.user
           /\ Request \in Seq(Fields) /\ Len(Request) = 4
           /\ Request[2] = config.cmd /\ Request[4] = config.dest
<1>1. config.user \in Fields /\ config.cmd \in Fields /\ config.dest \in Fields
  BY DEF ConfigOK, Fields
<1>2. /\ "v5" \in Fields /\ "one" \in Fields /\ "none" \in Fields /\ "user" \in Fields
      /\ "v1" \in Fields /\ "rsv" \in Fields
  BY DEF Fields, Words
<1>3. Methods \in Seq(Fields) /\ Len(Methods) = 3
  <2>1. (IF config.user = NoUser THEN "none" ELSE "user") \in Fields BY <1>2
  <2> QED BY <1>2, <2>1 DEF Methods
<1>4. config.user = NoUser => Methods[3] # "user"
  BY DEF Methods
<1>5. Creds \in Seq(Fields) /\ (config.user # NoUser => Len(Creds) = 2 /\ Creds[2] = config.user)
  BY <1>1, <1>2 DEF Creds
<1>6. Request \in Seq(Fields) /\ Len(Request) = 4
  BY <1>1, <1>2 DEF Request
<1>7. Request[2] = config.cmd /\ Request[4] = config.dest
  BY DEF Request
<1> QED BY <1>3, <1>4, <1>5, <1>6, <1>7

LEMMA AnswersOfRelay ==
    /\ Method \in Seq(Fields) /\ Len(Method) = 2 /\ Method[2] = "user"
    /\ Verdict \in Seq(Fields) /\ Len(Verdict) = 2
    /\ Response \in Seq(Fields) /\ Len(Response) = 4
<1>1. /\ "v5" \in Fields /\ "user" \in Fields /\ "v1" \in Fields /\ "success" \in Fields
      /\ "rsv" \in Fields /\ Bound \in Fields
  BY DEF Fields, Words
<1>2. Method \in Seq(Fields) /\ Len(Method) = 2 /\ Method[2] = "user"
  BY <1>1 DEF Method
<1>3. Verdict \in Seq(Fields) /\ Len(Verdict) = 2
  BY <1>1 DEF Verdict
<1>4. Response \in Seq(Fields) /\ Len(Response) = 4
  BY <1>1 DEF Response
<1> QED BY <1>2, <1>3, <1>4

LEMMA TwoFields == \A a, b \in Fields : <<a, b>> \in Seq(Fields)
OBVIOUS

LEMMA FieldsAssociate == \A s, t, u \in Seq(Fields) : (s \o t) \o u = s \o (t \o u)
BY Associative

LEMMA FourFields == \A a, b, c, d \in Fields : <<a, b, c, d>> \in Seq(Fields)
OBVIOUS

(* Nothing that the relay says last is good.                               *)
LEMMA RefusalFacts ==
    ASSUME NEW last \in Refusals
    PROVE  /\ last \in Seq(Fields)
           /\ last = <<>> \/ last[2] \in {"none acceptable", "failure", "unknown"}
<1>1. /\ "v5" \in Fields /\ "none acceptable" \in Fields /\ "v1" \in Fields /\ "failure" \in Fields
      /\ "unknown" \in Fields /\ "rsv" \in Fields /\ Bound \in Fields
  BY DEF Fields, Words
<1>2. CASE last = <<>>
  <2>1. <<>> \in Seq(Fields) OBVIOUS
  <2> QED BY <1>2, <2>1
<1>3. CASE last = <<"v5", "none acceptable">>
  <2>1. <<"v5", "none acceptable">> \in Seq(Fields) BY <1>1, TwoFields
  <2>2. last[2] = "none acceptable" BY <1>3
  <2> QED BY <1>3, <2>1, <2>2
<1>4. CASE last = <<"v1", "failure">>
  <2>1. <<"v1", "failure">> \in Seq(Fields) BY <1>1, TwoFields
  <2>2. last[2] = "failure" BY <1>4
  <2> QED BY <1>4, <2>1, <2>2
<1>5. CASE last = <<"v5", "failure", "rsv", Bound>>
  <2>1. <<"v5", "failure", "rsv", Bound>> \in Seq(Fields) BY <1>1, FourFields
  <2>2. last[2] = "failure" BY <1>5
  <2> QED BY <1>5, <2>1, <2>2
<1>6. CASE last = <<"v5", "unknown", "rsv", Bound>>
  <2>1. <<"v5", "unknown", "rsv", Bound>> \in Seq(Fields) BY <1>1, FourFields
  <2>2. last[2] = "unknown" BY <1>6
  <2> QED BY <1>6, <2>1, <2>2
<1> QED BY <1>2, <1>3, <1>4, <1>5, <1>6 DEF Refusals

(* The engine writes its next block.                                       *)
LEMMA WrittenOn ==
    ASSUME ConfigOK, NEW c \in 0 .. 3, NEW w \in 0 .. 3, c <= w
    PROVE  /\ Up(c, w) \in Seq(Fields) /\ (c = w => Up(c, w) = <<>>)
           /\ w = 0 => Up(c, w) \o Methods = Up(c, 1)
           /\ w = 1 => Up(c, w) \o Creds = Up(c, 2)
           /\ w = 2 => Up(c, w) \o Request = Up(c, 3)
<1>5. Methods \in Seq(Fields) /\ Creds \in Seq(Fields) /\ Request \in Seq(Fields)
  BY BlocksOfEngine
<1>6. GoesOn(Fields, Methods, Creds, Request, c, w)
  BY <1>5, UnreadFacts
<1>1. Up(c, w) \in Seq(Fields) /\ (c = w => Up(c, w) = <<>>)
  BY <1>6, Zenon DEF Up, GoesOn
<1>2. w < 3 => Up(c, w) \o Block(Methods, Creds, Request, w + 1) = Up(c, w + 1)
  BY <1>6, Zenon DEF Up, GoesOn
<1>3. /\ Block(Methods, Creds, Request, 1) = Methods /\ Block(Methods, Creds, Request, 2) = Creds
      /\ Block(Methods, Creds, Request, 3) = Request
  BY DEF Block
<1>4. 0 < 3 /\ 1 < 3 /\ 2 < 3 /\ 0 + 1 = 1 /\ 1 + 1 = 2 /\ 2 + 1 = 3
  OBVIOUS
<1> QED BY <1>1, <1>2, <1>3, <1>4, Zenon

(* The relay reads the next block.                                         *)
LEMMA ReadOn ==
    ASSUME ConfigOK, NEW c \in 0 .. 3, NEW w \in 0 .. 3, c <= w, Len(Up(c, w)) > 0
    PROVE  /\ c < w
           /\ c = 0 => /\ SubSeq(Up(c, w), 4, Len(Up(c, w))) = Up(1, w)
                       /\ Up(c, w)[3] = Methods[3]
           /\ c = 1 /\ config.user # NoUser =>
                       /\ SubSeq(Up(c, w), 3, Len(Up(c, w))) = Up(2, w)
                       /\ Up(c, w)[2] = config.user
           /\ c = 2 => /\ SubSeq(Up(c, w), 5, Len(Up(c, w))) = Up(3, w)
                       /\ Up(c, w)[2] = config.cmd /\ Up(c, w)[4] = config.dest
<1>1. Up(c, w) \in Seq(Fields) /\ c < w
  <2>1. Up(c, w) \in Seq(Fields) /\ (c = w => Up(c, w) = <<>>)
    BY WrittenOn
  <2> QED BY <2>1
<1>2. PICK s, t : s = Block(Methods, Creds, Request, c + 1) /\ t = Up(c + 1, w)
  OBVIOUS
<1>3. Up(c, w) = s \o t
  <2>1. Methods \in Seq(Fields) /\ Creds \in Seq(Fields) /\ Request \in Seq(Fields)
    BY BlocksOfEngine
  <2>2. Up(c, w) = Block(Methods, Creds, Request, c + 1) \o Up(c + 1, w)
    <3>1. GoesOn(Fields, Methods, Creds, Request, c, w) BY <2>1, UnreadFacts
    <3> QED BY <1>1, <3>1, Zenon DEF Up, GoesOn
  <2> QED BY <1>2, <2>2, Zenon
<1>4. t \in Seq(Fields)
  <2>1. c + 1 \in 0 .. 3 /\ c + 1 <= w BY <1>1
  <2> QED BY <1>2, <2>1, WrittenOn
<1>5. s \in Seq(Fields) /\ s \in {Methods, Creds, Request}
  BY <1>2, BlocksOfEngine DEF Block
<1>6. Cut(s, t, s \o t)
  BY <1>4, <1>5, CutAgain
<1>7. ASSUME c = 0
      PROVE  SubSeq(Up(c, w), 4, Len(Up(c, w))) = Up(1, w) /\ Up(c, w)[3] = Methods[3]
  <2>1. s = Methods /\ Len(s) = 3 /\ t = Up(1, w)
    BY <1>2, <1>7, BlocksOfEngine DEF Block
  <2>2. Len(s) + 1 = 4 /\ 3 \in 1 .. Len(s) BY <2>1
  <2>3. (s \o t)[3] = s[3] BY <1>6, <2>2, Zenon DEF Cut
  <2> QED BY <1>3, <1>6, <2>1, <2>2, <2>3, Zenon DEF Cut
<1>8. ASSUME c = 1, config.user # NoUser
      PROVE  SubSeq(Up(c, w), 3, Len(Up(c, w))) = Up(2, w) /\ Up(c, w)[2] = config.user
  <2>1. s = Creds /\ Len(s) = 2 /\ s[2] = config.user /\ t = Up(2, w)
    BY <1>2, <1>8, BlocksOfEngine DEF Block
  <2>2. Len(s) + 1 = 3 /\ 2 \in 1 .. Len(s) BY <2>1
  <2> QED BY <1>3, <1>6, <2>1, <2>2, Zenon DEF Cut
<1>9. ASSUME c = 2
      PROVE  /\ SubSeq(Up(c, w), 5, Len(Up(c, w))) = Up(3, w)
             /\ Up(c, w)[2] = config.cmd /\ Up(c, w)[4] = config.dest
  <2>1. s = Request /\ Len(s) = 4 /\ s[2] = config.cmd /\ s[4] = config.dest /\ t = Up(3, w)
    BY <1>2, <1>9, BlocksOfEngine DEF Block
  <2>2. Len(s) + 1 = 5 /\ 2 \in 1 .. Len(s) /\ 4 \in 1 .. Len(s) BY <2>1
  <2> QED BY <1>3, <1>6, <2>1, <2>2, Zenon DEF Cut
<1> QED BY <1>1, <1>7, <1>8, <1>9

(* The relay gives its next good answer.                                   *)
LEMMA AnsweredOn ==
    ASSUME NEW e \in 0 .. 3, NEW g \in 0 .. 3, e <= g
    PROVE  /\ Down(e, g) \in Seq(Fields) /\ (e = g => Down(e, g) = <<>>)
           /\ g = 0 => Down(e, g) \o Method = Down(e, 1)
           /\ g = 1 => Down(e, g) \o Verdict = Down(e, 2)
           /\ g = 2 => Down(e, g) \o Response = Down(e, 3)
<1>5. Method \in Seq(Fields) /\ Verdict \in Seq(Fields) /\ Response \in Seq(Fields)
  BY AnswersOfRelay
<1>6. GoesOn(Fields, Method, Verdict, Response, e, g)
  BY <1>5, UnreadFacts
<1>1. Down(e, g) \in Seq(Fields) /\ (e = g => Down(e, g) = <<>>)
  BY <1>6, Zenon DEF Down, GoesOn
<1>2. g < 3 => Down(e, g) \o Block(Method, Verdict, Response, g + 1) = Down(e, g + 1)
  BY <1>6, Zenon DEF Down, GoesOn
<1>3. /\ Block(Method, Verdict, Response, 1) = Method /\ Block(Method, Verdict, Response, 2) = Verdict
      /\ Block(Method, Verdict, Response, 3) = Response
  BY DEF Block
<1>4. 0 < 3 /\ 1 < 3 /\ 2 < 3 /\ 0 + 1 = 1 /\ 1 + 1 = 2 /\ 2 + 1 = 3
  OBVIOUS
<1> QED BY <1>1, <1>2, <1>3, <1>4, Zenon

(* The engine reads the next answer: a good one, or it is the last.        *)
Heard(e, g, last, d) ==
    \/ d[2] \in {"none acceptable", "failure", "unknown"}
    \/ /\ e < g
       /\ e = 0 => SubSeq(d, 3, Len(d)) = Down(1, g) \o last /\ d[2] = "user"
       /\ e = 1 => SubSeq(d, 3, Len(d)) = Down(2, g) \o last
       /\ e = 2 => SubSeq(d, 5, Len(d)) = Down(3, g) \o last

LEMMA HeardOn ==
    ASSUME NEW e \in 0 .. 3, NEW g \in 0 .. 3, e <= g, NEW last \in Refusals,
           NEW d, d = Down(e, g) \o last, Len(d) > 0
    PROVE  Heard(e, g, last, d)
<1>1. Down(e, g) \in Seq(Fields) /\ (e = g => Down(e, g) = <<>>)
  BY AnsweredOn
<1>2. last \in Seq(Fields) /\ (last = <<>> \/ last[2] \in {"none acceptable", "failure", "unknown"})
  BY RefusalFacts
<1>3. CASE e = g
  <2>1. d = last BY <1>1, <1>2, <1>3, Joined
  <2>2. last # <<>> BY <2>1
  <2> QED BY <1>2, <2>1, <2>2 DEF Heard
<1>4. CASE e < g
  <2>1. PICK s, t : s = Block(Method, Verdict, Response, e + 1) /\ t = Down(e + 1, g)
    OBVIOUS
  <2>2. Down(e, g) = s \o t
    <3>1. Method \in Seq(Fields) /\ Verdict \in Seq(Fields) /\ Response \in Seq(Fields)
      BY AnswersOfRelay
    <3>2. Down(e, g) = Block(Method, Verdict, Response, e + 1) \o Down(e + 1, g)
      <4>1. GoesOn(Fields, Method, Verdict, Response, e, g) BY <3>1, UnreadFacts
      <4> QED BY <1>4, <4>1, Zenon DEF Down, GoesOn
    <3> QED BY <2>1, <3>2, Zenon
  <2>3. t \in Seq(Fields)
    <3>1. e + 1 \in 0 .. 3 /\ e + 1 <= g BY <1>4
    <3> QED BY <2>1, <3>1, AnsweredOn
  <2>4. s \in Seq(Fields)
    BY <2>1, AnswersOfRelay DEF Block
  <2>5. d = s \o (t \o last) /\ t \o last \in Seq(Fields)
    <3>1. t \o last \in Seq(Fields) BY <1>2, <2>3, Joined, Zenon
    <3>2. (s \o t) \o last = s \o (t \o last)
      <4>1. s \in Seq(Fields) /\ t \in Seq(Fields) /\ last \in Seq(Fields)
        BY <1>2, <2>3, <2>4
      <4> QED BY <4>1, FieldsAssociate, Zenon
    <3> QED BY <2>2, <3>1, <3>2, Zenon
  <2>6. Cut(s, t \o last, d)
    BY <2>4, <2>5, CutAgain
  <2>7. ASSUME e = 0 PROVE SubSeq(d, 3, Len(d)) = Down(1, g) \o last /\ d[2] = "user"
    <3>1. s = Method /\ Len(s) = 2 /\ s[2] = "user" /\ t = Down(1, g)
      BY <2>1, <2>7, AnswersOfRelay DEF Block
    <3>2. Len(s) + 1 = 3 /\ 2 \in 1 .. Len(s) BY <3>1
    <3> QED BY <2>6, <3>1, <3>2, Zenon DEF Cut
  <2>8. ASSUME e = 1 PROVE SubSeq(d, 3, Len(d)) = Down(2, g) \o last
    <3>1. s = Verdict /\ Len(s) = 2 /\ t = Down(2, g)
      BY <2>1, <2>8, AnswersOfRelay DEF Block
    <3>2. Len(s) + 1 = 3 BY <3>1
    <3> QED BY <2>6, <3>1, <3>2, Zenon DEF Cut
  <2>9. ASSUME e = 2 PROVE SubSeq(d, 5, Len(d)) = Down(3, g) \o last
    <3>1. s = Response /\ Len(s) = 4 /\ t = Down(3, g)
      BY <2>1, <2>9, AnswersOfRelay DEF Block
    <3>2. Len(s) + 1 = 5 BY <3>1
    <3> QED BY <2>6, <3>1, <3>2, Zenon DEF Cut
  <2> QED BY <1>4, <2>7, <2>8, <2>9 DEF Heard
<1>5. e = g \/ e < g
  OBVIOUS
<1> QED BY <1>3, <1>4, <1>5

(* Any place midway will do.                                               *)
LEMMA StillInStep ==
    ASSUME ConfigOK', engine' \in {"handshake", "failed"}, read' = <<>>,
           NEW w \in 0 .. 3, NEW e \in 0 .. 3, NEW c \in 0 .. 3, NEW g \in 0 .. 3,
           NEW last \in Refusals, Midway(w, e, c, g, last)'
    PROVE  InStep'
BY DEF InStep

LEMMA FailsInStep == ConfigOK' /\ engine' = "failed" => InStep'
BY DEF InStep

(* The engine writes a block, whether or not anybody will read it.         *)
LEMMA WritesInStep ==
    ASSUME ConfigOK, NEW w \in 0 .. 2, NEW e \in 0 .. 3, NEW c \in 0 .. 3, NEW g \in 0 .. 3,
           NEW last \in Refusals, Midway(w, e, c, g, last),
           NEW block, block = Block(Methods, Creds, Request, w + 1),
           EngineAt(w + 1, e, Tail(todo)), EngineWrites(block)
    PROVE  Midway(w + 1, e, c, g, last)'
<1>1. /\ UNCHANGED <<config, engine, relay, valid, request, read, down>>
      /\ up' = (IF relay = "closed" THEN up ELSE up \o block) /\ todo' = Tail(todo)
  BY DEF EngineWrites, relaySide
<1>2. EngineAt(w + 1, e, todo)'
  <2>1. Order' = Order BY <1>1 DEF Order
  <2> QED BY <1>1, <2>1 DEF EngineAt
<1>3. RelayAt(c, g, last)' BY <1>1 DEF Midway, RelayAt
<1>4. Told(c)' BY <1>1 DEF Midway, Told
<1>5. c <= w + 1 /\ e <= g BY DEF Midway
<1>6. relay # "closed" => Up(c, w) \o block = Up(c, w + 1)
  <2>1. w \in {0, 1, 2} /\ c <= w /\ w \in 0 .. 3 BY DEF Midway
  <2>2. (w = 0 => block = Methods) /\ (w = 1 => block = Creds) /\ (w = 2 => block = Request)
    BY DEF Block
  <2>3. /\ w = 0 => Up(c, w) \o Methods = Up(c, 1)
        /\ w = 1 => Up(c, w) \o Creds = Up(c, 2)
        /\ w = 2 => Up(c, w) \o Request = Up(c, 3)
    BY <2>1, WrittenOn
  <2>4. 0 + 1 = 1 /\ 1 + 1 = 2 /\ 2 + 1 = 3 OBVIOUS
  <2> QED BY <2>1, <2>2, <2>3, <2>4, Zenon
<1>7. (relay # "closed" => up = Up(c, w + 1))'
  <2>1. Up(c, w + 1)' = Up(c, w + 1) BY <1>1 DEF Up, Methods, Creds, Request, Unread
  <2> QED BY <1>1, <1>6, <2>1 DEF Midway
<1>8. (down = Down(e, g) \o last \/ (relay = "closed" /\ down = <<>>))'
  BY <1>1 DEF Midway, Down, Method, Verdict, Response, Unread
<1> QED BY <1>2, <1>3, <1>4, <1>5, <1>7, <1>8 DEF Midway

(* The engine reads an answer of n fields, not one that refuses.           *)
Hears(n) ==
    /\ Len(down) >= n
    /\ down[2] \notin {"none acceptable", "failure", "unknown"}
    /\ down' = SubSeq(down, n + 1, Len(down))

(* The engine reads an answer and believes it.                             *)
LEMMA ReadsInStep ==
    ASSUME NEW w \in 0 .. 3, NEW e \in 0 .. 2, NEW c \in 0 .. 3, NEW g \in 0 .. 3,
           NEW last \in Refusals, Midway(w, e, c, g, last),
           NEW n, n = IF e = 2 THEN 4 ELSE 2, Hears(n),
           UNCHANGED <<config, relay, valid, request, up>>
    PROVE  /\ e = 0 => down[2] = "user"
           /\ EngineAt(w, e + 1, todo)' => Midway(w, e + 1, c, g, last)'
<1>1. PICK d : d = down OBVIOUS
<1>2. (n = 2 /\ e \in {0, 1}) \/ (n = 4 /\ e = 2)
  OBVIOUS
<1>10. e <= g /\ c <= w /\ e \in 0 .. 3
  BY DEF Midway
<1>11. /\ Len(d) >= n /\ d[2] \notin {"none acceptable", "failure", "unknown"}
       /\ down' = SubSeq(d, n + 1, Len(d))
  BY <1>1 DEF Hears
<1>12. Len(d) > 0 /\ d # <<>>
  <2>1. Len(d) >= 2 \/ Len(d) >= 4 BY <1>2, <1>11, Zenon
  <2>2. d # <<>>
    <3>1. Len(<<>>) = 0 OBVIOUS
    <3>2. ~(0 >= 2) /\ ~(0 >= 4) OBVIOUS
    <3> QED BY <2>1, <3>1, <3>2, Zenon
  <2>3. d = Down(e, g) \o last BY <1>1, <2>2, Zenon DEF Midway
  <2>4. Down(e, g) \o last \in Seq(Fields)
    <3>1. Down(e, g) \in Seq(Fields) BY <1>10, AnsweredOn
    <3>2. last \in Seq(Fields) BY RefusalFacts
    <3> QED BY <3>1, <3>2, Joined, Zenon
  <2> QED BY <2>2, <2>3, <2>4
<1>13. d = Down(e, g) \o last
  BY <1>1, <1>12, Zenon DEF Midway
<1>3. /\ e < g
      /\ e = 0 => SubSeq(d, 3, Len(d)) = Down(1, g) \o last /\ d[2] = "user"
      /\ e = 1 => SubSeq(d, 3, Len(d)) = Down(2, g) \o last
      /\ e = 2 => SubSeq(d, 5, Len(d)) = Down(3, g) \o last
  <2>1. Heard(e, g, last, d) BY <1>10, <1>12, <1>13, HeardOn
  <2> QED BY <2>1, <1>11, Zenon DEF Heard
<1>4. down' = Down(e + 1, g) \o last
  <2>1. 0 + 1 = 1 /\ 1 + 1 = 2 /\ 2 + 1 = 3 /\ 4 + 1 = 5 OBVIOUS
  <2> QED BY <1>2, <1>3, <1>11, <2>1, Zenon
<1>5. (down = Down(e + 1, g) \o last)'
  BY <1>4 DEF Down, Method, Verdict, Response, Unread
<1>6. RelayAt(c, g, last)' BY DEF Midway, RelayAt
<1>7. Told(c)' BY DEF Midway, Told
<1>8. (relay # "closed" => up = Up(c, w))'
  BY DEF Midway, Up, Methods, Creds, Request, Unread
<1>9. e + 1 <= g BY <1>3, <1>10
<1> QED BY <1>1, <1>3, <1>5, <1>6, <1>7, <1>8, <1>9, <1>10 DEF Midway

(* What the engine does while it shakes hands.                             *)
LEMMA EngineInStep ==
    ASSUME InStep, engine = "handshake", EngineSteps \/ EngineGivesUp
    PROVE  InStep'
<1>1. ConfigOK /\ config.pipeline \in BOOLEAN
  BY DEF InStep, ConfigOK
<1>2. ConfigOK'
  <2>1. config' = config
    BY DEF EngineSteps, EngineGivesUp, WritesMethods, WritesCreds, WritesRequest, EngineWrites,
           ReadsMethod, ReadsVerdict, ReadsResponse, EngineReads, SeesTheEnd, Splices
  <2> QED BY <1>1, <2>1 DEF ConfigOK
<1>3. PICK w \in 0 .. 3, e \in 0 .. 3, c \in 0 .. 3, g \in 0 .. 3 : \E last \in Refusals : Midway(w, e, c, g, last)
  BY DEF InStep
<1>4. PICK last \in Refusals : Midway(w, e, c, g, last)
  BY <1>3
<1>5. read = <<>> BY DEF InStep
<1>6. EngineAt(w, e, todo) BY <1>4 DEF Midway
<1>7. /\ todo = <<>> => w = 3 /\ e = 3
      /\ todo # <<>> =>
           /\ Head(todo) = "methods" => w = 0 /\ EngineAt(1, e, Tail(todo))
           /\ Head(todo) = "creds" => w = 1 /\ EngineAt(2, e, Tail(todo))
           /\ Head(todo) = "request" => w = 2 /\ EngineAt(3, e, Tail(todo))
           /\ Head(todo) = "method" => e = 0 /\ EngineAt(w, 1, Tail(todo))
           /\ Head(todo) = "verdict" => e = 1 /\ EngineAt(w, 2, Tail(todo))
           /\ Head(todo) = "response" => e = 2 /\ EngineAt(w, 3, Tail(todo))
  BY <1>1, <1>6, EngineGoesOn
<1>8. /\ Block(Methods, Creds, Request, 0 + 1) = Methods
      /\ Block(Methods, Creds, Request, 1 + 1) = Creds
      /\ Block(Methods, Creds, Request, 2 + 1) = Request
  BY DEF Block
<1>9. 0 + 1 = 1 /\ 1 + 1 = 2 /\ 2 + 1 = 3 /\ 0 \in 0 .. 2 /\ 1 \in 0 .. 2 /\ 2 \in 0 .. 2
  OBVIOUS
<1>10. CASE WritesMethods
  <2>1. w = 0 /\ EngineAt(1, e, Tail(todo)) BY <1>7, <1>10 DEF WritesMethods, IsAt
  <2>2. EngineWrites(Methods) BY <1>10 DEF WritesMethods, Methods
  <2>3. Midway(0 + 1, e, c, g, last)' BY <1>1, <1>4, <1>8, <1>9, <2>1, <2>2, WritesInStep
  <2>4. read' = <<>> /\ engine' = "handshake" BY <1>5, <2>2 DEF EngineWrites, relaySide
  <2> QED BY <1>2, <1>9, <2>3, <2>4, StillInStep
<1>11. CASE WritesCreds
  <2>1. w = 1 /\ EngineAt(2, e, Tail(todo)) BY <1>7, <1>11 DEF WritesCreds, IsAt
  <2>2. EngineWrites(Creds) BY <1>11 DEF WritesCreds, Creds
  <2>3. Midway(1 + 1, e, c, g, last)' BY <1>1, <1>4, <1>8, <1>9, <2>1, <2>2, WritesInStep
  <2>4. read' = <<>> /\ engine' = "handshake" BY <1>5, <2>2 DEF EngineWrites, relaySide
  <2> QED BY <1>2, <1>9, <2>3, <2>4, StillInStep
<1>12. CASE WritesRequest
  <2>1. w = 2 /\ EngineAt(3, e, Tail(todo)) BY <1>7, <1>12 DEF WritesRequest, IsAt
  <2>2. EngineWrites(Request) BY <1>12 DEF WritesRequest, Request
  <2>3. Midway(2 + 1, e, c, g, last)' BY <1>1, <1>4, <1>8, <1>9, <2>1, <2>2, WritesInStep
  <2>4. read' = <<>> /\ engine' = "handshake" BY <1>5, <2>2 DEF EngineWrites, relaySide
  <2> QED BY <1>2, <1>9, <2>3, <2>4, StillInStep
<1>13. CASE SeesTheEnd \/ EngineGivesUp
  <2>1. engine' = "failed" BY <1>13 DEF SeesTheEnd, EngineGivesUp
  <2> QED BY <1>2, <2>1, FailsInStep
<1>14. ASSUME NEW f \in 0 .. 2, f = e, NEW n, n = IF e = 2 THEN 4 ELSE 2,
              EngineAt(w, f + 1, Tail(todo)), NEW accepted, accepted \in BOOLEAN, NEW rest,
              accepted => down[2] \in {"user", "none", "success"},
              accepted => rest = Tail(todo) \/ (f = 0 /\ down[2] # "user"),
              EngineReads(n, accepted, rest)
       PROVE  InStep'
  <2>1. CASE ~accepted
    <3>1. engine' = "failed" BY <1>14, <2>1 DEF EngineReads
    <3> QED BY <1>2, <3>1, FailsInStep
  <2>2. CASE accepted
    <3>1. Hears(n) BY <1>14, <2>2 DEF Hears, EngineReads
    <3>2. UNCHANGED <<config, relay, valid, request, up, read, engine>> /\ todo' = rest
      BY <1>14, <2>2 DEF EngineReads, relaySide
    <3>3. f \in 0 .. 2 /\ Midway(w, f, c, g, last) /\ n = IF f = 2 THEN 4 ELSE 2
      BY <1>4, <1>14
    <3>4. /\ f = 0 => down[2] = "user"
          /\ EngineAt(w, f + 1, todo)' => Midway(w, f + 1, c, g, last)'
      BY <3>1, <3>2, <3>3, ReadsInStep
    <3>5. todo' = Tail(todo) BY <1>14, <2>2, <3>2, <3>4
    <3>6. EngineAt(w, f + 1, todo)'
      <4>1. Order' = Order /\ config' = config BY <3>2 DEF Order
      <4> QED BY <1>14, <3>5, <4>1 DEF EngineAt
    <3>7. f + 1 \in 0 .. 3 /\ engine' = "handshake" /\ read' = <<>>
      BY <1>5, <3>2
    <3> QED BY <1>2, <3>4, <3>6, <3>7, StillInStep
  <2> QED BY <2>1, <2>2, <1>14
<1>15. CASE ReadsMethod
  <2>1. PICK accepted \in BOOLEAN :
          accepted <=> Len(down) >= 2 /\ down[1] = "v5" /\ down[2] \in {"user", "none"}
    OBVIOUS
  <2>2. PICK rest : rest = IF down[2] = "user" THEN Tail(todo)
                           ELSE SelectSeq(Tail(todo), LAMBDA s : s \notin {"creds", "verdict"})
    OBVIOUS
  <2>3. EngineReads(2, accepted, rest) BY <1>15, <2>1, <2>2 DEF ReadsMethod
  <2>4. e = 0 /\ EngineAt(w, 0 + 1, Tail(todo)) BY <1>7, <1>9, <1>15 DEF ReadsMethod, IsAt
  <2>5. accepted => down[2] \in {"user", "none", "success"} BY <2>1
  <2>6. accepted => rest = Tail(todo) \/ (0 = 0 /\ down[2] # "user") BY <2>2
  <2> QED BY <1>9, <1>14, <2>3, <2>4, <2>5, <2>6
<1>16. CASE ReadsVerdict
  <2>1. PICK accepted \in BOOLEAN :
          accepted <=> Len(down) >= 2 /\ down[1] = "v1" /\ down[2] = "success"
    OBVIOUS
  <2>3. EngineReads(2, accepted, Tail(todo)) BY <1>16, <2>1 DEF ReadsVerdict
  <2>4. e = 1 /\ EngineAt(w, 1 + 1, Tail(todo)) BY <1>7, <1>9, <1>16 DEF ReadsVerdict, IsAt
  <2>5. accepted => down[2] \in {"user", "none", "success"} BY <2>1
  <2> QED BY <1>9, <1>14, <2>3, <2>4, <2>5
<1>17. CASE ReadsResponse
  <2>1. PICK accepted \in BOOLEAN :
          accepted <=> Len(down) >= 4 /\ down[1] = "v5" /\ down[2] = "success"
    OBVIOUS
  <2>3. EngineReads(4, accepted, Tail(todo)) BY <1>17, <2>1 DEF ReadsResponse
  <2>4. e = 2 /\ EngineAt(w, 2 + 1, Tail(todo)) BY <1>7, <1>9, <1>17 DEF ReadsResponse, IsAt
  <2>5. accepted => down[2] \in {"user", "none", "success"} BY <2>1
  <2> QED BY <1>9, <1>14, <2>3, <2>4, <2>5
(* All is said, so the relay has begun to relay and nothing is under way.  *)
<1>18. CASE Splices
  <2>1. w = 3 /\ e = 3 /\ engine' = "splice" BY <1>7, <1>18 DEF Splices
  <2>2. g = 3 BY <1>4, <2>1 DEF Midway
  <2>3. relay = "relay" /\ c = 3 BY <1>4, <2>2 DEF Midway, RelayAt, Closing
  <2>4. up = <<>>
    <3>1. up = Up(3, 3) BY <1>4, <2>1, <2>3 DEF Midway
    <3>2. Up(3, 3) = <<>> BY <1>1, WrittenOn
    <3> QED BY <3>1, <3>2
  <2>5. up' = Payload /\ Payload \in Seq(Fields)
    <3>1. Payload \in Seq(STRING) BY HandshakeAssumption
    <3>2. Payload \in Seq(Fields) BY <3>1 DEF Fields
    <3>3. up' = <<>> \o Payload BY <1>18, <2>3, <2>4 DEF Splices
    <3> QED BY <3>2, <3>3
  <2>6. UNCHANGED <<config, relay, valid, request, read>> BY <1>18 DEF Splices, relaySide
  <2>7. Told(3)'
    <3>1. Told(3) BY <1>4, <2>3 DEF Midway
    <3> QED BY <2>6, <3>1 DEF Told
  <2>8. read' = <<>> /\ <<>> \in Seq(Fields) /\ <<>> \o Payload = Payload
    BY <1>5, <2>5, <2>6
  <2> QED BY <1>2, <2>1, <2>3, <2>5, <2>6, <2>7, <2>8 DEF InStep
<1> QED BY <1>10, <1>11, <1>12, <1>13, <1>15, <1>16, <1>17, <1>18 DEF EngineSteps

(* The relay closes the connection, with an answer or without.             *)
LEMMA ClosesInStep ==
    ASSUME ConfigOK, NEW w \in 0 .. 3, NEW e \in 0 .. 3, NEW c \in 0 .. 3, NEW g \in 0 .. 2,
           Midway(w, e, c, g, <<>>), relay # "closed",
           NEW answer \in Refusals, Closing(g, answer),
           RelayCloses(answer), UNCHANGED <<config, engineSide>>
    PROVE  Midway(w, e, 0, g, answer)'
<1>1. down' = down \o answer \/ down' = <<>>
  BY DEF RelayCloses
<1>2. relay' = "closed" BY DEF RelayCloses
<1>3. down \o answer = Down(e, g) \o answer
  <2>1. down = Down(e, g) \o <<>> /\ e <= g BY DEF Midway
  <2>2. g \in 0 .. 3 OBVIOUS
  <2>3. Down(e, g) \in Seq(Fields) BY <2>1, <2>2, AnsweredOn
  <2>4. Down(e, g) \o <<>> = Down(e, g)
    <3>1. <<>> \in Seq(Fields) OBVIOUS
    <3> QED BY <2>3, <3>1, Joined
  <2> QED BY <2>1, <2>4
<1>4. (down = Down(e, g) \o answer \/ (relay = "closed" /\ down = <<>>))'
  BY <1>1, <1>2, <1>3 DEF Down, Method, Verdict, Response, Unread
<1>5. RelayAt(0, g, answer)'
  <2>1. g \in {0, 1, 2} OBVIOUS
  <2> QED BY <1>2, <2>1 DEF RelayAt
<1>6. Told(0)' BY DEF Told
<1>7. EngineAt(w, e, todo)'
  <2>1. EngineAt(w, e, todo) BY DEF Midway
  <2>2. Order' = Order /\ todo' = todo BY DEF Order, engineSide
  <2> QED BY <2>1, <2>2 DEF EngineAt
<1>8. 0 <= w /\ e <= g BY DEF Midway
<1> QED BY <1>2, <1>4, <1>5, <1>6, <1>7, <1>8 DEF Midway

(* The relay reads a block and says what it has to say.                    *)
LEMMA GoesOnInStep ==
    ASSUME ConfigOK, NEW w \in 0 .. 3, NEW e \in 0 .. 3, NEW c \in 0 .. 3, NEW g \in 0 .. 3,
           Midway(w, e, c, g, <<>>), UNCHANGED <<config, engineSide>>,
           NEW k \in 0 .. 3, NEW h \in 0 .. 3, NEW last \in Refusals, k <= w, g <= h,
           RelayAt(k, h, last)', Told(k)', up' = Up(k, w), down' = Down(e, h) \o last
    PROVE  Midway(w, e, k, h, last)'
<1>1. EngineAt(w, e, todo)'
  <2>1. EngineAt(w, e, todo) BY DEF Midway
  <2>2. Order' = Order /\ todo' = todo BY DEF Order, engineSide
  <2> QED BY <2>1, <2>2 DEF EngineAt
<1>2. (up = Up(k, w))' BY DEF Up, Methods, Creds, Request, Unread
<1>3. (down = Down(e, h) \o last)' BY DEF Down, Method, Verdict, Response, Unread
<1>4. e <= h BY DEF Midway
<1> QED BY <1>1, <1>2, <1>3, <1>4 DEF Midway

LEMMA UpToTwo == 0 \in 0 .. 2 /\ 1 \in 0 .. 2 /\ 2 \in 0 .. 2
OBVIOUS

(* What the relay does while the engine shakes hands.                      *)
LEMMA RelayInStep ==
    ASSUME InStep, engine = "handshake", RelaySteps
    PROVE  InStep'
<1>1. ConfigOK BY DEF InStep
<1>2. UNCHANGED <<config, engineSide>>
  BY DEF RelaySteps, Negotiates1, Negotiates2, ReadsRequest, Serves, Refuses, RelayAnswers,
         ConnectionFails, Relays, RelaySeesTheEnd
<1>3. ConfigOK' /\ engine' = "handshake" BY <1>1, <1>2 DEF ConfigOK, engineSide
<1>4. read = <<>> BY DEF InStep
<1>5. PICK w \in 0 .. 3, e \in 0 .. 3, c \in 0 .. 3, g \in 0 .. 3 : \E last \in Refusals : Midway(w, e, c, g, last)
  BY DEF InStep
<1>6. PICK last \in Refusals : Midway(w, e, c, g, last)
  BY <1>5
<1>7. <<>> \in Refusals BY DEF Refusals
<1>8. c <= w /\ e <= g /\ RelayAt(c, g, last) /\ Told(c) BY <1>6 DEF Midway
<1>9. relay # "closed" => up = Up(c, w) /\ down = Down(e, g) \o last BY <1>6 DEF Midway
<1>10. Down(e, g) \in Seq(Fields) /\ Down(e, g) \o <<>> = Down(e, g)
  <2>1. Down(e, g) \in Seq(Fields) BY <1>8, AnsweredOn
  <2>2. <<>> \in Seq(Fields) OBVIOUS
  <2> QED BY <2>1, <2>2, Joined
(* Closing, in any of the states that read. *)
<1>11. ASSUME relay \in {"greeting", "creds", "request", "serve"}, last = <<>>, g \in 0 .. 2,
              NEW answer \in Refusals, Closing(g, answer), RelayCloses(answer), read' = read
       PROVE  InStep'
  <2>1. Midway(w, e, 0, g, answer)'
    <3>1. relay # "closed" /\ Midway(w, e, c, g, <<>>) BY <1>6, <1>11
    <3> QED BY <1>1, <1>2, <1>11, <3>1, ClosesInStep
  <2>2. 0 \in 0 .. 3 /\ read' = <<>> BY <1>4, <1>11
  <2> QED BY <1>3, <2>1, <2>2, StillInStep
<1>12. CASE Negotiates1
  <2>1. c = 0 /\ g = 0 /\ last = <<>> /\ relay = "greeting"
    BY <1>8, <1>12 DEF Negotiates1, RelayAt
  <2>2. up = Up(c, w) /\ down = Down(e, g) BY <1>9, <1>10, <2>1
  <2>3. PICK u : u = Up(c, w) OBVIOUS
  <2>4. Len(u) >= 3 /\ up' = SubSeq(u, 4, Len(u)) /\ read' = read
    <3>1. 3 + 1 = 4 OBVIOUS
    <3> QED BY <1>12, <2>2, <2>3, <3>1 DEF Negotiates1, RelayReads
  <2>5. c < w /\ SubSeq(u, 4, Len(u)) = Up(1, w) /\ u[3] = Methods[3]
    <3>1. u \in Seq(Fields) BY <1>1, <1>8, <2>3, WrittenOn
    <3>2. Len(u) > 0 BY <2>4, <3>1
    <3> QED BY <1>1, <1>8, <2>1, <2>3, <3>2, ReadOn
  <2>6. CASE u[1] = "v5" /\ u[3] = "user"
    <3>1. relay' = "creds" /\ down' = down \o Method /\ UNCHANGED <<valid, request>>
      BY <1>12, <2>2, <2>3, <2>6 DEF Negotiates1, Method
    <3>2. RelayAt(1, 1, <<>>)' BY <3>1 DEF RelayAt
    <3>3. Told(1)'
      <4>1. config.user # NoUser BY <1>1, <2>5, <2>6, BlocksOfEngine
      <4> QED BY <1>2, <4>1 DEF Told
    <3>4. down' = Down(e, 1) \o <<>>
      <4>1. Down(e, g) \o Method = Down(e, 1) BY <1>8, <2>1, AnsweredOn
      <4>2. e <= 1 /\ 1 \in 0 .. 3 BY <1>8, <2>1
      <4>3. Down(e, 1) \in Seq(Fields) BY <4>2, AnsweredOn
      <4>4. Down(e, 1) \o <<>> = Down(e, 1)
        <5>1. <<>> \in Seq(Fields) OBVIOUS
        <5> QED BY <4>3, <5>1, Joined
      <4> QED BY <2>2, <3>1, <4>1, <4>4
    <3>5. up' = Up(1, w) BY <2>4, <2>5
    <3>6. 1 \in 0 .. 3 /\ 1 <= w /\ g <= 1 BY <2>1, <2>5
    <3>7. Midway(w, e, 1, 1, <<>>)'
      BY <1>1, <1>2, <1>6, <1>7, <2>1, <3>2, <3>3, <3>4, <3>5, <3>6, GoesOnInStep
    <3>8. read' = <<>> BY <1>4, <2>4
    <3> QED BY <1>3, <1>7, <3>6, <3>7, <3>8, StillInStep
  <2>7. CASE ~(u[1] = "v5" /\ u[3] = "user")
    <3>1. PICK answer \in {<<"v5", "none acceptable">>, <<>>} : RelayCloses(answer)
      BY <1>12, <2>2, <2>3, <2>7 DEF Negotiates1
    <3>2. answer \in Refusals BY DEF Refusals
    <3>3. Closing(g, answer) BY <2>1 DEF Closing
    <3>4. g \in 0 .. 2
      BY <2>1, UpToTwo, Zenon
    <3>5. relay \in {"greeting", "creds", "request", "serve"} /\ last = <<>> /\ read' = read
      BY <2>1, <2>4
    <3> QED BY <1>11, <3>1, <3>2, <3>3, <3>4, <3>5
  <2> QED BY <2>6, <2>7
<1>13. CASE Negotiates2
  <2>1. c = 1 /\ g = 1 /\ last = <<>> /\ relay = "creds"
    BY <1>8, <1>13 DEF Negotiates2, RelayAt
  <2>2. up = Up(c, w) /\ down = Down(e, g) BY <1>9, <1>10, <2>1
  <2>3. PICK u : u = Up(c, w) OBVIOUS
  <2>4. Len(u) >= 2 /\ up' = SubSeq(u, 3, Len(u)) /\ read' = read
    <3>1. 2 + 1 = 3 OBVIOUS
    <3> QED BY <1>13, <2>2, <2>3, <3>1 DEF Negotiates2, RelayReads
  <2>9. config.user # NoUser BY <1>8, <2>1 DEF Told
  <2>5. c < w /\ SubSeq(u, 3, Len(u)) = Up(2, w) /\ u[2] = config.user
    <3>1. u \in Seq(Fields) BY <1>1, <1>8, <2>3, WrittenOn
    <3>2. Len(u) > 0 BY <2>4, <3>1
    <3> QED BY <1>1, <1>8, <2>1, <2>3, <2>9, <3>2, ReadOn
  <2>6. CASE u[1] = "v1" /\ u[2] = Secret
    <3>1. relay' = "request" /\ valid' = TRUE /\ down' = down \o Verdict /\ UNCHANGED request
      BY <1>13, <2>2, <2>3, <2>6 DEF Negotiates2, Verdict
    <3>2. RelayAt(2, 2, <<>>)' BY <3>1 DEF RelayAt
    <3>3. Told(2)'
      <4>1. config.user = Secret BY <2>5, <2>6
      <4> QED BY <1>2, <2>9, <3>1, <4>1 DEF Told
    <3>4. down' = Down(e, 2) \o <<>>
      <4>1. Down(e, g) \o Verdict = Down(e, 2) BY <1>8, <2>1, AnsweredOn
      <4>2. e <= 2 /\ 2 \in 0 .. 3 BY <1>8, <2>1
      <4>3. Down(e, 2) \in Seq(Fields) BY <4>2, AnsweredOn
      <4>4. Down(e, 2) \o <<>> = Down(e, 2)
        <5>1. <<>> \in Seq(Fields) OBVIOUS
        <5> QED BY <4>3, <5>1, Joined
      <4> QED BY <2>2, <3>1, <4>1, <4>4
    <3>5. up' = Up(2, w) BY <2>4, <2>5
    <3>6. 2 \in 0 .. 3 /\ 2 <= w /\ g <= 2 BY <2>1, <2>5
    <3>7. Midway(w, e, 2, 2, <<>>)'
      BY <1>1, <1>2, <1>6, <1>7, <2>1, <3>2, <3>3, <3>4, <3>5, <3>6, GoesOnInStep
    <3>8. read' = <<>> BY <1>4, <2>4
    <3> QED BY <1>3, <1>7, <3>6, <3>7, <3>8, StillInStep
  <2>7. CASE ~(u[1] = "v1" /\ u[2] = Secret)
    <3>1. PICK answer \in {<<"v1", "failure">>, <<>>} : RelayCloses(answer)
      BY <1>13, <2>2, <2>3, <2>7 DEF Negotiates2
    <3>2. answer \in Refusals BY DEF Refusals
    <3>3. Closing(g, answer) BY <2>1 DEF Closing
    <3>4. g \in 0 .. 2
      BY <2>1, UpToTwo, Zenon
    <3>5. relay \in {"greeting", "creds", "request", "serve"} /\ last = <<>> /\ read' = read
      BY <2>1, <2>4
    <3> QED BY <1>11, <3>1, <3>2, <3>3, <3>4, <3>5
  <2> QED BY <2>6, <2>7
<1>14. CASE ReadsRequest
  <2>1. c = 2 /\ g = 2 /\ last = <<>> /\ relay = "request"
    BY <1>8, <1>14 DEF ReadsRequest, RelayAt
  <2>2. up = Up(c, w) /\ down = Down(e, g) BY <1>9, <1>10, <2>1
  <2>3. PICK u : u = Up(c, w) OBVIOUS
  <2>4. Len(u) >= 4 /\ up' = SubSeq(u, 5, Len(u)) /\ read' = read
    <3>1. 4 + 1 = 5 OBVIOUS
    <3> QED BY <1>14, <2>2, <2>3, <3>1 DEF ReadsRequest, RelayReads
  <2>5. c < w /\ SubSeq(u, 5, Len(u)) = Up(3, w) /\ u[2] = config.cmd /\ u[4] = config.dest
    <3>1. u \in Seq(Fields) BY <1>1, <1>8, <2>3, WrittenOn
    <3>2. Len(u) > 0 BY <2>4, <3>1
    <3> QED BY <1>1, <1>8, <2>1, <2>3, <3>2, ReadOn
  <2>6. CASE u[1] = "v5"
    <3>1. /\ relay' = "serve" /\ request' = [cmd |-> u[2], dest |-> u[4]] /\ UNCHANGED <<down, valid>>
      BY <1>14, <2>2, <2>3, <2>6 DEF ReadsRequest
    <3>2. RelayAt(3, 2, <<>>)' BY <3>1 DEF RelayAt
    <3>3. Told(3)'
      <4>1. config.user # NoUser /\ valid /\ config.user = Secret BY <1>8, <2>1 DEF Told
      <4> QED BY <1>2, <2>5, <3>1, <4>1 DEF Told
    <3>4. down' = Down(e, 2) \o <<>>
      BY <1>10, <2>1, <2>2, <3>1
    <3>5. up' = Up(3, w) BY <2>4, <2>5
    <3>6. 3 \in 0 .. 3 /\ 2 \in 0 .. 3 /\ 3 <= w /\ g <= 2 BY <2>1, <2>5
    <3>7. Midway(w, e, 3, 2, <<>>)'
      BY <1>1, <1>2, <1>6, <1>7, <2>1, <3>2, <3>3, <3>4, <3>5, <3>6, GoesOnInStep
    <3>8. read' = <<>> BY <1>4, <2>4
    <3> QED BY <1>3, <1>7, <3>6, <3>7, <3>8, StillInStep
  <2>7. CASE u[1] # "v5"
    <3>1. RelayCloses(<<>>)
      BY <1>14, <2>2, <2>3, <2>7 DEF ReadsRequest
    <3>3. Closing(g, <<>>) BY <2>1 DEF Closing
    <3>4. relay \in {"greeting", "creds", "request", "serve"} /\ last = <<>> /\ g \in 0 .. 2 /\ read' = read
      BY <2>1, <2>4
    <3> QED BY <1>7, <1>11, <3>1, <3>3, <3>4
  <2> QED BY <2>6, <2>7
<1>15. CASE Serves \/ Refuses
  <2>1. relay = "serve" BY <1>15 DEF Serves, Refuses, RelayAnswers
  <2>2. c = 3 /\ g = 2 /\ last = <<>> BY <1>8, <2>1 DEF RelayAt
  <2>3. up = Up(3, w) /\ down = Down(e, 2) BY <1>9, <1>10, <2>1, <2>2
  <2>4. UNCHANGED <<valid, request, up, read>> BY <1>15 DEF Serves, Refuses, RelayAnswers
  <2>5. Told(3)' BY <1>2, <1>8, <2>2, <2>4 DEF Told
  <2>6. 3 <= w /\ 2 <= 3 /\ g <= 3 /\ g <= 2 /\ 3 \in 0 .. 3 /\ 2 \in 0 .. 3 BY <1>8, <2>2
  <2>7. read' = <<>> /\ up' = Up(3, w) BY <1>4, <2>3, <2>4
  <2>8. CASE Serves
    <3>1. relay' = "relay" /\ down' = down \o Response
      BY <2>8 DEF Serves, RelayAnswers, Response
    <3>2. RelayAt(3, 3, <<>>)' BY <3>1 DEF RelayAt
    <3>3. down' = Down(e, 3) \o <<>>
      <4>1. Down(e, g) \o Response = Down(e, 3) BY <1>8, <2>2, AnsweredOn
      <4>3. Down(e, 3) \in Seq(Fields)
        <5>1. e <= 3 OBVIOUS
        <5> QED BY <2>6, <5>1, AnsweredOn
      <4>4. Down(e, 3) \o <<>> = Down(e, 3)
        <5>1. <<>> \in Seq(Fields) OBVIOUS
        <5> QED BY <4>3, <5>1, Joined
      <4> QED BY <2>2, <2>3, <3>1, <4>1, <4>4
    <3>4. Midway(w, e, 3, 3, <<>>)'
      BY <1>1, <1>2, <1>6, <1>7, <2>2, <2>5, <2>6, <2>7, <3>2, <3>3, GoesOnInStep
    <3> QED BY <1>3, <1>7, <2>6, <2>7, <3>4, StillInStep
  <2>9. CASE Refuses
    <3>1. PICK code \in {"failure", "unknown"} : RelayAnswers(code, "idle")
      BY <2>9 DEF Refuses
    <3>2. PICK answer : answer = <<"v5", code, "rsv", Bound>> OBVIOUS
    <3>3. relay' = "idle" /\ down' = Down(e, 2) \o answer
      BY <2>3, <3>1, <3>2 DEF RelayAnswers
    <3>4. answer \in Refusals BY <3>2 DEF Refusals
    <3>5. RelayAt(3, 2, answer)' BY <3>2, <3>3 DEF RelayAt
    <3>6. Midway(w, e, 3, 2, answer)'
      BY <1>1, <1>2, <1>6, <2>2, <2>5, <2>6, <2>7, <3>3, <3>4, <3>5, GoesOnInStep
    <3> QED BY <1>3, <2>6, <2>7, <3>4, <3>6, StillInStep
  <2> QED BY <1>15, <2>8, <2>9
<1>16. CASE ConnectionFails
  <2>1. relay = "serve" /\ RelayCloses(<<>>) /\ read' = read BY <1>16 DEF ConnectionFails
  <2>2. g = 2 /\ last = <<>> BY <1>8, <2>1 DEF RelayAt
  <2>3. Closing(g, <<>>) BY <2>2 DEF Closing
  <2>4. relay \in {"greeting", "creds", "request", "serve"} /\ g \in 0 .. 2
    BY <2>1, <2>2
  <2> QED BY <1>7, <1>11, <2>1, <2>2, <2>3, <2>4
(* A relay that relays has read all that was written. *)
<1>17. ~Relays
  <2> SUFFICES ASSUME Relays PROVE FALSE OBVIOUS
  <2>1. relay = "relay" /\ up # <<>> BY DEF Relays
  <2>2. c = 3 BY <1>8, <2>1 DEF RelayAt
  <2>3. w = 3 BY <1>8, <2>2
  <2>4. up = Up(3, 3) BY <1>9, <2>1, <2>2, <2>3
  <2>5. Up(3, 3) = <<>> BY <1>1, WrittenOn
  <2> QED BY <2>1, <2>4, <2>5
<1>18. ~RelaySeesTheEnd BY DEF RelaySeesTheEnd
<1> QED BY <1>12, <1>13, <1>14, <1>15, <1>16, <1>17, <1>18 DEF RelaySteps

LEMMA InStepInit == HandshakeInit => InStep
<1> SUFFICES ASSUME HandshakeInit PROVE InStep
  OBVIOUS
<1>1. ConfigOK BY DEF HandshakeInit, ConfigOK
<1>2. EngineAt(0, 0, todo)
  <2>1. todo = Order BY DEF HandshakeInit, Order
  <2>2. Order = SubSeq(Order, 1, 6)
    <3>1. Standard = SubSeq(Standard, 1, 6) BY DEF Standard
    <3>2. Pipeline = SubSeq(Pipeline, 1, 6) BY DEF Pipeline
    <3> QED BY <3>1, <3>2 DEF Order
  <2> QED BY <2>1, <2>2 DEF EngineAt
<1>3. RelayAt(0, 0, <<>>) /\ Told(0) BY DEF HandshakeInit, RelayAt, Told
<1>4. up = Up(0, 0) /\ down = Down(0, 0) \o <<>>
  <2>1. Up(0, 0) = <<>> BY <1>1, WrittenOn
  <2>2. Down(0, 0) = <<>> BY AnsweredOn
  <2>3. <<>> \o <<>> = <<>> OBVIOUS
  <2> QED BY <2>1, <2>2, <2>3 DEF HandshakeInit
<1>5. Midway(0, 0, 0, 0, <<>>) BY <1>2, <1>3, <1>4 DEF Midway
<1>6. <<>> \in Refusals BY DEF Refusals
<1> QED BY <1>1, <1>5, <1>6 DEF InStep, HandshakeInit

LEMMA InStepStep ==
    ASSUME InStep, [HandshakeNext]_handshakeVars
    PROVE  InStep'
<1>1. CASE engine = "handshake" /\ HandshakeNext
  BY <1>1, EngineInStep, RelayInStep DEF HandshakeNext
<1>2. CASE engine = "failed" /\ HandshakeNext
  <2>1. engine' = engine /\ config' = config
    BY <1>2 DEF HandshakeNext, EngineSteps, EngineGivesUp, RelaySteps, IsAt, WritesMethods, WritesCreds,
         WritesRequest, ReadsMethod, ReadsVerdict, ReadsResponse, SeesTheEnd, Splices, Negotiates1,
         Negotiates2, ReadsRequest, Serves, Refuses, RelayAnswers, ConnectionFails, Relays,
         RelaySeesTheEnd, engineSide
  <2> QED BY <1>2, <2>1 DEF InStep, ConfigOK
<1>3. CASE engine = "splice" /\ HandshakeNext
  <2>1. relay = "relay" BY <1>3 DEF InStep
  <2>2. Relays
    BY <1>3, <2>1 DEF HandshakeNext, EngineSteps, EngineGivesUp, RelaySteps, IsAt, WritesMethods, WritesCreds,
         WritesRequest, ReadsMethod, ReadsVerdict, ReadsResponse, SeesTheEnd, Splices, Negotiates1,
         Negotiates2, ReadsRequest, Serves, Refuses, RelayAnswers, ConnectionFails, RelaySeesTheEnd
  <2>3. read' = read \o up /\ up' = <<>> /\ UNCHANGED <<config, engine, relay, valid, request>>
    BY <2>2 DEF Relays, engineSide
  <2>4. read \in Seq(Fields) /\ up \in Seq(Fields) /\ read \o up = Payload /\ Told(3)
    BY <1>3 DEF InStep
  <2>5. read' \in Seq(Fields) /\ up' \in Seq(Fields) /\ read' \o up' = Payload
    <3>1. read \o up \in Seq(Fields) BY <2>4, Joined
    <3>2. (read \o up) \o <<>> = read \o up
      <4>1. <<>> \in Seq(Fields) OBVIOUS
      <4> QED BY <3>1, <4>1, Joined
    <3> QED BY <2>3, <2>4, <3>1, <3>2
  <2>6. Told(3)' BY <2>3, <2>4 DEF Told
  <2> QED BY <1>3, <2>1, <2>3, <2>5, <2>6 DEF InStep, ConfigOK
<1>4. CASE UNCHANGED handshakeVars
  <2>1. UNCHANGED <<config, engine, todo, relay, valid, request, up, down, read>>
    BY <1>4 DEF handshakeVars
  <2>2. ConfigOK' /\ engine' \in {"handshake", "splice", "failed"}
    BY <2>1 DEF InStep, ConfigOK
  <2>3. CASE engine = "handshake"
    <3>1. PICK w \in 0 .. 3, e \in 0 .. 3, c \in 0 .. 3, g \in 0 .. 3 : \E last \in Refusals : Midway(w, e, c, g, last)
      BY <2>3 DEF InStep
    <3>2. PICK last \in Refusals : Midway(w, e, c, g, last)
      BY <3>1
    <3>3. EngineAt(w, e, todo)' BY <2>1, <3>2 DEF Midway, EngineAt, Order
    <3>4. RelayAt(c, g, last)' BY <2>1, <3>2 DEF Midway, RelayAt
    <3>5. Told(c)' BY <2>1, <3>2 DEF Midway, Told
    <3>6. (relay # "closed" => up = Up(c, w))'
      BY <2>1, <3>2 DEF Midway, Up, Methods, Creds, Request, Unread
    <3>7. (down = Down(e, g) \o last \/ (relay = "closed" /\ down = <<>>))'
      BY <2>1, <3>2 DEF Midway, Down, Method, Verdict, Response, Unread
    <3>8. Midway(w, e, c, g, last)' BY <3>2, <3>3, <3>4, <3>5, <3>6, <3>7 DEF Midway
    <3>9. read' = <<>> /\ engine' = "handshake" BY <2>1, <2>3 DEF InStep
    <3> QED BY <2>2, <3>8, <3>9, StillInStep
  <2>4. CASE engine = "splice"
    <3>1. Told(3)' BY <2>1, <2>4 DEF InStep, Told
    <3> QED BY <2>1, <2>2, <2>4, <3>1 DEF InStep
  <2>5. CASE engine = "failed" BY <2>1, <2>2, <2>5 DEF InStep
  <2> QED BY <2>3, <2>4, <2>5 DEF InStep
<1> QED BY <1>1, <1>2, <1>3, <1>4 DEF InStep

(* Of what either side wrote, the other has not read exactly the rest: the *)
(* fields that a read takes are those of one write.                        *)
THEOREM InStepInvariance == HandshakeSpec => []InStep
BY InStepInit, InStepStep, PTL DEF HandshakeSpec

(* For any credentials, destinations and payload: the relay serves the     *)
(* request that the engine made, and what it relays is what the splice     *)
(* sent, whole.                                                            *)
THEOREM SplicedAsAskedTheorem == HandshakeSpec => []SplicedAsAsked
<1>1. InStep => SplicedAsAsked
  BY DEF InStep, Told, SplicedAsAsked, AgreedOnRequest, PayloadIsWhole
<1> QED BY InStepInvariance, <1>1, PTL

=============================================================================
