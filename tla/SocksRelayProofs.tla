---------------------------- MODULE SocksRelayProofs ----------------------------
(***************************************************************************)
(* Proofs about SocksRelay, for any number of connections: RelayInv is     *)
(* inductive, and RelayedIsReleased follows from it.                       *)
(***************************************************************************)
EXTENDS SocksRelay, TLAPS

(* What the proofs need of the names of sockets. *)
LEMMA SocketNames ==
    /\ Server \in Sockets
    /\ \A c \in Conns : Client(c) \in Sockets /\ Out(c) \in Sockets
    /\ \A c \in Conns : Client(c) # Server /\ Out(c) # Server
    /\ \A c, d : Client(c) # Out(d)
    /\ \A c, d : (Client(c) = Client(d) => c = d) /\ (Out(c) = Out(d) => c = d)
    /\ \A x \in Sockets : x = Server \/ \E c \in Conns : x = Client(c) \/ x = Out(c)
BY DEF Server, Sockets, Kinds, Client, Out

LEMMA RelayInit == Init => RelayInv
<1> SUFFICES ASSUME Init PROVE RelayInv
  OBVIOUS
<1> USE DEF Init
<1>1. TypeOK
  BY SocketNames DEF TypeOK, HandlerPcs, HelperPcs
<1>2. EverySocketIsFound
  BY DEF EverySocketIsFound, IsOpen
<1>3. BeforeItsTurn
  BY SocketNames DEF BeforeItsTurn, Unmet, Undialled, Dialled, Unbound, Relaying
<1>4. ClosedFirst
  BY SocketNames DEF ClosedFirst, Relaying, IsOpen
<1> QED
  BY <1>1, <1>2, <1>3, <1>4 DEF RelayInv

LEMMA AcceptorKeeps ==
    ASSUME RelayInv, AcceptorSteps \/ AcceptorFails PROVE RelayInv'
<1> USE SocketNames DEF RelayInv, TypeOK, HandlerPcs, HelperPcs, threadVars, envVars
<1>1. CASE Accepts
  <2> USE <1>1 DEF Accepts
  <2>1. TypeOK'
    OBVIOUS
  <2>2. EverySocketIsFound'
    BY DEF EverySocketIsFound, IsOpen, InHand, Refused, Unbound
  <2>3. BeforeItsTurn'
    BY DEF BeforeItsTurn, Unmet, Undialled, Dialled, Unbound, Relaying
  <2>4. ClosedFirst'
    BY DEF ClosedFirst, BeforeItsTurn, Unmet, Undialled, Dialled, Unbound, Relaying, IsOpen, Refused
  <2> QED
    BY <2>1, <2>2, <2>3, <2>4
<1>2. CASE AcceptorAdds
  <2> USE <1>2 DEF AcceptorAdds
  <2>1. TypeOK'
    OBVIOUS
  <2>2. EverySocketIsFound'
    BY DEF EverySocketIsFound, IsOpen, InHand, Refused, Unbound
  <2>3. BeforeItsTurn'
    BY DEF BeforeItsTurn, Unmet, Undialled, Dialled, Unbound, Relaying
  <2>4. ClosedFirst'
    BY DEF ClosedFirst, Relaying, IsOpen, Refused
  <2> QED
    BY <2>1, <2>2, <2>3, <2>4
<1>3. CASE AcceptorSubmits
  <2> USE <1>3 DEF AcceptorSubmits
  <2>1. TypeOK'
    OBVIOUS
  <2>2. EverySocketIsFound'
    BY DEF EverySocketIsFound, IsOpen, InHand, Refused, Unbound, BeforeItsTurn, Unmet, Accepting
  <2>3. BeforeItsTurn'
    BY DEF BeforeItsTurn, Unmet, Undialled, Dialled, Unbound, Relaying
  <2>4. ClosedFirst'
    BY DEF ClosedFirst, BeforeItsTurn, Unmet, Undialled, Dialled, Unbound, Relaying, IsOpen, Refused
  <2> QED
    BY <2>1, <2>2, <2>3, <2>4
<1>4. CASE AcceptorEnds \/ AcceptorFails
  <2> USE <1>4 DEF AcceptorEnds, AcceptorFails
  <2>1. TypeOK'
    OBVIOUS
  <2>2. EverySocketIsFound'
    BY DEF EverySocketIsFound, IsOpen, InHand, Refused, Unbound
  <2>3. BeforeItsTurn'
    BY DEF BeforeItsTurn, Unmet, Undialled, Dialled, Unbound, Relaying
  <2>4. ClosedFirst'
    BY DEF ClosedFirst, Relaying, IsOpen, Refused
  <2> QED
    BY <2>1, <2>2, <2>3, <2>4
<1> QED
  BY <1>1, <1>2, <1>3, <1>4 DEF AcceptorSteps

LEMMA HandlerKeepsBeforeRelaying ==
    ASSUME RelayInv, NEW c \in Conns, Negotiates(c) \/ NegotiationFails(c) \/ Dials(c) \/ UdpRefused(c) \/ HandlerAdds(c) \/ Answers(c) \/ WritesFirst(c) \/ Spawns(c) PROVE RelayInv'
<1> USE SocketNames DEF RelayInv, TypeOK, HandlerPcs, HelperPcs, threadVars, envVars
<1>1. CASE Negotiates(c)
  <2> USE <1>1 DEF Negotiates, Goes
  <2>1. TypeOK'
    OBVIOUS
  <2>2. EverySocketIsFound'
    BY DEF EverySocketIsFound, IsOpen, InHand, Refused, Unbound
  <2>3. BeforeItsTurn'
    BY DEF BeforeItsTurn, Unmet, Undialled, Dialled, Unbound, Relaying
  <2>4. ClosedFirst'
    BY DEF ClosedFirst, BeforeItsTurn, Unmet, Undialled, Dialled, Unbound, Relaying, IsOpen, Refused
  <2> QED
    BY <2>1, <2>2, <2>3, <2>4
<1>2. CASE NegotiationFails(c)
  <2> USE <1>2 DEF NegotiationFails, Goes
  <2>1. TypeOK'
    OBVIOUS
  <2>2. EverySocketIsFound'
    BY DEF EverySocketIsFound, IsOpen, InHand, Refused, Unbound
  <2>3. BeforeItsTurn'
    BY DEF BeforeItsTurn, Unmet, Undialled, Dialled, Unbound, Relaying
  <2>4. ClosedFirst'
    BY DEF ClosedFirst, BeforeItsTurn, Unmet, Undialled, Dialled, Unbound, Relaying, IsOpen, Refused
  <2> QED
    BY <2>1, <2>2, <2>3, <2>4
<1>3. CASE Dials(c)
  <2> USE <1>3 DEF Dials, Goes
  <2>1. TypeOK'
    OBVIOUS
  <2>2. EverySocketIsFound'
    <3>1. helper[c] = "none" /\ fd[Out(c)] = "none"
      BY DEF BeforeItsTurn, Undialled, Relaying
    <3>2. \A d \in Conns : Refused(d) <=> Refused(d)'
      BY <3>1 DEF Refused
    <3>3. \A d \in Conns : Unbound(d) => Unbound(d)'
      BY <3>1 DEF Unbound
    <3>4. \A x \in Sockets : InHand(x) => InHand(x)'
      BY DEF InHand
    <3>5. Out(c) \notin sessions /\ IsOpen(Out(c))' => InHand(Out(c))' \/ Unbound(c)'
      BY <3>1 DEF IsOpen, InHand, Unbound
    <3>6. \A x \in Sockets : x # Out(c) => (IsOpen(x)' <=> IsOpen(x))
      BY DEF IsOpen
    <3> QED
      BY <3>2, <3>3, <3>4, <3>5, <3>6 DEF EverySocketIsFound
  <2>3. BeforeItsTurn'
    BY DEF BeforeItsTurn, Unmet, Undialled, Dialled, Unbound, Relaying
  <2>4. ClosedFirst'
    BY DEF ClosedFirst, BeforeItsTurn, Unmet, Undialled, Dialled, Unbound, Relaying, IsOpen, Refused
  <2> QED
    BY <2>1, <2>2, <2>3, <2>4
<1>4. CASE UdpRefused(c)
  <2> USE <1>4 DEF UdpRefused, Goes
  <2>1. TypeOK'
    OBVIOUS
  <2>2. EverySocketIsFound'
    BY DEF EverySocketIsFound, IsOpen, InHand, Refused, Unbound
  <2>3. BeforeItsTurn'
    BY DEF BeforeItsTurn, Unmet, Undialled, Dialled, Unbound, Relaying
  <2>4. ClosedFirst'
    BY DEF ClosedFirst, BeforeItsTurn, Unmet, Undialled, Dialled, Unbound, Relaying, IsOpen, Refused
  <2> QED
    BY <2>1, <2>2, <2>3, <2>4
<1>5. CASE HandlerAdds(c)
  <2> USE <1>5 DEF HandlerAdds, Goes
  <2>1. TypeOK'
    OBVIOUS
  <2>2. EverySocketIsFound'
    BY DEF EverySocketIsFound, IsOpen, InHand, Refused, Unbound
  <2>3. BeforeItsTurn'
    BY DEF BeforeItsTurn, Unmet, Undialled, Dialled, Unbound, Relaying
  <2>4. ClosedFirst'
    BY DEF ClosedFirst, BeforeItsTurn, Unmet, Undialled, Dialled, Unbound, Relaying, IsOpen, Refused
  <2> QED
    BY <2>1, <2>2, <2>3, <2>4
<1>6. CASE Answers(c)
  <2> USE <1>6 DEF Answers, Goes
  <2>1. TypeOK'
    OBVIOUS
  <2>2. EverySocketIsFound'
    BY DEF EverySocketIsFound, IsOpen, InHand, Refused, Unbound
  <2>3. BeforeItsTurn'
    BY DEF BeforeItsTurn, Unmet, Undialled, Dialled, Unbound, Relaying
  <2>4. ClosedFirst'
    BY DEF ClosedFirst, BeforeItsTurn, Unmet, Undialled, Dialled, Unbound, Relaying, IsOpen, Refused
  <2> QED
    BY <2>1, <2>2, <2>3, <2>4
<1>7. CASE WritesFirst(c)
  <2> USE <1>7 DEF WritesFirst, Goes
  <2>1. TypeOK'
    OBVIOUS
  <2>2. EverySocketIsFound'
    BY DEF EverySocketIsFound, IsOpen, InHand, Refused, Unbound
  <2>3. BeforeItsTurn'
    BY DEF BeforeItsTurn, Unmet, Undialled, Dialled, Unbound, Relaying
  <2>4. ClosedFirst'
    BY DEF ClosedFirst, BeforeItsTurn, Unmet, Undialled, Dialled, Unbound, Relaying, IsOpen, Refused
  <2> QED
    BY <2>1, <2>2, <2>3, <2>4
<1>8. CASE Spawns(c)
  <2> USE <1>8 DEF Spawns, Goes
  <2>1. TypeOK'
    OBVIOUS
  <2>2. EverySocketIsFound'
    BY DEF EverySocketIsFound, IsOpen, InHand, Refused, Unbound
  <2>3. BeforeItsTurn'
    BY DEF BeforeItsTurn, Unmet, Undialled, Dialled, Unbound, Relaying
  <2>4. ClosedFirst'
    BY DEF ClosedFirst, BeforeItsTurn, Unmet, Undialled, Dialled, Unbound, Relaying, IsOpen, Refused
  <2> QED
    BY <2>1, <2>2, <2>3, <2>4
<1> QED
  BY <1>1, <1>2, <1>3, <1>4, <1>5, <1>6, <1>7, <1>8

LEMMA HandlerKeepsRelaying ==
    ASSUME RelayInv, NEW c \in Conns, HandlerSeesEnd(c) \/ HandlerFails(c) \/ HandlerCloses(c) \/ HandlerRemoves(c) \/ HandlerCatches(c) \/ HandlerEnds(c) PROVE RelayInv'
<1> USE SocketNames DEF RelayInv, TypeOK, HandlerPcs, HelperPcs, threadVars, envVars
<1>1. CASE HandlerSeesEnd(c)
  <2> USE <1>1 DEF HandlerSeesEnd, Goes
  <2>1. TypeOK'
    OBVIOUS
  <2>2. EverySocketIsFound'
    BY DEF EverySocketIsFound, IsOpen, InHand, Refused, Unbound
  <2>3. BeforeItsTurn'
    BY DEF BeforeItsTurn, Unmet, Undialled, Dialled, Unbound, Relaying
  <2>4. ClosedFirst'
    BY DEF ClosedFirst, BeforeItsTurn, Unmet, Undialled, Dialled, Unbound, Relaying, IsOpen, Refused
  <2> QED
    BY <2>1, <2>2, <2>3, <2>4
<1>2. CASE HandlerFails(c)
  <2> USE <1>2 DEF HandlerFails, Goes
  <2>1. TypeOK'
    OBVIOUS
  <2>2. EverySocketIsFound'
    BY DEF EverySocketIsFound, IsOpen, InHand, Refused, Unbound
  <2>3. BeforeItsTurn'
    BY DEF BeforeItsTurn, Unmet, Undialled, Dialled, Unbound, Relaying
  <2>4. ClosedFirst'
    BY DEF ClosedFirst, BeforeItsTurn, Unmet, Undialled, Dialled, Unbound, Relaying, IsOpen, Refused
  <2> QED
    BY <2>1, <2>2, <2>3, <2>4
<1>3. CASE HandlerCloses(c)
  <2> USE <1>3 DEF HandlerCloses, Goes, Close, AfterClose
  <2>1. TypeOK'
    OBVIOUS
  <2>2. EverySocketIsFound'
    BY DEF EverySocketIsFound, IsOpen, InHand, Refused, Unbound
  <2>3. BeforeItsTurn'
    BY DEF BeforeItsTurn, Unmet, Undialled, Dialled, Unbound, Relaying
  <2>4. ClosedFirst'
    BY DEF ClosedFirst, BeforeItsTurn, Unmet, Undialled, Dialled, Unbound, Relaying, IsOpen, Refused
  <2> QED
    BY <2>1, <2>2, <2>3, <2>4
<1>4. CASE HandlerRemoves(c)
  <2> USE <1>4 DEF HandlerRemoves, Goes, AfterClose
  <2>1. TypeOK'
    OBVIOUS
  <2>2. EverySocketIsFound'
    BY DEF EverySocketIsFound, ClosedFirst, IsOpen, InHand, Refused, Unbound
  <2>3. BeforeItsTurn'
    BY DEF BeforeItsTurn, Unmet, Undialled, Dialled, Unbound, Relaying
  <2>4. ClosedFirst'
    BY DEF ClosedFirst, BeforeItsTurn, Unmet, Undialled, Dialled, Unbound, Relaying, IsOpen, Refused
  <2> QED
    BY <2>1, <2>2, <2>3, <2>4
<1>5. CASE HandlerCatches(c)
  <2> USE <1>5 DEF HandlerCatches, Goes, Close
  <2>1. TypeOK'
    OBVIOUS
  <2>2. EverySocketIsFound'
    BY DEF EverySocketIsFound, IsOpen, InHand, Refused, Unbound
  <2>3. BeforeItsTurn'
    BY DEF BeforeItsTurn, Unmet, Undialled, Dialled, Unbound, Relaying
  <2>4. ClosedFirst'
    BY DEF ClosedFirst, BeforeItsTurn, Unmet, Undialled, Dialled, Unbound, Relaying, IsOpen, Refused
  <2> QED
    BY <2>1, <2>2, <2>3, <2>4
<1>6. CASE HandlerEnds(c)
  <2> USE <1>6 DEF HandlerEnds, Goes
  <2>1. TypeOK'
    OBVIOUS
  <2>2. EverySocketIsFound'
    BY DEF EverySocketIsFound, ClosedFirst, IsOpen, InHand, Refused, Unbound
  <2>3. BeforeItsTurn'
    BY DEF BeforeItsTurn, Unmet, Undialled, Dialled, Unbound, Relaying
  <2>4. ClosedFirst'
    BY DEF ClosedFirst, BeforeItsTurn, Unmet, Undialled, Dialled, Unbound, Relaying, IsOpen, Refused
  <2> QED
    BY <2>1, <2>2, <2>3, <2>4
<1> QED
  BY <1>1, <1>2, <1>3, <1>4, <1>5, <1>6

LEMMA HelperKeeps ==
    ASSUME RelayInv, NEW c \in Conns, HelperSeesEnd(c) \/ HelperFails(c) \/ HelperCloses(c) \/ HelperEnds(c) PROVE RelayInv'
<1> USE SocketNames DEF RelayInv, TypeOK, HandlerPcs, HelperPcs, threadVars, envVars
<1>1. CASE HelperSeesEnd(c)
  <2> USE <1>1 DEF HelperSeesEnd, HelperGoes
  <2>1. TypeOK'
    OBVIOUS
  <2>2. EverySocketIsFound'
    BY DEF EverySocketIsFound, IsOpen, InHand, Refused, Unbound
  <2>3. BeforeItsTurn'
    BY DEF BeforeItsTurn, Unmet, Undialled, Dialled, Unbound, Relaying
  <2>4. ClosedFirst'
    BY DEF ClosedFirst, BeforeItsTurn, Unmet, Undialled, Dialled, Unbound, Relaying, IsOpen, Refused
  <2> QED
    BY <2>1, <2>2, <2>3, <2>4
<1>2. CASE HelperFails(c)
  <2> USE <1>2 DEF HelperFails, HelperGoes
  <2>1. TypeOK'
    OBVIOUS
  <2>2. EverySocketIsFound'
    BY DEF EverySocketIsFound, IsOpen, InHand, Refused, Unbound
  <2>3. BeforeItsTurn'
    BY DEF BeforeItsTurn, Unmet, Undialled, Dialled, Unbound, Relaying
  <2>4. ClosedFirst'
    BY DEF ClosedFirst, BeforeItsTurn, Unmet, Undialled, Dialled, Unbound, Relaying, IsOpen, Refused
  <2> QED
    BY <2>1, <2>2, <2>3, <2>4
<1>3. CASE HelperCloses(c)
  <2> USE <1>3 DEF HelperCloses, HelperGoes, Close
  <2>1. TypeOK'
    OBVIOUS
  <2>2. EverySocketIsFound'
    BY DEF EverySocketIsFound, IsOpen, InHand, Refused, Unbound
  <2>3. BeforeItsTurn'
    BY DEF BeforeItsTurn, Unmet, Undialled, Dialled, Unbound, Relaying
  <2>4. ClosedFirst'
    BY DEF ClosedFirst, BeforeItsTurn, Unmet, Undialled, Dialled, Unbound, Relaying, IsOpen, Refused
  <2> QED
    BY <2>1, <2>2, <2>3, <2>4
<1>4. CASE HelperEnds(c)
  <2> USE <1>4 DEF HelperEnds, HelperGoes
  <2>1. TypeOK'
    OBVIOUS
  <2>2. EverySocketIsFound'
    BY DEF EverySocketIsFound, ClosedFirst, IsOpen, InHand, Refused, Unbound
  <2>3. BeforeItsTurn'
    BY DEF BeforeItsTurn, Unmet, Undialled, Dialled, Unbound, Relaying
  <2>4. ClosedFirst'
    BY DEF ClosedFirst, BeforeItsTurn, Unmet, Undialled, Dialled, Unbound, Relaying, IsOpen, Refused
  <2> QED
    BY <2>1, <2>2, <2>3, <2>4
<1> QED
  BY <1>1, <1>2, <1>3, <1>4

LEMMA CloserKeeps ==
    ASSUME RelayInv, CloseBegins \/ CloserCloses \/ CloserUnlocks \/ CloserShutsDown PROVE RelayInv'
<1> USE SocketNames DEF RelayInv, TypeOK, HandlerPcs, HelperPcs, threadVars, envVars
<1>1. CASE CloseBegins
  <2> USE <1>1 DEF CloseBegins
  <2>1. TypeOK'
    OBVIOUS
  <2>2. EverySocketIsFound'
    BY DEF EverySocketIsFound, IsOpen, InHand, Refused, Unbound
  <2>3. BeforeItsTurn'
    BY DEF BeforeItsTurn, Unmet, Undialled, Dialled, Unbound, Relaying
  <2>4. ClosedFirst'
    BY DEF ClosedFirst, BeforeItsTurn, Unmet, Undialled, Dialled, Unbound, Relaying, IsOpen, Refused
  <2> QED
    BY <2>1, <2>2, <2>3, <2>4
<1>2. CASE CloserCloses
  <2> USE <1>2 DEF CloserCloses, Close
  <2>1. TypeOK'
    OBVIOUS
  <2>2. EverySocketIsFound'
    BY DEF EverySocketIsFound, IsOpen, InHand, Refused, Unbound
  <2>3. BeforeItsTurn'
    BY DEF BeforeItsTurn, Unmet, Undialled, Dialled, Unbound, Relaying
  <2>4. ClosedFirst'
    BY DEF ClosedFirst, BeforeItsTurn, Unmet, Undialled, Dialled, Unbound, Relaying, IsOpen, Refused
  <2> QED
    BY <2>1, <2>2, <2>3, <2>4
<1>3. CASE CloserUnlocks
  <2> USE <1>3 DEF CloserUnlocks
  <2>1. TypeOK'
    OBVIOUS
  <2>2. EverySocketIsFound'
    BY DEF EverySocketIsFound, IsOpen, InHand, Refused, Unbound
  <2>3. BeforeItsTurn'
    BY DEF BeforeItsTurn, Unmet, Undialled, Dialled, Unbound, Relaying
  <2>4. ClosedFirst'
    BY DEF ClosedFirst, BeforeItsTurn, Unmet, Undialled, Dialled, Unbound, Relaying, IsOpen, Refused
  <2> QED
    BY <2>1, <2>2, <2>3, <2>4
<1>4. CASE CloserShutsDown
  <2> USE <1>4 DEF CloserShutsDown
  <2>1. TypeOK'
    OBVIOUS
  <2>2. EverySocketIsFound'
    BY DEF EverySocketIsFound, IsOpen, InHand, Refused, Unbound
  <2>3. BeforeItsTurn'
    BY DEF BeforeItsTurn, Unmet, Undialled, Dialled, Unbound, Relaying
  <2>4. ClosedFirst'
    BY DEF ClosedFirst, BeforeItsTurn, Unmet, Undialled, Dialled, Unbound, Relaying, IsOpen, Refused
  <2> QED
    BY <2>1, <2>2, <2>3, <2>4
<1> QED
  BY <1>1, <1>2, <1>3, <1>4

LEMMA OthersKeep ==
    ASSUME RelayInv,
           (\E c \in Conns : EngineConnects(c)) \/ (\E x \in Sockets : OtherEndCloses(x)) \/ UNCHANGED vars
    PROVE  RelayInv'
<1> USE SocketNames DEF RelayInv, TypeOK, HandlerPcs, HelperPcs, threadVars, envVars, vars,
                        EngineConnects, OtherEndCloses
<1>1. TypeOK'
  OBVIOUS
<1>2. EverySocketIsFound'
  BY DEF EverySocketIsFound, IsOpen, InHand, Refused, Unbound
<1>3. BeforeItsTurn'
  BY DEF BeforeItsTurn, Unmet, Undialled, Dialled, Unbound, Relaying
<1>4. ClosedFirst'
  BY DEF ClosedFirst, IsOpen, Refused
<1> QED
  BY <1>1, <1>2, <1>3, <1>4

LEMMA RelayStep == RelayInv /\ [Next]_vars => RelayInv'
<1> SUFFICES ASSUME RelayInv, [Next]_vars PROVE RelayInv'
  OBVIOUS
<1>1. ASSUME NEW c \in Conns, HandlerSteps(c) \/ Negotiates(c) \/ HandlerFails(c) PROVE RelayInv'
  BY <1>1, HandlerKeepsBeforeRelaying, HandlerKeepsRelaying DEF HandlerSteps
<1>2. ASSUME NEW c \in Conns, HelperSteps(c) \/ HelperFails(c) PROVE RelayInv'
  BY <1>2, HelperKeeps DEF HelperSteps
<1>3. CASE CloseBegins \/ CloserSteps
  BY <1>3, CloserKeeps DEF CloserSteps
<1> QED
  BY <1>1, <1>2, <1>3, AcceptorKeeps, OthersKeep DEF Next

(* Whatever the engine, the network and close () do and however many       *)
(* connections there are, close () finds every open socket of the relay    *)
(* (LocalSocksRelay's sessions).                                           *)
THEOREM RelayInvariance == Spec => []RelayInv
<1> QED
  BY RelayInit, RelayStep, PTL DEF Spec

-----------------------------------------------------------------------------
(* What RelayedIsReleased needs besides: a handler that has gone past the  *)
(* removal of a socket has removed it, and nobody enters it again.         *)
Removed ==
    \A c \in Conns :
        /\ helper[c] # "none" => fd[Out(c)] # "none"
        /\ handler[c] = "ended" => Client(c) \notin sessions
        /\ helper[c] # "none" =>
              \/ Out(c) \notin sessions
              \/ handler[c] \in Relaying /\ ~(command[c] = "udp" /\ handler[c] = "closeClient")

LEMMA RemovedStep == ASSUME RelayInv, Removed, [Next]_vars PROVE Removed'
<1> USE SocketNames DEF Removed, RelayInv, TypeOK, BeforeItsTurn, Unmet, Relaying, Undialled, Dialled, Unbound,
                        threadVars, envVars
<1>1. ASSUME NEW c \in Conns, HandlerSteps(c) \/ Negotiates(c) \/ HandlerFails(c) PROVE Removed'
  <2> USE DEF Goes
  <2>1. CASE Negotiates(c) \/ NegotiationFails(c)
    BY <2>1 DEF Negotiates, NegotiationFails
  <2>2. CASE Dials(c) \/ UdpRefused(c)
    BY <2>2 DEF Dials, UdpRefused
  <2>3. CASE HandlerAdds(c)
    BY <2>3 DEF HandlerAdds
  <2>4. CASE Answers(c) \/ WritesFirst(c)
    BY <2>4 DEF Answers, WritesFirst
  <2>5. CASE Spawns(c)
    BY <2>5 DEF Spawns
  <2>6. CASE HandlerSeesEnd(c) \/ HandlerFails(c)
    BY <2>6 DEF HandlerSeesEnd, HandlerFails
  <2>7. CASE HandlerCloses(c)
    BY <2>7 DEF HandlerCloses, AfterClose, Close
  <2>8. CASE HandlerRemoves(c)
    BY <2>8 DEF HandlerRemoves, AfterClose
  <2>9. CASE HandlerCatches(c) \/ HandlerEnds(c)
    BY <2>9 DEF HandlerCatches, HandlerEnds, Close
  <2> QED
    BY <1>1, <2>1, <2>2, <2>3, <2>4, <2>5, <2>6, <2>7, <2>8, <2>9 DEF HandlerSteps
<1>2. ASSUME NEW c \in Conns, HelperSteps(c) \/ HelperFails(c) PROVE Removed'
  BY <1>2 DEF HelperSteps, HelperSeesEnd, HelperFails, HelperCloses, HelperEnds, HelperGoes, Close
<1>3. CASE AcceptorSteps \/ AcceptorFails
  <2>1. CASE Accepts
    BY <2>1 DEF Accepts
  <2>2. CASE AcceptorAdds
    BY <2>2 DEF AcceptorAdds
  <2>3. CASE AcceptorSubmits
    BY <2>3 DEF AcceptorSubmits
  <2>4. CASE AcceptorEnds \/ AcceptorFails
    BY <2>4 DEF AcceptorEnds, AcceptorFails
  <2> QED
    BY <1>3, <2>1, <2>2, <2>3, <2>4 DEF AcceptorSteps
<1>4. CASE CloseBegins \/ CloserSteps
  BY <1>4 DEF CloseBegins, CloserSteps, CloserCloses, CloserUnlocks, CloserShutsDown, Close
<1>5. CASE (\E c \in Conns : EngineConnects(c)) \/ (\E x \in Sockets : OtherEndCloses(x)) \/ UNCHANGED vars
  BY <1>5 DEF EngineConnects, OtherEndCloses, vars
<1> QED
  BY <1>1, <1>2, <1>3, <1>4, <1>5 DEF Next

(* When both threads of a connection have ended in the ordinary way, its   *)
(* sockets are closed and out of the set: relayBothWays, handleClient and  *)
(* handleUdpAssociate leak nothing of a connection that was relayed.       *)
THEOREM RelayedIsReleasedTheorem == Spec => []RelayedIsReleased
<1>1. Init => Removed
  BY SocketNames DEF Init, Removed
<1>2. RelayInv /\ Removed => RelayedIsReleased
  BY SocketNames DEF RelayInv, Removed, ClosedFirst, RelayedIsReleased, Refused, Relaying
<1> QED
  BY <1>1, <1>2, RelayInvariance, RemovedStep, PTL DEF Spec

=============================================================================
