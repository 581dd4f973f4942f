----------------------------- MODULE ClientHello -----------------------------
(***************************************************************************)
(* How the relay learns the name a TLS client asks for: TlsClientHello.kt  *)
(* and the loop around it, readClientHello of LocalSocksRelay.kt.          *)
(*                                                                         *)
(* A byte is a number.  To keep inputs short, the header of a TLS record   *)
(* is two bytes, <<type, length>>, and so is that of the handshake message *)
(* (they are five and four); the body of a ClientHello is its server name, *)
(* one byte, and what else it holds.                                       *)
(***************************************************************************)
EXTENDS Integers, Sequences, SequencesExt

CONSTANTS
    Hellos,    \* what clients send: [bytes, name, size]; the first size bytes are the records
               \* of a ClientHello for name; name is NoName when there is none
    Capacity,  \* MAX_CLIENT_HELLO
    NoName     \* the name of nobody; the others are positive

ASSUME HelloAssumption ==
    Capacity \in Nat /\ \A h \in Hellos : h.bytes \in Seq(Nat) /\ h.size \in Nat

TlsHandshake == 22
HelloType == 1
RecordHeader == 2
MessageHeader == 2

NeedMore == -2
NotTls == -1

VARIABLES
    hello,     \* what this client sends
    came,      \* how many bytes of it have arrived
    finished,  \* the client has closed its side behind them
    used,      \* how many bytes are in the buffer
    verdict,   \* NeedMore, NotTls, or the name
    reading    \* "reading"; "parsed", "full", "timeout", "end" is why the loop has ended

helloVars == <<hello, came, finished, used, verdict, reading>>

-----------------------------------------------------------------------------
(* TlsClientHello.parse *)

(* parseHandshake and parseServerName. *)
ParseHandshake(message) ==
    IF message[1] # HelloType \/ Len(message) = MessageHeader THEN NotTls
    ELSE message[MessageHeader + 1]

(* The handshake message is whole. *)
Complete(message) ==
    Len(message) >= MessageHeader /\ Len(message) >= message[2] + MessageHeader

(* What the records from offset on say, when those before them held message. *)
ParseRecords(bytes) ==
    LET from[offset \in 0 .. Len(bytes)] == [message \in Seq(Nat) |->
            IF offset + RecordHeader > Len(bytes) THEN NeedMore
            ELSE IF bytes[offset + 1] # TlsHandshake
                 THEN IF message = <<>> THEN NotTls ELSE NeedMore
            ELSE LET end == offset + RecordHeader + bytes[offset + 2]
                     longer == message \o SubSeq(bytes, offset + RecordHeader + 1, end)
                 IN  IF end > Len(bytes) THEN NeedMore
                     ELSE IF Complete(longer)
                          THEN ParseHandshake(SubSeq(longer, 1, longer[2] + MessageHeader))
                     ELSE from[end][longer]]
    IN  from[0][<<>>]

(* Mutant: what has no complete header is no TLS. *)
ParseHasty(bytes) ==
    IF Len(bytes) < RecordHeader \/ bytes[1] # TlsHandshake THEN NotTls
    ELSE ParseRecords(bytes)

Parse(bytes) ==
    IF Len(bytes) < RecordHeader THEN NeedMore
    ELSE IF bytes[1] # TlsHandshake THEN NotTls
    ELSE ParseRecords(bytes)

-----------------------------------------------------------------------------
(* readClientHello *)

HelloInit ==
    /\ hello \in Hellos
    /\ came = 0 /\ finished = FALSE /\ used = 0
    /\ verdict = NeedMore /\ reading = "reading"

HelloArrives ==
    /\ came < Len(hello.bytes)
    /\ \E n \in came + 1 .. Len(hello.bytes) : came' = n
    /\ UNCHANGED <<hello, finished, used, verdict, reading>>

HelloFinishes ==
    /\ came = Len(hello.bytes) /\ ~finished /\ finished' = TRUE
    /\ UNCHANGED <<hello, came, used, verdict, reading>>

(* One read: what has come, as far as there is room, and what can be       *)
(* told from all that was read.                                            *)
ReadsHello ==
    /\ reading = "reading" /\ came > used
    /\ used' = IF came < Capacity THEN came ELSE Capacity
    /\ verdict' = Parse(SubSeq(hello.bytes, 1, used'))
    /\ reading' = IF verdict' # NeedMore THEN "parsed" ELSE IF used' = Capacity THEN "full" ELSE "reading"
    /\ UNCHANGED <<hello, came, finished>>

(* Mutant: the socket has no timeout. *)
GivesUpAtEnd ==
    /\ reading = "reading" /\ came = used /\ finished
    /\ reading' = "end"
    /\ UNCHANGED <<hello, came, finished, used, verdict>>

(* Nothing has come for TLS_SNI_TIMEOUT_MS, or the client's end has. *)
GivesUp ==
    /\ reading = "reading" /\ came = used
    /\ reading' = IF finished THEN "end" ELSE "timeout"
    /\ UNCHANGED <<hello, came, finished, used, verdict>>

HelloNext == HelloArrives \/ HelloFinishes \/ ReadsHello \/ GivesUp

HelloSpec == HelloInit /\ [][HelloNext]_helloVars

-----------------------------------------------------------------------------
(* Properties *)

HelloTypeOK ==
    /\ hello \in Hellos
    /\ came \in 0 .. Len(hello.bytes) /\ used \in 0 .. came /\ used <= Capacity
    /\ finished \in BOOLEAN
    /\ reading \in {"reading", "parsed", "full", "timeout", "end"}

(* However a ClientHello is cut into TLS records and these into segments,  *)
(* and whatever follows it, the name the relay finds is the one the client *)
(* asked for; only a silence in the middle of it, its end, or a ClientHello *)
(* beyond the capacity make it be missed, and it is never mistaken.        *)
NameIsFound ==
    hello.name # NoName =>
        /\ verdict \in {NeedMore, hello.name}
        /\ reading = "parsed" => verdict = hello.name
        /\ reading \in {"reading", "timeout", "end"} /\ used >= hello.size => verdict = hello.name

(* What is no ClientHello never gets a name, and so no gateway. *)
NoNameIsInvented == hello.name = NoName => verdict \in {NeedMore, NotTls}

(* What was told from a part of the input is not revised by the rest.      *)
VerdictIsFinal == reading = "parsed" => verdict = Parse(hello.bytes)

(* A connection is routed by its ClientHello, not by how that arrives.     *)
HelloInv == HelloTypeOK /\ NameIsFound /\ NoNameIsInvented /\ VerdictIsFinal

(* A client that says nothing, too little or nonsense does not keep the    *)
(* relay from connecting: the loop ends.                                   *)
HelloIsRead == <>(reading # "reading")

=============================================================================
