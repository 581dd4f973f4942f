------------------------------- MODULE TcpSplice -------------------------------
(***************************************************************************)
(* The splice of one TCP session: bytes of the client, queued by lwIP, go  *)
(* to the server's socket, and bytes of the socket go through a ring       *)
(* buffer to lwIP.  src/hev-socks5-session-tcp.c, src/misc/hev-ring-buffer.c. *)
(*                                                                         *)
(* tcp_write is called without TCP_WRITE_FLAG_COPY, so lwIP keeps pointers *)
(* into the ring until the client has acknowledged: the ring has to keep   *)
(* those bytes as they are, in use but no longer readable.  The bytes of   *)
(* the server are numbered 1, 2, ... in the order it sends them.           *)
(*                                                                         *)
(* The task and lwIP's callbacks take turns: a callback comes only while   *)
(* the task has yielded.                                                   *)
(***************************************************************************)
EXTENDS Integers, Sequences, SequencesExt

CONSTANTS
    RingSize,     \* tcp-buffer-size
    RcvWindow,    \* TCP_WND
    ServerBytes,  \* bytes the server sends before it closes
    ClientBytes   \* bytes the client sends before it closes

ASSUME SpliceAssumption ==
    /\ RingSize \in Nat \ {0} /\ RcvWindow \in Nat \ {0}
    /\ ServerBytes \in Nat /\ ClientBytes \in Nat

VARIABLES
    ring,         \* [rp, wp, rda, use]: rda_size readable of use_size in use
    slot,         \* the number of the byte in each place of the ring
    got,          \* bytes read from the server's socket
    unacked,      \* what lwIP has to send or send again: [pos, n]
    acked,        \* bytes the client has acknowledged
    fin,          \* tcp_shutdown of the sending side was called
    fromClient,   \* bytes the client has sent
    pbufs,        \* those of them in self->queue
    window,       \* what lwIP's receive window has left
    eof,          \* pcb_eof: the client has closed its side
    shut,         \* shutdown (fd, SHUT_WR) was called
    hasPcb,       \* self->pcb
    ended,        \* the session's timeout is 0
    resF, resB,   \* the results of tcp_splice_f and tcp_splice_b
    at            \* where the task is

spliceVars == <<ring, slot, got, unacked, acked, fin, fromClient, pbufs, window,
                eof, shut, hasPcb, ended, resF, resB, at>>

serverSide == <<ring, slot, got, unacked, acked, fin>>
clientSide == <<fromClient, pbufs, window, eof, shut>>

Yielded == {"yielded", "waiting", "drainWaiting"}

SpliceInit ==
    /\ ring = [rp |-> 0, wp |-> 0, rda |-> 0, use |-> 0]
    /\ slot = [i \in 0 .. RingSize - 1 |-> 0]
    /\ got = 0 /\ unacked = <<>> /\ acked = 0 /\ fin = FALSE
    /\ fromClient = 0 /\ pbufs = 0 /\ window = RcvWindow /\ eof = FALSE /\ shut = FALSE
    /\ hasPcb = TRUE /\ ended = FALSE
    /\ resF = 1 /\ resB = 1
    /\ at = "f"

-----------------------------------------------------------------------------
(* The ring buffer *)

Place(i) == i % RingSize

(* Mutant: the space is what cannot be read any more. *)
SpaceUnread(r) == RingSize - r.rda

(* hev_ring_buffer_writing: the space, from wp on. *)
Space(r) == RingSize - r.use

(* hev_ring_buffer_write_finish *)
WriteFinish(r, n) ==
    [r EXCEPT !.wp = Place(@ + n), !.use = @ + n, !.rda = @ + n]

(* hev_ring_buffer_reading: one chunk, or two when it goes round the end.  *)
Chunks(r) ==
    IF r.rda = 0 THEN <<>>
    ELSE IF r.rp + r.rda <= RingSize THEN <<[pos |-> r.rp, len |-> r.rda]>>
    ELSE <<[pos |-> r.rp, len |-> RingSize - r.rp], [pos |-> 0, len |-> r.rda - (RingSize - r.rp)]>>

(* hev_ring_buffer_read_finish of all that was readable: it stays in use. *)
ReadFinish(r) == [r EXCEPT !.rp = Place(@ + r.rda), !.rda = 0]

(* hev_ring_buffer_read_release *)
ReadRelease(r, n) ==
    IF r.use = n THEN [r EXCEPT !.use = 0, !.rp = 0, !.wp = 0]
    ELSE [r EXCEPT !.use = @ - n]

-----------------------------------------------------------------------------
(* lwIP's sending side *)

(* tcp_write of a chunk of the ring that holds content: all of it, or      *)
(* nothing, when the pbufs of its segments are too many for the queue or a *)
(* pool of lwIP is empty.  A shorter chunk may be taken after that.        *)
TcpWrite(q, content, chunk) ==
    {q, q \o [i \in 1 .. chunk.len |-> [pos |-> chunk.pos + i - 1, n |-> content[chunk.pos + i - 1]]]}

TcpWriteAll(q, content, chunks) ==
    CASE Len(chunks) = 0 -> {q}
      [] Len(chunks) = 1 -> TcpWrite(q, content, chunks[1])
      [] Len(chunks) = 2 -> UNION {TcpWrite(p, content, chunks[2]) : p \in TcpWrite(q, content, chunks[1])}

Wakes == at' = CASE at = "waiting" -> "f" [] at = "drainWaiting" -> "drain" [] OTHER -> at

-----------------------------------------------------------------------------
(* The task *)

(* tcp_splice_f, while it has not failed: writev of what is queued, which  *)
(* gives the window back to lwIP; or, when the client has closed and all   *)
(* is written, shutdown.                                                   *)
SpliceForward ==
    /\ at = "f" /\ at' = "b"
    /\ \/ resF < 0 /\ UNCHANGED <<pbufs, window, shut, resF>>
       \/ /\ resF >= 0
          /\ \E n \in 1 .. pbufs : pbufs' = pbufs - n /\ window' = IF hasPcb THEN window + n ELSE window
          /\ resF' = 1
          /\ UNCHANGED shut
       \/ /\ resF >= 0 /\ pbufs > 0
          /\ resF' \in {0, -1}    \* EAGAIN, or an error
          /\ UNCHANGED <<pbufs, window, shut>>
       \/ /\ resF >= 0 /\ pbufs = 0
          /\ resF' = IF eof THEN -1 ELSE 0
          /\ shut' = eof
          /\ UNCHANGED <<pbufs, window>>
    /\ UNCHANGED <<serverSide, fromClient, eof, hasPcb, ended, resB>>

(* What readv may find: res is 1 for n bytes, 0 for none now or no space,  *)
(* -1 for the end or an error.                                             *)
Reads ==
    [res : {1}, n : 1 .. IF Space(ring) < ServerBytes - got THEN Space(ring) ELSE ServerBytes - got]
      \cup [res : {0}, n : {0}]
      \cup (IF Space(ring) > 0 THEN [res : {-1}, n : {0}] ELSE {})

(* The bytes that readv puts into the space. *)
Filled(n) ==
    [i \in 0 .. RingSize - 1 |->
        LET k == Place(i - ring.wp + RingSize) IN IF k < n THEN got + k + 1 ELSE slot[i]]

(* The loop's choice after both halves. *)
LoopsTo(f, b) ==
    IF f > 0 \/ b > 0 THEN "yielded"
    ELSE IF f = 0 \/ b = 0 THEN IF ended THEN "drain" ELSE "waiting"
    ELSE "drain"

(* Mutant: a failed direction ends the client's stream like an end does. *)
HandOverFinOnError(r, content, res) ==
    LET chunks == Chunks(r)
    IN  \E queue \in TcpWriteAll(unacked, content, chunks) :
            LET refused == Len(queue) < Len(unacked) + r.rda
            IN  /\ unacked' = queue
                /\ ring' = ReadFinish(r)
                /\ fin' = (fin \/ refused \/ (chunks = <<>> /\ res < 0))
                /\ resB' \in CASE refused -> {-1} [] chunks = <<>> -> {res} [] OTHER -> {1, -1}

(* The second half of tcp_splice_b with a pcb: everything readable goes to *)
(* lwIP, or the end of the server's bytes does.  The second chunk is given *)
(* to lwIP also when it has refused the first, and the ring counts what it *)
(* has refused as handed over, too.  tcp_output fails when the tun takes   *)
(* no packet now: lwIP will send the bytes later, but resB is final.       *)
HandOver(r, content, res) ==
    LET chunks == Chunks(r)
    IN  \E queue \in TcpWriteAll(unacked, content, chunks) :
            LET refused == Len(queue) < Len(unacked) + r.rda
            IN  /\ unacked' = queue
                /\ ring' = ReadFinish(r)
                /\ fin' = (fin \/ (chunks = <<>> /\ res < 0))
                /\ resB' \in CASE refused -> {-1} [] chunks = <<>> -> {res} [] OTHER -> {1, -1}

(* tcp_splice_b, while it has not failed, and the loop's choice. *)
SpliceBackward ==
    /\ at = "b"
    /\ \/ resB < 0 /\ UNCHANGED <<serverSide, resB>>
       \/ \E read \in Reads :
            /\ resB >= 0
            /\ got' = got + read.n
            /\ slot' = Filled(read.n)
            /\ IF hasPcb
               THEN HandOver(WriteFinish(ring, read.n), slot', read.res)
               ELSE ring' = WriteFinish(ring, read.n) /\ resB' = -1 /\ UNCHANGED <<unacked, fin>>
            /\ UNCHANGED acked
    /\ at' = LoopsTo(resF, resB')
    /\ UNCHANGED <<clientSide, hasPcb, ended, resF>>

(* The scheduler comes back to a task that yielded. *)
SpliceResumes ==
    /\ at = "yielded" /\ at' = "f"
    /\ UNCHANGED <<serverSide, clientSide, hasPcb, ended, resF, resB>>

(* After the loop: wait for the client's acknowledgements. *)
Drains ==
    /\ at = "drain"
    /\ at' = IF ~hasPcb \/ ring.use = 0 \/ ended THEN "over" ELSE "drainWaiting"
    /\ UNCHANGED <<serverSide, clientSide, hasPcb, ended, resF, resB>>

(* hev_socks5_session_tcp_destruct: a pcb that is left is aborted. *)
Destructs ==
    /\ at = "over" /\ at' = "freed"
    /\ hasPcb' = FALSE /\ unacked' = <<>> /\ pbufs' = 0
    /\ UNCHANGED <<ring, slot, got, acked, fin, fromClient, window, eof, shut, ended, resF, resB>>

(* The socket has become readable or writable. *)
SpliceSocketReady ==
    /\ at \in {"waiting", "drainWaiting"} /\ Wakes
    /\ UNCHANGED <<serverSide, clientSide, hasPcb, ended, resF, resB>>

(* The wait has lasted the session's timeout. *)
SpliceTimesOut ==
    /\ \/ at = "waiting" /\ at' = "drain"
       \/ at = "drainWaiting" /\ at' = "over"
    /\ UNCHANGED <<serverSide, clientSide, hasPcb, ended, resF, resB>>

(* hev_socks5_session_terminate, by the limit or by the stop. *)
SpliceTerminated ==
    /\ at \in Yielded /\ Wakes
    /\ ~ended /\ ended' = TRUE
    /\ UNCHANGED <<serverSide, clientSide, hasPcb, resF, resB>>

-----------------------------------------------------------------------------
(* lwIP's callbacks *)

(* tcp_recv_handler with a pbuf ... *)
ClientSends ==
    /\ at \in Yielded /\ hasPcb /\ ~eof
    /\ fromClient < ClientBytes /\ window > 0
    /\ fromClient' = fromClient + 1 /\ pbufs' = pbufs + 1 /\ window' = window - 1
    /\ Wakes
    /\ UNCHANGED <<serverSide, eof, shut, hasPcb, ended, resF, resB>>

(* ... and without one. *)
ClientCloses ==
    /\ at \in Yielded /\ hasPcb /\ ~eof
    /\ eof' = TRUE
    /\ Wakes
    /\ UNCHANGED <<serverSide, fromClient, pbufs, window, shut, hasPcb, ended, resF, resB>>

(* Mutant: the task is not told that there is space. *)
ClientAcksSilently ==
    /\ at \in Yielded /\ hasPcb
    /\ \E n \in 1 .. Len(unacked) :
         /\ unacked' = SubSeq(unacked, n + 1, Len(unacked))
         /\ acked' = acked + n
         /\ ring' = ReadRelease(ring, n)
    /\ UNCHANGED <<slot, got, fin, clientSide, hasPcb, ended, resF, resB, at>>

(* tcp_sent_handler *)
ClientAcks ==
    /\ at \in Yielded /\ hasPcb
    /\ \E n \in 1 .. Len(unacked) :
         /\ unacked' = SubSeq(unacked, n + 1, Len(unacked))
         /\ acked' = acked + n
         /\ ring' = ReadRelease(ring, n)
    /\ Wakes
    /\ UNCHANGED <<slot, got, fin, clientSide, hasPcb, ended, resF, resB>>

(* tcp_err_handler: the pcb is gone and the session terminated. *)
ClientResets ==
    /\ at \in Yielded /\ hasPcb
    /\ hasPcb' = FALSE /\ ended' = TRUE /\ unacked' = <<>>
    /\ Wakes
    /\ UNCHANGED <<ring, slot, got, acked, fin, clientSide, resF, resB>>

-----------------------------------------------------------------------------

SpliceTask == SpliceForward \/ SpliceBackward \/ SpliceResumes \/ Drains \/ Destructs

SpliceNext ==
    \/ SpliceTask \/ SpliceSocketReady \/ SpliceTimesOut \/ SpliceTerminated
    \/ ClientSends \/ ClientCloses \/ ClientAcks \/ ClientResets

SpliceSpec == SpliceInit /\ [][SpliceNext]_spliceVars

-----------------------------------------------------------------------------
(* Properties *)

SpliceTypeOK ==
    /\ ring \in [rp : 0 .. RingSize - 1, wp : 0 .. RingSize - 1, rda : 0 .. RingSize, use : 0 .. RingSize]
    /\ slot \in [0 .. RingSize - 1 -> Nat]
    /\ got \in Nat /\ acked \in Nat /\ fromClient \in Nat /\ pbufs \in Nat /\ window \in Nat
    /\ unacked \in Seq([pos : 0 .. RingSize - 1, n : Nat])
    /\ fin \in BOOLEAN /\ eof \in BOOLEAN /\ shut \in BOOLEAN /\ hasPcb \in BOOLEAN /\ ended \in BOOLEAN
    /\ resF \in -1 .. 1 /\ resB \in -1 .. 1
    /\ at \in {"f", "b", "drain", "over", "freed"} \cup Yielded

(* The ring's counters: between two turns of the task nothing is readable, *)
(* and what is in use is what lwIP holds, unless it has refused something. *)
RingAccounts ==
    /\ ring.rda <= ring.use
    /\ hasPcb /\ resB >= 0 => ring.rda = 0 /\ ring.use = Len(unacked)
    /\ ring.wp = Place(ring.rp + ring.rda)

(* What lwIP has to send, or to send again after a loss, is still in the   *)
(* ring: no byte is overwritten before the client has acknowledged it.     *)
NothingOverwritten ==
    \A k \in DOMAIN unacked : slot[unacked[k].pos] = unacked[k].n

(* The client receives the server's bytes in their order, none twice, and  *)
(* none is missing before them as long as the ring has no more in use than *)
(* lwIP has been given and the client has not acknowledged.                *)
StreamInOrder ==
    /\ \A j, k \in DOMAIN unacked : j < k => unacked[j].n < unacked[k].n
    /\ \A k \in DOMAIN unacked : unacked[k].n >= acked + k
    /\ hasPcb /\ ring.use = Len(unacked) => \A k \in DOMAIN unacked : unacked[k].n = acked + k

(* An end that looks clean is complete: the client gets its FIN only       *)
(* behind every byte that was read from the server, never after a gap, and *)
(* the server is told of the client's end only after every byte of the     *)
(* client.                                                                 *)
CleanEndsAreComplete ==
    /\ fin /\ hasPcb => ring.use = Len(unacked) /\ acked + Len(unacked) = got
    /\ shut => eof /\ pbufs = 0

(* The client's window never shrinks for good: what lwIP does not offer is *)
(* in the queue of the session.                                            *)
WindowIsReturned == hasPcb => window + pbufs = RcvWindow

(* Nothing is lost count of: the ring's bytes, the client's window, and    *)
(* what lwIP still points to.                                              *)
SpliceInv == SpliceTypeOK /\ RingAccounts /\ NothingOverwritten /\ WindowIsReturned

(* Each end of the session receives the other's stream in order, and is    *)
(* told of its end only when it has all of it - whatever lwIP refuses, and *)
(* over any retries, resets and time-outs.                                 *)
StreamIsWhole == StreamInOrder /\ CleanEndsAreComplete

(* What tcp_write's comment asks of its caller: to wait after a refusal    *)
(* and to try the same bytes again, before any that follow them.  It is    *)
(* false: tcp_splice_b offers the second chunk of a wrapped ring after a   *)
(* refusal of the first, and the client's stream has a gap.                *)
RefusedIsNotSkipped == hasPcb => \A k \in DOMAIN unacked : unacked[k].n = acked + k

(* A splice does not wait while it could go on: whoever frees the ring     *)
(* wakes the task, which reads the server again.  (A splice that stopped   *)
(* at a full ring had its result 0 then.)                                  *)
FullRingIsRead ==
    at = "waiting" /\ resB = 0 /\ ring.use = RingSize ~> at # "waiting"

=============================================================================
