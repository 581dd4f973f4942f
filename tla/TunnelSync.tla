------------------------------ MODULE TunnelSync ------------------------------
(***************************************************************************)
(* The life of one activation of hev_socks5_tunnel_main and the handshake  *)
(* by which other threads ask it to stop: src/hev-socks5-tunnel.c and      *)
(* src/hev-main.c of the vendored hev-socks5-tunnel.                       *)
(*                                                                         *)
(* One worker thread runs main (init, run, fini).  Any thread may call     *)
(* hev_socks5_tunnel_quit.  They share the atomic word tsync and the       *)
(* socket pair event_fds: a quit either writes a byte to the pair or, when *)
(* the pair is not announced yet, leaves SYNC_STOP behind.  Every atomic   *)
(* read-modify-write of the code is one step here.                         *)
(*                                                                         *)
(* Inside run, the cooperative task system is reduced to what the stop     *)
(* protocol sees of it: the event task waiting for the byte, the io task   *)
(* that can keep the scheduler to itself, and the end of all tasks.        *)
(***************************************************************************)
EXTENDS Naturals

CONSTANTS
    Threads,      \* threads that call hev_socks5_tunnel_quit
    MayFailInit,  \* the configuration, a task or a socket may fail to be made
    MayFailTun    \* reads of the tun device may fail

ASSUME SwitchAssumption == MayFailInit \in BOOLEAN /\ MayFailTun \in BOOLEAN

VARIABLES
    tsync,        \* the set of SYNC_ bits that are set
    wpc,          \* where the worker is in hev_socks5_tunnel_main
    fds,          \* event_fds: "none" (-1) or "open"
    bytes,        \* bytes written to event_fds[1] and not read yet
    quit          \* where each thread is in hev_socks5_tunnel_stop

syncVars == <<tsync, wpc, fds, bytes, quit>>

SyncBits == {"SEND", "SENT", "WAIT", "STOP"}

WorkerPcs == {"out", "config", "init", "socket", "armed", "loop", "spin",
              "event", "drain", "fini", "close", "done"}

QuitPcs == {"idle", "enter", "send", "write", "latch", "leave"}

SyncTypeOK ==
    /\ tsync \subseteq SyncBits
    /\ wpc \in WorkerPcs
    /\ fds \in {"none", "open"}
    /\ bytes \in Nat
    /\ quit \in [Threads -> QuitPcs]

SyncInit ==
    /\ tsync = {}
    /\ wpc = "out"
    /\ fds = "none"
    /\ bytes = 0
    /\ quit = [t \in Threads |-> "idle"]

-----------------------------------------------------------------------------
(* The worker *)

WorkerGoes(from, to) == wpc = from /\ wpc' = to

(* hev_socks5_tunnel_main is entered. *)
MainEnters == WorkerGoes("out", "config") /\ UNCHANGED <<tsync, fds, bytes, quit>>

(* The configuration, the loggers and the task system come up. *)
MainConfigures == WorkerGoes("config", "init") /\ UNCHANGED <<tsync, fds, bytes, quit>>

(* One of them does not: main returns before hev_socks5_tunnel_init. *)
MainGivesUp ==
    /\ MayFailInit
    /\ WorkerGoes("config", "done")
    /\ UNCHANGED <<tsync, fds, bytes, quit>>

(* tunnel_init, gateway_init, then event_task_init's socketpair. *)
InitOpensEventFds ==
    /\ WorkerGoes("init", "socket")
    /\ fds' = "open"
    /\ bytes' = 0
    /\ UNCHANGED <<tsync, quit>>

(* hev_socks5_tunnel_init fails before or after the socket pair: fini. *)
InitFails ==
    /\ MayFailInit
    /\ WorkerGoes("init", "fini") \/ WorkerGoes("socket", "fini")
    /\ UNCHANGED <<tsync, fds, bytes, quit>>

(* hev_socks5_tunnel_init succeeds and announces the socket pair. *)
InitAnnounces ==
    /\ WorkerGoes("socket", "armed")
    /\ tsync' = tsync \cup {"SEND"}
    /\ UNCHANGED <<fds, bytes, quit>>

(* Mutant: the request is read and not taken. *)
RunKeepsStop ==
    /\ wpc = "armed"
    /\ wpc' = IF "STOP" \in tsync THEN "fini" ELSE "loop"
    /\ UNCHANGED <<tsync, fds, bytes, quit>>

(* hev_socks5_tunnel_run takes SYNC_STOP; a set bit ends the run at once. *)
RunChecksStop ==
    /\ wpc = "armed"
    /\ wpc' = IF "STOP" \in tsync THEN "fini" ELSE "loop"
    /\ tsync' = tsync \ {"STOP"}
    /\ UNCHANGED <<fds, bytes, quit>>

(* lwip_io_task_entry: a read of the tun fails for another reason than     *)
(* EAGAIN, and the loop reads again without yielding to the other tasks.   *)
TunReadFails ==
    /\ MayFailTun
    /\ WorkerGoes("loop", "spin")
    /\ UNCHANGED <<tsync, fds, bytes, quit>>

(* A later read succeeds or finds nothing, and the task yields again. *)
TunReadRecovers == WorkerGoes("spin", "loop") /\ UNCHANGED <<tsync, fds, bytes, quit>>

(* event_task_entry reads the byte; run becomes 0. *)
EventTaskReads ==
    /\ WorkerGoes("loop", "event")
    /\ bytes > 0
    /\ bytes' = bytes - 1
    /\ UNCHANGED <<tsync, fds, quit>>

(* ... clears SYNC_SENT, terminates the sessions ... *)
EventTaskClears ==
    /\ WorkerGoes("event", "drain")
    /\ tsync' = tsync \ {"SENT"}
    /\ UNCHANGED <<fds, bytes, quit>>

(* ... joins the io and timer tasks: hev_task_system_run returns. *)
TasksEnd == WorkerGoes("drain", "fini") /\ UNCHANGED <<tsync, fds, bytes, quit>>

(* Mutant: fini does not wait for a quit that is inside. *)
FiniDoesNotWait ==
    /\ WorkerGoes("fini", "close")
    /\ tsync' = tsync \ {"SEND", "SENT"}
    /\ UNCHANGED <<fds, bytes, quit>>

(* Mutant: SYNC_SENT survives the socket pair it was set for. *)
FiniKeepsSent ==
    /\ wpc = "fini"
    /\ tsync' = tsync \ {"SEND"}
    /\ \/ "WAIT" \notin tsync /\ wpc' = "close"
       \/ "WAIT" \in tsync /\ tsync' # tsync /\ UNCHANGED wpc
    /\ UNCHANGED <<fds, bytes, quit>>

(* hev_socks5_tunnel_fini withdraws the socket pair and goes on only when  *)
(* no quit was between its two WAIT steps; otherwise it sleeps and retries *)
(* (the guard of the second disjunct keeps a retry that changes nothing    *)
(* from being a step).                                                     *)
FiniWithdraws ==
    /\ wpc = "fini"
    /\ tsync' = tsync \ {"SEND", "SENT"}
    /\ \/ "WAIT" \notin tsync /\ wpc' = "close"
       \/ "WAIT" \in tsync /\ tsync' # tsync /\ UNCHANGED wpc
    /\ UNCHANGED <<fds, bytes, quit>>

(* event_task_fini closes the pair; what was in it is gone. *)
FiniCloses ==
    /\ WorkerGoes("close", "done")
    /\ fds' = "none"
    /\ bytes' = 0
    /\ UNCHANGED <<tsync, quit>>

(* hev_socks5_tunnel_main returns. *)
MainReturns == WorkerGoes("done", "out") /\ UNCHANGED <<tsync, fds, bytes, quit>>

(* The steps of the worker inside main, and those of the tun device. *)
WorkerSteps ==
    \/ MainConfigures \/ MainGivesUp
    \/ InitOpensEventFds \/ InitFails \/ InitAnnounces
    \/ RunChecksStop
    \/ EventTaskReads \/ EventTaskClears \/ TasksEnd
    \/ FiniWithdraws \/ FiniCloses

TunDevice == TunReadFails \/ TunReadRecovers

-----------------------------------------------------------------------------
(* hev_socks5_tunnel_quit, called by thread t *)

QuitGoes(t, from, to) == quit[t] = from /\ quit' = [quit EXCEPT ![t] = to]

QuitCalled(t) == QuitGoes(t, "idle", "enter") /\ UNCHANGED <<tsync, wpc, fds, bytes>>

(* fetch_or of SYNC_WAIT: the thread that finds it clear goes on, and what *)
(* it found of SYNC_SEND decides how it will deliver the request.          *)
QuitEnters(t) ==
    /\ "WAIT" \notin tsync
    /\ IF "SEND" \in tsync
       THEN QuitGoes(t, "enter", "send")
       ELSE QuitGoes(t, "enter", "latch")
    /\ tsync' = tsync \cup {"WAIT"}
    /\ UNCHANGED <<wpc, fds, bytes>>

(* fetch_or of SYNC_SENT: a byte is on its way already, or is to be sent. *)
QuitSends(t) ==
    /\ IF "SENT" \in tsync
       THEN QuitGoes(t, "send", "leave")
       ELSE QuitGoes(t, "send", "write")
    /\ tsync' = tsync \cup {"SENT"}
    /\ UNCHANGED <<wpc, fds, bytes>>

(* write (event_fds[1]): lost when the descriptor is gone. *)
QuitWrites(t) ==
    /\ QuitGoes(t, "write", "leave")
    /\ bytes' = IF fds = "open" THEN bytes + 1 ELSE bytes
    /\ UNCHANGED <<tsync, wpc, fds>>

QuitLatches(t) ==
    /\ QuitGoes(t, "latch", "leave")
    /\ tsync' = tsync \cup {"STOP"}
    /\ UNCHANGED <<wpc, fds, bytes>>

(* Mutant: SYNC_WAIT is not given back. *)
QuitKeepsWait(t) ==
    /\ QuitGoes(t, "leave", "idle")
    /\ UNCHANGED <<tsync, wpc, fds, bytes>>

QuitLeaves(t) ==
    /\ QuitGoes(t, "leave", "idle")
    /\ tsync' = tsync \ {"WAIT"}
    /\ UNCHANGED <<wpc, fds, bytes>>

QuitSteps(t) == QuitEnters(t) \/ QuitSends(t) \/ QuitWrites(t) \/ QuitLatches(t) \/ QuitLeaves(t)

-----------------------------------------------------------------------------
(* The public interface on its own: main may be called again whenever it   *)
(* has returned, and every thread may call quit at any time.               *)

SyncNext ==
    \/ MainEnters \/ WorkerSteps \/ TunDevice \/ MainReturns
    \/ \E t \in Threads : QuitCalled(t) \/ QuitSteps(t)

SyncSpec == SyncInit /\ [][SyncNext]_syncVars

-----------------------------------------------------------------------------
(* Properties *)

(* A quit never writes to a descriptor number that fini has closed, which  *)
(* another part of the process may own by then: hev_socks5_tunnel_fini     *)
(* withdraws SYNC_SEND and waits for SYNC_WAIT before it closes.           *)
NoWriteToClosedFd == \A t \in Threads : quit[t] = "write" => fds = "open"

(* The blocking write of a quit always finds room: however many quits and  *)
(* restarts overlap, at most two bytes are ever unread in the socket pair  *)
(* (the second one from a quit that holds SYNC_WAIT while fini clears      *)
(* SYNC_SENT under it).                                                    *)
EventSocketBounded == bytes <= 2

(* A quit's write is safe at any time: its descriptor is open, and the     *)
(* write does not block.                                                   *)
WritesAreSafe == NoWriteToClosedFd /\ EventSocketBounded

(* What makes the two hold, conjunct by conjunct: SYNC_WAIT is a lock over *)
(* the inside of stop; it is announced only while the pair is open; a      *)
(* thread that found SYNC_SEND keeps the worker from closing.              *)
Inside(t) == quit[t] \notin {"idle", "enter"}

WaitIsALock ==
    /\ \A t \in Threads : Inside(t) => "WAIT" \in tsync
    /\ \A s, t \in Threads : Inside(s) /\ Inside(t) => s = t

Announced == {"armed", "loop", "spin", "event", "drain", "fini"}

OpenWhileAnnounced ==
    /\ "SEND" \in tsync => wpc \in Announced
    /\ wpc \in (Announced \ {"fini"}) \cup {"socket"} => fds = "open"
    /\ wpc = "fini" /\ "SEND" \in tsync => fds = "open"
    /\ wpc \in {"out", "config", "init", "done"} => fds = "none"

SenderHoldsFini ==
    \A t \in Threads : quit[t] \in {"send", "write"} => wpc \in Announced /\ fds = "open"

(* Until fini clears it under a quit, SYNC_SENT accounts for the one byte  *)
(* that is being written or is unread.                                     *)
Writing == \E t \in Threads : quit[t] = "write"

SentCountsBytes ==
    /\ wpc \in {"init", "config", "out", "done"} => bytes = 0
    /\ "SEND" \in tsync \/ wpc = "socket" =>
         /\ bytes <= 1
         /\ bytes = 1 => "SENT" \in tsync /\ ~Writing
         /\ Writing => "SENT" \in tsync
    /\ wpc \in {"armed", "loop", "spin", "event", "drain"} => "SEND" \in tsync
    /\ wpc = "event" => bytes = 0 /\ "SENT" \in tsync /\ ~Writing
    /\ wpc = "fini" /\ "SEND" \notin tsync =>
         /\ bytes <= 2
         /\ Writing => bytes <= 1
         /\ (\E t \in Threads : quit[t] = "send") => bytes <= 1
    /\ wpc = "close" => bytes <= 2

SyncInv ==
    /\ SyncTypeOK
    /\ WaitIsALock
    /\ OpenWhileAnnounced
    /\ SenderHoldsFini
    /\ SentCountsBytes

=============================================================================
