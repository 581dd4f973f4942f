# AI Unblock: verification project

AI Unblock is an Android app that sends chosen apps through a local VPN. A
vendored tunnel engine (hev-socks5-tunnel, C) turns the packets of the tun into
SOCKS5 connections, a relay on the loopback interface (Kotlin) looks at the name
in each TLS ClientHello and connects to a gateway or to the original address,
and a selector picks a working gateway for every group of domains.

This directory holds TLA+ models of the parts in which threads, tasks, callbacks
and failures meet and of the parts that decide where a connection goes, the TLC
configurations that check them, and TLAPS proofs. All paths below are relative to
the repository; `K/` stands for `app/src/main/java/ru/ecubz/aiunblock/`, `N/` for
`app/src/main/jni/hev-socks5-tunnel/src/`, `S/` for
`app/src/main/jni/hev-socks5-tunnel/third-part/hev-task-system/src/`.
`PROJECT.json` maps every definition to the lines it translates.

## 1. Inventory

| Component | State | Operations | Interacts with |
|---|---|---|---|
| VPN service (`K/AiUnblockVpnService.kt`) | `tunInterface`, `socksRelay`, `gatewaySelector`, foreground | `onStartCommand` (CONNECT, DISCONNECT, null intent), `onRevoke`, `onDestroy`, `startTunnel`, `stopTunnel`, `cleanupTunnel`, `onSelectionUpdated` | Android's main and binder threads call it; it makes the selector, the relay and the tun, and calls the engine through JNI |
| State store (`K/TunnelState.kt`) | a `StateFlow` with phase and text | `update` | written by the main thread, a binder thread and the selector's thread; shown by the activity |
| Activity (`K/MainActivity.kt`) | permission dialogs in progress, Compose state | `onToggle`, dialog results, `startVpnService`, `stopVpnService`, the app list | sends intents to the service |
| JNI layer (`N/hev-jni.c`) | mutex, `work_thread`, `is_running`, `thread_joinable` | `TProxyStartService`, `TProxyStopService`, `TProxyIsRunning`, `TProxyGetStats`, `thread_handler` | called by the service, runs the engine in a worker thread |
| Tunnel engine (`N/hev-main.c`, `N/hev-socks5-tunnel.c`) | the atomic word `tsync`, `run`, `event_fds`, tasks, session set, lwIP, counters | `hev_socks5_tunnel_main`, `_init`, `_run`, `_fini`, `_stop`, event, io and timer tasks, accept and receive handlers | `hev_socks5_tunnel_quit` comes from another thread over `tsync` and a socket pair |
| Native sessions (`N/hev-socks5-session*.c`, `N/misc/hev-ring-buffer.c`) | a task, a timeout, a pcb, a ring buffer or a pool of datagrams per session; their set | accept, connect, handshake, splice in both directions, terminate, destruct | lwIP calls back from the io and timer tasks; the event task and the limit terminate; the sockets lead to the relay |
| SOCKS5 core (`N/core`) | the socket and the timeout of a session | the client's handshake in two orders, datagrams of an association | the relay is the server |
| Task system (`S/kern`, `S/lib/io`) | ready tasks with their keys, timers, joins, mutexes | yield, sleep, wake up, join, lock, unlock | everything in the engine is one of its tasks |
| Mapped DNS (`N/hev-mapped-dns.c`) | a table of names and addresses, and the order of their use | query, lookup | not configured by this app |
| Configuration, tunnel devices, utilities | | | |
| Relay (`K/LocalSocksRelay.kt`) | server socket, executor, set of sessions, credentials | `start`, `acceptLoop`, `handleClient`, `handleConnect`, `relayBothWays`, `handleUdpAssociate`, `close` | the engine connects to it; it asks the selector for a gateway and connects to the outside |
| Routing (`K/RoutingRules.kt`, `K/GeoHideRoutingRules.kt`) | constant sets, two assets | `gatewayFor`, `targetFor`, `fixedAddressFor` | pure, used by the relay |
| TLS parser (`K/TlsClientHello.kt`), DNS override (`K/DnsOverride.kt`) | none | `parse`; `response` | pure, used by the relay |
| Gateway selector (`K/GatewaySelector.kt`) | `selected`, preferences, scheduler, probe pool, `closed` | constructor, `start`, `refresh` every 30 minutes, `persist`, `addressFor`, `summary`, `close` | calls `onSelectionUpdated` from its thread |
| App selection (`K/AppSelection.kt`), theme | a preference | load, save, list | read once per start of the VPN |
| Third party (lwIP, YAML, wintun), build, CI | | | |

What is hard about it, component by component, and what makes it correct:

* **Engine handshake.** A stop may come before, during or after the
  initialisation, while the worker closes the descriptors the stop writes to,
  and while a later start is under way. Correct means: no write to a closed
  descriptor, no blocking write on a full socket, no run ended by somebody
  else's stop, and a stop that comes to an end.
* **JNI layer.** The worker may end by itself at any time, and nobody is told; a
  start must then collect it. Correct means: one worker, never joined twice or
  overwritten, and `false` from `TProxyIsRunning` means that nothing uses the tun.
* **Service.** Main thread, binder thread and selector thread share unsynchronised
  fields; every step of `startTunnel` may fail; the process may die; Android
  creates and destroys the service object on its own schedule. Correct means:
  what the interface shows is what runs, what is announced as down has been
  released, and the engine never outlives its tun.
* **Selector.** A refresh waits for many probes, each of which may fail; `close`
  interrupts it anywhere; preferences are written asynchronously. Correct means:
  working gateways are kept, replacements passed their probes and are the first
  that did, and the next start uses what was in use.
* **Relay.** A connection is two threads and two sockets, any of which may go at
  any time; `close` comes meanwhile. Correct means: no socket escapes `close`,
  both directions end together, nothing of an ended connection is kept.
* **Sessions.** A session may be reset, timed out, moved, chosen by the limit or
  terminated by the stop while it is anywhere in its life. Correct means: the
  set is that of the living sessions, their timers run, and whoever is to end ends.
* **Splices.** lwIP sends from the ring buffer without copying and may refuse any
  write; datagrams are sent in batches that may fail half-way. Correct means:
  each side gets the other's stream in order, a clean end only behind all of it,
  and no splice waits while it could go on.
* **Task system.** Keys are relative, timers wake one sleeper per poll, a task
  that is joined may have exited. Correct means: no wakeup is lost and no
  task starves.
* **SOCKS handshake.** Two programs cut the same byte streams, in two orders of
  writing. Correct means: the relay serves the request the engine made.
* **UDP association.** The client is whoever comes first, and one socket serves
  both sides. Correct means: what leaves stands one for one for what came.
* **Reading and routing.** The result must not depend on how a ClientHello is
  split, and three rule books asked at different moments must agree on every host.

The hazards are listed with their lines in `PROJECT.json` under `hazards`.

## 2. Modules

| Module | What it is |
|---|---|
| `TunnelSync` | one process's `hev_socks5_tunnel_main`, entered again and again by one worker, against any number of threads in `hev_socks5_tunnel_quit` |
| `NativeEngine` | extends `TunnelSync` by the JNI layer and its callers |
| `EngineSpec` | the abstract engine: at most one, every call effective at one instant; `NativeEngine` implements it by the mapping `Phase`, `CallOf` |
| `TunnelSessions` | what runs inside `hev_socks5_tunnel_run`: the event, io and timer tasks and the set of sessions, each from accept to destruct |
| `TaskSystem` | the scheduler of those tasks, their timers, joins and mutex |
| `TcpSplice`, `UdpSplice` | one session's splice: the ring buffer and lwIP; the pool of datagrams and the control connection |
| `SocksHandshake` | one connection's handshake, with the engine's client and the relay's server side |
| `SocksRelay` | the relay's threads, sockets and set of sessions |
| `UdpAssociation` | the datagrams of one association of the relay |
| `ClientHello` | the parser, and the loop that reads for it |
| `Routing` | DNS override, the relay's own rules and the GeoHide lists, composed as a name travels through them |
| `GatewaySelector` | selectors one after the other, their refreshes, the preferences |
| `MappedDns` | the library's table of made-up addresses |
| `TunnelService` | the service, the state store, the activity's switch and Android's side; it uses the engine as `EngineSpec` describes it |
| `*Proofs` | theorems and proofs about the module they are named after; `NativeEngineProofs` covers `TunnelSync` too, `SpliceProofs` the two splices, `ConnectionProofs` the handshake and `UdpAssociation`, `GatewaysProofs` selector, parser, routing and mapped DNS |
| `MC*` | the instances for TLC, with one `.cfg` per run |

How they fit together. `TunnelService` relies on `EngineSpec`, which
`NativeEngine` implements. `NativeEngine` sees of a run what its stop protocol
sees; `TunnelSessions` is the inside of the run, from the byte that the quit has written
to the end of every task, and there a session is a place in its life. `TcpSplice`,
`UdpSplice` and `SocksHandshake` are three of those places, looked at in detail, and
`TaskSystem` is why a task that can go on does. At the other end of the sockets
`SocksRelay` has the threads, `SocksHandshake`, `ClientHello` and
`UdpAssociation` what they read, and `Routing` and `GatewaySelector` where they connect to.

How state and actions correspond to the code:

* `TunnelSync`, `NativeEngine`: `tsync` is the set of bits that are set; each
  `atomic_fetch_*` is one step of the thread that makes it, and everything
  between two of them that no other thread sees belongs to one of the neighbours.
  `wpc` is the worker's place in `main`, `quit[t]` the place of a thread in
  `hev_socks5_tunnel_stop`. Of `lwip_io_task_entry` only its failing read is seen: it
  loops without yielding (`TunReadFails`, place `"spin"`). `jni[t]` is the line of a
  JNI call at which a thread is; `mutex` covers it from lock to unlock. `asked`
  and `botched` are history: a quit was called since the worker was made; an
  initialisation has failed since the process began.
* `TunnelSessions`: the tasks are cooperative, so `turn` names the one that runs, and
  a step lasts from one yield to the next where nothing in between matters.
  `place[s]` is where the session is in `hev_socks5_session_run`; `timeout[s] = 0`
  is `hev_socks5_session_terminate`. `hev_socks5_task_io_yielder` is `Waits` and `TimesOut`.
* `TaskSystem`: `key` holds differences to the smallest `sched_key`, which is all
  that the scheduler compares; `doing[t]` is the call in which a task is.
* `TcpSplice`: `ring` has the four counters of `HevRingBuffer`, `slot` what is in
  the bytes, `unacked` what lwIP points to. `tcp_write` takes or refuses each chunk
  by itself (its check of the queue inside the segmentation loop,
  `third-part/lwip/src/core/tcp_out.c:662`, depends on the chunk, and its pools may be empty);
  `tcp_output` may fail as well.
* `UdpSplice`: `frames` is `frame_list`; `taken` and `done` are a `sendmmsg`
  loop under way, during which the client goes on sending.
* `SocksHandshake`: a field of the protocol is one element of a stream; `todo` is
  the rest of the engine's order of calls, standard or pipelined.
* `SocksRelay`: every blocking call is a place of a thread; `fd` says which
  sockets are open, and which are open but lost to the code; `gone` which other ends have closed. `close` holds the set's
  lock while `closer = "closing"`, and nobody else enters or removes then.
* `UdpAssociation`: one iteration of the loop is receive (`FromClient`, `Skips`) and send (`Sends`).
  Whether a datagram is malformed, for a name, a query or other is its kind.
* `ClientHello`: bytes are numbers, with headers shortened from five and four bytes
  to two each; everything the parser compares is there.
* `Routing`: a name is a sequence of labels and dots, so that
  `endsWith (".$it")` is what it is in the code.
* `GatewaySelector`: a key `<<g, a>>` stands for all probes of gateway `a` for
  the domains of group `g`. `answers[s]` is chosen when a refresh begins: the
  keys whose probes do pass. `passed[s]` is what the code takes for passed: an
  interrupt makes the next pending future count as failed.
* `TunnelService`: a handler takes one step per statement that touches what
  another thread may use (`thread["main"]`, `thread["binder"]`, `callback[k]`).
  What one `startTunnel` creates carries the number of that session, so
  `open["tun"]` is the set of sessions whose descriptor is not closed and
  `field[i]["tun"]` is what the service object `i` has in `tunInterface`. `ams`
  is what the activity manager knows; `queue` is the main thread's message queue.

## 3. Runs

| Run | Instance | Shows |
|---|---|---|
| `native` | 3 threads, failing initialisation and tun, fairness | `OneWorker`, `StoppedMeansGone`, `RunEndsOnlyIfAsked`, `ImplementsEngineSpec`, `ArmedStopReturns`, `FiniEnds` |
| `native_stale_stop` | 1 thread, failing initialisation | **violated**: `EveryRunEndsOnlyIfAsked` |
| `native_lost_stop` | 1 thread, no failure, fairness | **violated**: `StopReturns` |
| `sessions` | a TCP and a UDP session, limit 2, fairness | `SessionsInv`, `EndingEnds`, `StopEndsTasks` |
| `connection`, part `sync` | 3 quits, failing initialisation and tun; deadlock | `WritesAreSafe` |
| part `tasks` | 3 tasks of two priorities | `SchedulerInv`, `NobodyStarves` |
| part `tcp` | a ring of 3 bytes, 4 bytes down, 2 up, any chunk refused | `SpliceInv`, `StreamIsWhole`, `FullRingIsRead` |
| part `udp` | a pool of 2, batches of 2, 5 datagrams | `UdpInv`, `SessionEnds` |
| part `handshake` | both orders, right, wrong and no credentials, every request, 2 destinations | `SplicedAsAsked`, `HandshakeSettles` |
| part `association` | 1 server, 3 datagrams of any kind | `UdpaInv`, `ControlEndsAssociation` |
| part `hello` | three ClientHellos, one with another message behind it, cut into up to three records, empty ones included, with four kinds of bytes behind them; eight that are none | `HelloInv`, `HelloIsRead` |
| `relay` | one connection of any kind and one UDP association, fairness | `RelayInv`, `RelayedIsReleased`, `OneEndsBothEnd`, `CloseEndsThreads` |
| `selector`, part `selector` | 2 selectors with one refresh each, 2 groups, 3 addresses, 1 process death | `SelectorInv`, `SavedIsUsed`, `RefreshIsRight`, `OnlyPassingChosen` |
| part `routing` | 8 hosts of up to three labels; at most one rule of the relay's own, two names and one address of GeoHide's | `RoutesAreRight` |
| part `dns` | 3 names, 2 records, queries with up to 3 questions | `MappedDnsInv` |
| `selector_close` | 1 selector | **violated**: `WorkingIsKept` |
| `service` | 3 calls, 3 service objects, 1 process death; dialogs, starts by the system, `onRevoke`, though not during a start, refreshes that report in time, a dying engine, failures | `DownMeansReleased`, `OnIsBacked`, `EngineOnOpenTun`, `OneSession`, `NothingLost` |
| `service_live` | 4 calls, 3 service objects, 1 process death; refreshes in time and late, a dying engine, failures; fairness | `StartingResolves`, `DownMeansReleased` |
| `service_stale_on` | 2 calls, refreshes in time and late | **violated**: `OnIsBacked` |
| `splice_gap` | a ring of 3 bytes, 5 bytes down, any chunk refused | **violated**: `RefusedIsNotSkipped` |

`connection` and `selector` check several modules in one run: `part`, chosen by the first
state, names the module that moves, and the variables of the others keep one
value. A part sees exactly the behaviours it would have alone; the parts share no
variable, and no claim about their composition is made by this.

A property whose name ends in `Inv` is the conjunction of named parts in its module,
one comment each (`SpliceInv` is the ring's counters, the bytes lwIP still points to,
and the window); a type invariant is one of them. That of `TunnelService` is only proved. Each property has a mutant in
`PROJECT.json`: a plausible slip in the code that breaks it. The mutants stand in
the modules, before the definition they replace.

**Bounds.** Three threads are enough for two of them to be in a quit while the
third starts or stops. Three calls, three service objects and one death of the process
allow on, off, on again with an old `onDestroy` still waiting, a restart of a
sticky service, and `onRevoke` against each of them; four calls a late callback of the
first session in the second. Two
selectors are what one stop and start make; one refresh each reaches every wait
of `refresh`. Connections of the relay meet only in the accept thread, the set
and its lock; two are enough for one to be accepted while the other ends. Two
sessions reach the limit, so that one is terminated by the other's accept. A
ring of three bytes wraps within four, so that a write has two chunks of which
lwIP may take both, either one or none. Five datagrams are more than a pool of two
and a batch of two hold. Three tasks are one that holds the mutex and two that wait,
or two whose timers expire together. Three datagrams are a request, its answer and what comes
between. Two records in the mapped DNS for three names make every new name take an address. For
the invariants the proofs of section 5 cover every value of
these constants: any number of calls, crashes and service objects, rings, pools, windows
and batches of any size, any tasks, threads and sessions.

`MaxCalls`, `MaxInstances`, `MaxCrashes` (service), `MaxRefreshes`, `MaxCrashes` (selector),
`ServerBytes`, `ClientBytes` (TCP), `ClientDatagrams`, `SocketRoom` (UDP), `MaxDatagrams`
(association) and `MaxRuntime` (tasks) are bounds of the models, not of the code, and appear in the
guards of what they count; `RingSize`, `RcvWindow`, `PoolSize`,
`Batch`, `MaxSessions`, `Capacity` and `MaxRecords` are the code's own limits, made small.

Symmetry is used in `selector` (selectors): the properties of that run are invariants and
action properties, and the module treats selectors alike.

**Deadlock** is checked in `connection`, where the part `sync` may never stop and the others
may (`MayEnd`). The other runs switch it off because the system really may come
to rest: callers stop calling, bounds are used up, a closed relay has no threads, a stopped
engine no tasks, and a lost stop leaves its caller in `pthread_join` for ever.

**Fairness.**

* `NativeEngine`: weak fairness of each thread inside a call; strong fairness of
  the worker, because the event task is one of several cooperative tasks and gets
  its turn when the others yield, which they do not while a read of the tun keeps
  failing. Callers owe no call.
* `TaskSystem`: the running task gives the processor back, and the scheduler runs.
  That a ready task then runs is a property (`NobodyStarves`), and the reason for the next.
* `TunnelSessions`: strong fairness of each task's turn, because `turn` comes and
  goes; and of `Waits`: again and again a splice has nothing to move. The io task runs out of packets.
  Neither sockets nor timeouts nor the tun are owed.
* `TcpSplice`: the task goes on, and a client that has bytes acknowledges them; lwIP
  resets it otherwise. `UdpSplice`: the task goes on, and its waits time out.
* `SocksHandshake`, `UdpAssociation`, `ClientHello`: the engine's task and the
  relay's thread go on; a read times out. The network owes nothing.
* `TunnelService`: the main thread takes its messages and finishes its handlers, a
  callback that has begun ends, the activity manager carries out what it has
  decided; users, crashes, refreshes and dialogs owe nothing.
* `SocksRelay`: threads run, a blocking read sees a closed socket or the other
  end's close, a connect is answered or times out, a write is taken or fails; the
  other ends owe nothing. `pthread_join` and `synchronized` are guards.

## 4. What the runs show

Five disagreements of the code with what is written about it have runs of their
own (`findings` in `PROJECT.json`):

* **A stop can be lost** (`native_lost_stop`). `hev_socks5_tunnel_stop` reads
  `tsync`, then `_init` announces `SYNC_SEND` and `_run` looks for `SYNC_STOP`, then the
  stop sets it. The engine runs on, and `TProxyStopService` waits in `pthread_join`
  with the mutex held, on the app's main thread.
* **A stop can hit the next engine** (`native_stale_stop`). A stop that reaches an
  engine whose initialisation fails leaves `SYNC_STOP` set, and the next run ends
  at once. The interface shows On with nothing running. The run `native` shows that
  this is the only way: as long as no initialisation has failed, a run ends only when asked.
* **On after Off** (`service_stale_on`). `onSelectionUpdated` looks at
  `tunInterface` and updates the state without a lock; a stop in between
  announces Off first.
* **A working gateway is replaced** (`selector_close`). `close` interrupts the wait
  for a probe, the refresh goes on, takes the gateway for failed, and saves a
  replacement that the next start loads.
* **A gap in a download** (`splice_gap`). `tcp_splice_b` gives lwIP the second chunk of a
  wrapped ring also when `tcp_write` has refused the first, where that function's comment asks its
  caller to wait and to try again. The client receives the second chunk in the place of the
  first. The damage is bounded: the direction has failed then, no FIN follows
  (`StreamIsWhole`), and the connection ends with a reset.

The models have more of these than there are runs. Each of the following is seen
by giving a configuration the constants named:

* An engine that ends by itself leaves the state On (`Events = {"engineEnds"}`,
  `OnIsBacked`): nothing watches the worker.
* A permission dialog answered after the system has started the VPN leaves
  Starting for ever (`Events = {"dialog", "external"}`, `StartingResolves`): the
  guard of `startTunnel` returns without a word.
* `onRevoke` during `startTunnel` makes the engine run on a descriptor that is
  closed (`Events = {"revoke", "overlap"}`, `EngineOnOpenTun`).
* A closed selector whose refresh ends after the next selector has loaded the
  preferences overwrites them (`Overlap = TRUE`, `SavedIsUsed`).
* A read of the tun that keeps failing starves the event task (place `"spin"`, the
  exception in `ArmedStopReturns`): `lwip_io_task_entry` does not yield then.

These are steps of the models that no property contradicts:

* A failed start announces Error, and the `onDestroy` that its `stopSelf` causes
  replaces it by Off. Off, off, on in quick succession ends Off: the second
  `stopSelf` ends a service that has a CONNECT waiting.
* The relay: a client accepted while `close` runs stays open when the executor
  rejects it; an upstream that is entered and then fails its first write lingers
  until `close`; a socket whose `bindSocket` fails (`K/LocalSocksRelay.kt:414`, `:268`) stays open and
  nothing refers to it any more (`Unbound`, the value `"lost"` of `fd`); the client of a UDP
  association whose socket cannot be protected, or
  of a command that is none, is forgotten without being closed (`Refused`, `Refuses`); a
  failing `accept` ends the accept thread for good while the state is On (`AcceptorFails`). The
  end of one direction closes both sockets, so a half-closed connection loses the other.
* Sessions: the limit terminates one session per accept and does not wait for its end, so the
  set may exceed `max-session-count`, called the maximum in the engine's `conf/main.yml`.
* Task system: the mutex serves the last waiter first, so a waiter below it may
  wait for ever, and `NobodyStarves` promises nothing about locks. The engine never meets
  this: no task yields while it holds the mutex, so nobody waits for it; the model has
  contention because the library allows it. One failed reply of a
  UDP session ends its direction to the client for good.
* Routing: a subdomain of a Google AI name has no gateway of the relay's own
  (`K/RoutingRules.kt:61` compares whole names) but has GeoHide's if the assets list the parent, because
  those lists include subdomains.
* Mapped DNS: a query that asks for more names than there are records is answered
  with addresses that it took away itself.

Seen while reading and outside the models: `hev_task_cond_timedwait` drops the other
waiters when the one at the head times out (`S/kern/sync/hev-task-cond.c:79`),
an accept whose `hev_task_new` fails takes lwIP's mutex twice, and the name pointer of a mapped
answer is one byte wide. The app uses no condition variable and no mapped DNS.

## 5. What is proved

For every value of the constants, subject only to the named assumptions in the
modules (`NoThreadAssumption`, `SelectorAssumption` and so on):

* `NativeEngineProofs`, first part: `SyncInv` is inductive, for any set of threads and any
  number of restarts. Its core is `WaitIsALock` (`SYNC_WAIT` excludes two threads
  from the inside of stop) and `SenderHoldsFini` (whoever found `SYNC_SEND` keeps
  the worker from closing), from which `NoWriteToClosedFd`; and
  `SentCountsBytes` (`SYNC_SENT` accounts for the byte until fini clears it),
  from which `EventSocketBounded`. Both are `WritesAreSafe`.
* `NativeEngineProofs`, second part: `EngineInv` adds `MutexCoversCalls` and
  `FlagsFollowWorker`. A step of `NativeEngine` is a step of `SyncSpec` or leaves
  it alone, so `SyncInv` carries over. `OneWorker`, `NotRunningMeansOut` and
  `StoppedMeansGone` follow, and so does the refinement: `Refinement` shows that
  every step is one of `EngineSpec` or a stutter. `RunEndsOnlyIfAsked` rests on
  `RequestInv`: until an initialisation has failed, the quit on its way, the latched
  bit and the unread byte exclude each other and end with the run they are meant for.
* `TunnelSessionsProofs`: `Living` is inductive for any sessions and any limit. To
  `SessionsInv` it adds that a session that has the processor is alive and that the io
  task has it only while the engine runs: an accept after the stop would make a
  session that nobody terminates. The set is a list in the code; `Without`,
  `TakenOut` and `Appended` say what a removal and an append do to its members.
* `TaskSystemProofs`: `Parts` is inductive for any tasks and priorities. It says of the
  two lists in which a task waits, the timers and the mutex's, that they hold exactly the
  tasks that wait there, once each; of a task that is joined, that its joiner waits
  unless it has stopped; and of the ready tasks that one of them has the smallest
  key, which is what the rebasing of keys at every insertion must keep. `Rebased`, `Awakes` and
  `Unlocks` are where that is not obvious. `SchedulerInv` follows.
* `TunnelServiceProofs`: three invariants, each inductive on top of the one before.
  `BaseInv` holds whatever happens: types; `Counted`, that each session is paid for by a
  call or a crash; and `QueueInOrder`, that the main thread's messages come service object by
  service object with `onDestroy` last. `HeldInv` says who holds what is open:
  how far each cleanup (`CleanupKeeps`) and each start (`StartKeeps`) has come, and that what is
  open is in the hands of the handler at work or in a field of the object that
  still gets its `onDestroy` (`OnlyHere`, `OpenIsHeld`, `DownHere`). From it follow
  `EngineOnOpenTun`, `OneSession`, `NothingLost` and `DownMeansReleased`. It
  assumes `"overlap" \notin Events`: where `onRevoke` comes into a `startTunnel` at work,
  `EngineOnOpenTun` is false (section 4), and nothing is claimed of the others. `BackedInv` says what the phase On stands for,
  whoever of `startTunnel` and the refreshes has said it last, at every place of a start, a stop and
  a cleanup (`OnHolds`, `TunHolds`, `StartSays`); `OnIsBacked` follows. It allows that the
  engine has ended by itself, which nothing watches, and besides `"overlap"` it excludes only the
  refreshes that report after the stop they did not see (`"late"`), which `service_stale_on` shows
  to break it.
* `SpliceProofs`, UDP: `PoolInv` says of each place of the pool which datagram it holds
  and how many of them the batch under way has sent; `UdpInv` follows. TCP:
  `SpliceIInv` adds `RingCounts` to the parts of `SpliceInv`: where the ring's two
  ends are, and that a session without a pcb has nothing left to read; and
  `RingHoldsUnacked`, that until something is refused the ring is full of exactly what lwIP holds. `TcpWriteAllFacts` says what
  lwIP may hold after a wrapped write: all that was readable, one of the two chunks, or
  neither. In each case it is in the stream's order (`HandedOver`), and as nothing is
  written behind a refusal it stays so; `StreamIsWhole` follows for any ring and window.
* `ConnectionProofs`, handshake: `InStep` says where the two sides are: the engine has
  written `w` of its blocks and read `e` answers, the relay has read `c` and given `g`,
  with `c <= w` and `e <= g`, and each stream holds exactly the blocks between the two
  numbers, plus the refusal when the relay has given one. Hence nothing but the
  client's payload is left in the streams when both splice (`SplicedAsAsked`), with
  the requests sent one by one or all at once.
* `ConnectionProofs`, association: `Relayed` is inductive for any servers and any number of
  datagrams. That nobody but the engine becomes the client needs that servers speak
  only when spoken to, which is what the model assumes of them: `answering` is filled
  only by what left, and nothing leaves before there is a client.
* `GatewaysProofs`, selector: `SelectorInv` is inductive for any groups and lists of
  candidates. `CollectedIsExact` says that the results an open selector has
  collected are those its probes gave, which yields `RefreshIsRight`;
  `PassedDoPass` holds for closed ones as well, which yields `OnlyPassingChosen`.
  `SavedIsUsed` assumes `~Overlap`.
* `GatewaysProofs`, parser: what the loop of `parse` tells is a function of the offset and of what the
  records before it held (`ParseReads`). By induction over the bytes still to come, what is
  told of the first bytes is told of all of them (`MoreBytes`), and a name is told only if records that carry
  a ClientHello for it stand in front (`LoopSaysHello`); by induction over these records, it
  then is told (`HelloSays`). `HelloInv` follows for messages of any length, cut in any way. The theorem assumes
  that clients send what `AsMeant` says: a name goes with a ClientHello for it (`IsHello`,
  said of the bytes, without the loop), no name with none. The messages of the run are so.
* `GatewaysProofs`, routing: the invariant itself is easy once the operators are
  understood, for any hosts and any rules. The loop of `targetFor` exists as a function of the
  position (`TargetWalks`), finds the host itself if it is a key and otherwise what it finds
  from the next dot on (`OneTurn`, `TargetFinds`); so it answers exactly if some key is the host or
  a parent of it, with the longest such key (`LongestDecides`). `RoutingIInv`
  adds to `RoutesAreRight` that what is learned and connected to is what the tables gave.
* `GatewaysProofs`, mapped DNS: `Core` keeps records, their order of use and the
  reverse table in step, and each of the three ways to serve a name keeps it: one that is mapped, one
  that gets a free record, one that takes the record used longest ago (`CoreMapped`, `CoreFree`,
  `CoreTaken`). A query serves its questions in turn, so that `Core` after all of them
  is an induction over their number (`Counting`, from the well-foundedness of `<` on the numbers).
  `MappedDnsInv` follows for any number of records, names and questions.
* `SocksRelayProofs`: `RelayInv` is inductive for any set of connections:
  `BeforeItsTurn` (no thread is ahead of its connection, so no socket is opened
  twice) and `ClosedFirst` (a thread takes out of the set only what is closed)
  carry `EverySocketIsFound`, whose two exceptions (`Unbound`, `Refused`) are sockets that the
  code itself lets go. `RelayedIsReleased` follows with `Removed`.

Only model-checked:

* Liveness: `ArmedStopReturns`, `FiniEnds`, `StartingResolves`, `OneEndsBothEnd`,
  `CloseEndsThreads`, `EndingEnds`, `StopEndsTasks`, `NobodyStarves`, `FullRingIsRead`,
  `SessionEnds`, `HandshakeSettles`, `ControlEndsAssociation` and `HelloIsRead` need
  fairness and ENABLED, which the prover cannot handle.
* The five violated properties, which are false.

## 6. What is not modelled

* Third-party code: lwIP, the YAML parser and wintun are most of the repository's
  lines. The models use lwIP as its caller does: callbacks come from the io and timer
  tasks, `tcp_write` takes or refuses what it is given, and `tcp_output` and `tcp_shutdown` succeed or fail. So
  the share of all lines that the definitions map stays small; of the code that the project
  calls its own, `K/` and `N/`, every part with a state of its own is modelled.
* The YAML configuration (its outcome is `MainConfigures`), the tunnel devices (system
  calls), logging, scripts, colours, the screen beyond its switch, build and CI.
  `TProxyGetStats` only reads counters.
* The server half of the SOCKS5 core and UDP in TCP (`udp: 'tcp'`), which the
  app does not configure; condition variables and channels of the task system,
  which nothing here uses; failing allocations inside a session.
* Probes are outcomes, not TLS exchanges. Preferences other than the gateways are
  not modelled: `enabled` is written and never read, the app list is read once per start.
* `ClientHello` skips the fields in front of the server name in one step: their
  lengths are taken to be consistent. DNS messages are kinds of datagrams.

## 7. Plan

1. Done: every module of section 2, and the proofs of section 5.
2. A composition of `TunnelService` with `NativeEngine` instead of `EngineSpec`, and of
   `TunnelSessions` with `TcpSplice`, as refinements: each splice is one place of a session.
