# NammaTcpIp in TLA+

NammaTcpIp puts AUTOSAR-style services (`TcpIp_Bind`, `TcpIp_TcpListen`, ...) on
top of lwIP's raw API. lwIP itself is a submodule that is not part of the
repository; everything below that says "lwIP" is external code, modelled from
how `src/src/` uses it (lwIP 2.1 or later, with the options of
`src/cfg/lwipopts.h` and the defaults it leaves alone).

Paths are relative to the repository's root, which is `src/` here:
`src/src/TcpIp.c` is the file `src/TcpIp.c` of the repository. In the modules
`TcpIp.c:87` is line 87 of that file.

## The system

| component | code | state | operations |
|---|---|---|---|
| receive queue | `TcpIp.c` 36-118 | `TcpIp_Rx_CtrlBlk` (head pointer, 16-bit counter) | `push_to_rx_ctrl_blk`, `pop_pbuf_from_rx_ctrl_blk` |
| node pool | `tcpip_mpool.c/.h` | `TcpIp_MemPool[5]` (next, pbuf, state) | `get_new_tcpip_mpool`, `free_tcpip_mpool`, (`get_tcpip_mpool_w_data`, unused) |
| receive path | `lwip_int.c` `lwip_int_main`, `TcpIp.c` `tcpip_raw_recv`, `TcpIp_recv` | pbufs and their reference counts, the stream and window of the connection (lwIP) | frame in, deliver, copy out |
| transmit path | `TcpIp.c` `TcpIp_send`, `lwip_int.c` `netif_output` | the send queue of the connection and its retransmissions (lwIP) | accept data, send segments, retransmit, close |
| connection control | `TcpIp.c` 124-149, 176-355 | the one handle `tcpip_raw_pcb`, lwIP's pcbs | Bind, TcpListen, TcpConnect, Close, send, getConnState; the callbacks accept, recv, error, connected |
| socket layer | `tcpip_extensions.c`, `socket.c` | `TcpIp_Socket_Conn[]` | socket, bind, listen, accept, recv, send, main loop |
| lwIP integration | `lwip_int.c` | `Lwip_NetIf[]`, `Lwip_EthPkt` | init, main, netif_output |
| system port | `sys_arch.c` | the OS tick counter (external) | protect, unprotect, now, rand |
| stubs, configuration, build | rest | constants | empty bodies |

How they interact. The OS calls `TcpIp_MainFunction` cyclically in one task. It
polls one frame from the MAC, gives it to lwIP and runs the lwIP timers that are due
by `sys_now`; lwIP calls the `tcpip_raw_` callbacks and `netif_output` from inside
that call. `TcpIp_send` only queues data: the acknowledgements and timers of that
same call make it go out. `tcpip_raw_recv` opens
the receive window again, pushes the pbuf to the queue and frees it. The
application calls the services and `TcpIp_recv` from its own tasks; `TcpIp_recv`
pops one pbuf and copies its payload. Writer and readers share the queue and the
pool without a lock. Accept, bind and listen all assign the single handle, and
close, send and getConnState use it.

What is hard: two tasks on an unlocked list and counter; a 16-bit counter that
counts messages the list has lost; a pbuf that is queued and freed at once; one
handle for listener, server connection and closed connection; pools that run out;
data that leaves only when a timer or an acknowledgement lets it, by a clock that wraps;
and services called in orders the state tests do not foresee. The `hazards` of
`PROJECT.json` list them at their lines, each with the property that covers it.

What makes each part correct: the *queue* delivers every message it keeps once,
in order and unchanged, and never gets stuck; the *pool* never gives one node to
two tasks and never runs dry for good; the *receive path* gives every pbuf back
exactly once, keeps the stream of each connection in order and lets every close end in a FIN;
the *integration* runs the timers in time; the *transmit path* brings everything it accepted to the
peer or loses the connection, and discards nothing in an orderly close; *connection control* feeds
the queue from open connections only and gives closed connections back; the *socket layer* serves
the sockets it counts, returns what waits, and should report no success that there is not.

## The modules

| module | models | lines |
|---|---|---|
| `RxMailbox` | abstract: what the queue promises, a mailbox with one slot | - |
| `RxQueue` | queue and pool, each function one action | `TcpIp.c` 38-118, `tcpip_mpool.c`, `tcpip_mpool.h` |
| `RxPreempt` | the same functions, one shared access per step, one writer and a set of readers: with no lock (`Spec`), readers that take turns (`TurnsSpec`), calls that do not overlap (`SerialSpec`) | the same |
| `RxStream` | abstract: what the receive path promises to any number of connections, the messages of each offered in order, of which one is kept whenever none waits | - |
| `TxStream` | abstract: what `TcpIp_send` promises, a reliable stream or a lost connection | - |
| `RxPath` (extends `RxQueue`) | frame to application: pbufs, the streams and windows of several connections, reordering, close, reset | `TcpIp.c` 152-246, `lwip_int.c` 90-117 |
| `LwipInt` | bringing lwIP up, the main cycle, the pbuf pool, the clock and a timer | `lwip_int.c` 39-40, 67-84, 90-156, `sys_arch.c` 49-51 |
| `TxPath` (extends `LwipInt`) | `TcpIp_send` to the wire and the peer: segments and their pbufs, retransmission, acknowledgement, close | `TcpIp.c` 124-149, 190-246, 432-445, `lwip_int.c` 48-56 |
| `TcpConn` | services and callbacks around the handle; lwIP's pools of pcbs | `TcpIp.c` 44, 124-149, 176-355 |
| `SocketLayer` (extends `TcpConn`) | the table of sockets, their calls, the main loop, over the services of `TcpConn` | `tcpip_extensions.c`, `tcpip_extensions.h` |
| `SocketApi` (extends `SocketLayer`, instantiates `RxQueue`) | the calls of `socket.c` with their results, refusals included, over table, connections and receive queue | `socket.c`, `tcpip_extensions.c` 148-171 |
| `MC*` | the instances TLC checks | - |
| `*_proofs` | the theorems TLAPS checks | - |

Correspondence. Variables carry the names of the C variables; an action carries
the name of the function it is, or in `RxPreempt` of what the statement does. The
guards are the code's tests and early returns. Abstractions:

- *RxQueue.* A node is its index in the pool, a pbuf a model value. No statement
  assigns a `next` field, so it is the NULL of static storage: the do-while walk
  of a push to a non-empty list ends at once and the node is then assigned to a
  local variable and forgotten. `ret` is what the last pop returned. The range
  test of `free_tcpip_mpool` is always true for the pointers it gets.
- *RxPreempt.* A step has at most one access to `rx_bufhead`, `rx_buf_cnt` or a
  field of a node; `rx_buf_cnt++` and `--` are a load and a store. Accesses happen
  in program order and are atomic. (The variables are not volatile, so a compiler
  might do worse; when a build may reuse a loaded register, `ReadNullHead` has
  both outcomes.) Locals are reset when a function returns.
- *RxPath.* Data is counted in segments, a message is a pair (connection,
  segment). Frames may be lost, repeated, reordered or foreign. A frame fits one pool
  pbuf; segments that come too early are held by lwIP and chained to the one that
  closes the gap. `filled` and `last` are history variables, for the properties only.
  Any number of connections, accepted or own, is open at a time and feeds the one queue: `tcpip_raw_accept` has no test
  for another one, so `RxPath` has none. A connection has a stream and a window of its own, is closed here (`FIN` or, when
  `tcp_close` finds the window not whole, `RST`) or lost, in any order with the frames of the others.
- *TcpConn.* FIN_WAIT stands for all states after an own FIN. When no pcb is free lwIP
  takes one from a closing connection or one of low priority; both the success and the
  failure of `tcp_connect` and of an allocation that could find only FIN_WAIT pcbs
  are possible. An access through a NULL handle or to a freed pcb has no defined outcome, and neither has `TcpIp_Close`
  with a listener in the handle (`TcpIp.c:193-196` set the callbacks of a connection on it): each
  sets `fault` and the behaviour ends, so nothing is claimed of what follows. (So no listener ever goes away in `TcpConn`.)
  `TcpIp_Bind` is called with a valid port pointer. A remote close runs the whole callback,
  `tcpip_raw_close` included.
- *SocketLayer.* An entry of the table is its TcpState: the other fields are the socket's
  own number or unused. Each call ends in one step, but an accept that finds LISTEN is two:
  its wait is a stub that returns at any time. `TcpIp_TcpState`, which the main loop polls, is
  not in the repository: it may report what the enumerators of `TcpIp_ConnStateType` suggest
  for the pcb in the handle. Access to the entry behind the table (the range tests
  admit it, and the main loop can count that far) sets `outside` and the behaviour ends.
  The application has no other way to close than `TcpIp_Close`, so that is a step too.

- *LwipInt.* lwIP is seen through the pool pbufs it holds and one timer, that of TCP. Time is the OS tick
  counter modulo `U32`; `TickMs` is the truncated tick of `sys_arch.c:50`. `since` is the time since the last
  main cycle, at most `MainPeriod` ticks: the scheduler calls `TcpIp_MainFunction` with a period. `age`, a history
  variable up to `AgeBound`, is the real age of the timer. There is one interface, as in `TcpIp_cfg.h`. Who frees the pbuf
  of a frame, for both answers of the interface's input function, is in `RxPath`.
- *TxPath.* Data is counted in units, a segment is a range of them with the part that is in its first
  pbuf. `tcp_write` fills the room left in the last unsent segment, in a chained pbuf when the first has none. Frames
  on the wire may be lost (never taken), repeated, delayed and reordered; `PeerReceives` takes a whole frame that
  continues the stream; acknowledgements reach lwIP in any main cycle with any value up to what the peer has. The interval
  of the timer stands for the retransmission time-out; after `TCP_MAXRTX` retransmissions lwIP gives up.
  `TcpIp_MainFunction` takes one frame, then runs the timer if it is due, as the code does.
- *SocketApi.* `result` is what a call returns in that step. A `sockfd` that does not pass the range test gives -1
  (0 from recv and send, whose assignment is to an undeclared `retval`). recv returns the pbuf, or 0; what is copied from it
  is `RxPath`'s matter. Any connection whose callback is `tcpip_raw_recv` feeds the one queue.

Operators whose comment does not name them, and that no `Next` uses
(`EnqueueAsHead`, `PopWithoutUnlink`, `LinkAlways`, ...), are mutated forms of the
operator after them. They are what `PROJECT.json` lists as mutants: each replaces
one operator, and the property it is listed with then fails.

## The runs

| run | bounds | what it shows |
|---|---|---|
| `rx_queue` | the code's pool of 5 and 2^16, 3 pbufs | a queued message is always counted, the counter never exceeds the acquired nodes (so it never wraps), an empty queue always has a free node; the queue implements `RxMailbox`; a waiting message is delivered |
| `rx_preempt` | pool 3, counter modulo 4, 2 pbufs, 2 readers that take turns | both tasks stay inside the pool, nodes are in one pair of hands, a waiting message is never overwritten, the weak mailbox is implemented |
| `rx_path` | pool 2, 2 pbufs, 2 connections that may be open together, a window of 3 and 3 segments for each | every pbuf is freed exactly once; the messages of each connection are taken in its order and at most once, though all share the queue; `RxStream` is implemented: one is kept whenever none waits; no close is a reset |
| `tcp_conn` | 3 connections, 2 listeners, 2 ports | open connections, and only they, call `tcpip_raw_recv`; a connection closed by the peer does not keep its pcb |
| `socket_api` | 2 sockets, 3 initialisations, 2 connections, 1 listener, 1 port, a pool of 2 nodes, 2 pbufs | a socket is served only if the main loop counts it; a waiting message leaves the queue as the result of a recv, the first one of a served socket |
| `tx_path` | segments of 2 units, 4 units sent, a send buffer of 3, one retransmission, a tick of 1.5 ms, a clock that wraps after 4 ms, a pool of 1 pbuf | the timer is neither early (in real time) nor late (by `sys_now`), across the wrap; `TxStream` is implemented, in which a connection ends in good order only with everything acknowledged; everything sent is acknowledged in the end or the connection is lost |

and, expected to fail, the statements of comments that the code does not keep:

| run | comment | what happens |
|---|---|---|
| `rx_preempt_starved` | `TcpIp.c:83` "push the current rxbuf node to the tail", 107 "free the head's memory" | a node that does not become the head is never linked nor freed; pushes that race with a pop leak their node and leave an empty queue; at last no node is left and nothing is received any more |
| `rx_path_freed` | `TcpIp.c:61` "the overhead (not data)" | the pbuf is freed while queued and refilled by the next frame |
| `tcp_conn_stale` | `TcpIp.c:264` | a service uses a pcb that lwIP has taken back |
| `socket_listen` | `TcpIp.c:305` "requested to listen on the TCP socket", `socket.c:44` | two sockets share the handle: the second listen finds the listener of the first in it, `tcp_listen` returns NULL, which is stored untested, and listen returns 0 |
| `socket_accept` | `tcpip_extensions.c:129` "wait until new connection is established by the client" | listen sets the state accept waits for, so accept succeeds with no client |
| `tx_chain` | `lwip_int.c:52` "Sending packet of len" | two small sends are joined to one segment of two pbufs; `netif_output` sends the first pbuf only, and so does every retransmission |

Why the bounds are enough. In `rx_queue` pool and counter are those of the code. In
`rx_preempt` races let the counter drift upwards without a limit, even with one reader,
so its modulus is the bound: it is more than the pool, as `CntModAssumption` demands, and wrapping is part of the
behaviour. The two readers are a symmetry set. Three nodes allow one queued, one being freed and one being filled; the
theorems cover the rest. In `rx_path` two pbufs let one be held out of order while
another is queued or refused, and no pbuf being free is reached; two connections that are open together feed the
queue in any order, and data of one outlives it. Connections are a symmetry set, and so are pbufs. In `tcp_conn` the pools are exhausted, with a connection in
the handle, one orphaned and one of the own client. In `socket_api` one initialisation
more than there are entries takes the main loop out of the table, and two sockets
share the handle; connections and pbufs are symmetry sets. A pool of two lets a push find a message waiting.
In `tx_path` the four units make two full segments or joined small ones, the buffer of three refuses some,
and the clock wraps several times while timers are pending; a tick of three halves of a millisecond is
truncated to one. The expected violations need less.

Fairness. `RxQueue!Fairness` says that the reader goes on calling `TcpIp_recv`: the
code expects that (`TcpIp.c:93`, "expected to be called by TcpIp_recv() in a loop").
Nothing is assumed of the peer. `TcpConn!Fairness` says that each pcb in FIN_WAIT or
LAST_ACK ends: lwIP has a timer for it and `lwip_int_main` calls `sys_check_timeouts`
in every cycle, whether or not a frame came. Neither service nor peer is assumed
to do anything. `TxFairSpec` says that time passes (`Tick`) and that the scheduler keeps calling
`TcpIp_MainFunction` ("will be called by Os", `TcpIp.c:441`). Nothing is assumed of the network or the peer: lwIP gives up after
`TCP_MAXRTX` retransmissions, which is why a connection may end lost. `MC*.cfg` turn deadlock checking off nowhere.

## The theorems

All for every value of the constants that satisfies the assumptions of the module
(`POOL_SIZE` positive and, in `RxQueue`, smaller than the modulus of the counter, which
the code's 5 < 65536 is; NULL no element of the other sets, no message among them; connections and listeners
from different pools).

- `RxQueue_proofs`. `IInv` adds to the checked properties that `next` fields are NULL and
  that the head is an acquired node with a pbuf. `CountBoundedByPool` is inductive only with
  them: a push adds a node and a count; a pop frees the head, which is acquired, with a count.
  `QueuedIsCounted` needs that the increment cannot wrap, hence the bound.
  `EmptyQueueHasNode` is inductive because a push to an empty list links its node and a
  pop that empties the list frees one.
  `ImplementsMailbox` is the refinement under the mapping `slot <- Waiting`.
- `RxPreempt_proofs` has three levels. *No lock at all* (`Spec`): `LocalInv` is inductive for any number of readers; its
  key part is `StaleNullIsRight`: only the writer makes the list non-empty, so its copy of `rx_bufhead`, if NULL, is still
  right when it links, and `NeverOverwrites` follows. *Readers take turns* (`TurnsSpec`, a step keeps `OneReads`): the code
  does not enforce it (`tcpip_extensions.c:164`, "some lock is needed here"), and without it two readers can both read the same
  head and free it twice. `IInv` adds exclusive nodes and right copies; `ImplementsWeakMailbox` maps the moment of unlinking
  to the take, and what comes after it to stuttering. *Calls do not overlap* (`SerialSpec`, a call begins `AtRest`): copies
  are fresh and an empty list leaves a node (`SerialInv`), so `SerialIsAtomic` holds, the refinement of `RxQueue`. Its mapping
  shows the queue as it is when the call in progress is done: a push takes effect when it marks its node, a pop when it tests
  the counter. This is what justifies one action per function in `RxQueue`, `RxPath` and `SocketApi`.
- `RxPath_proofs`. `PathUsesQueue` shows that the path is a behaviour of `RxQueue`, so its
  theorems are cited here. `PathInv` adds that the stream is ahead of what is queued
  and read (`StreamAhead`) and lwIP's held segments ahead of the stream (`HeldAhead`).
  `DeliverTo` is the step that matters: only connection `c` has its stream and the segments held for it moved, and what the
  queue then has of it is older than its stream. `ClosesWithFin` rests on `WindowWhole`, which all deliveries keep, those that
  the queue refuses too. `PathImplementsService` is the refinement of `RxStream`: a delivery
  is an offer that is kept because `EmptyQueueHasNode` gives it a node when the list is empty (`KeptWhenEmpty`), and a read
  that returns something is the take of it; everything else, a close in particular, is a stutter.
- `LwipInt_proofs`, assuming a tick of at least 1 ms, and that interval and main period are at most half a turn
  of the clock (`TickAssumption`, `WrapAssumption`). `DueIsStart` is the strengthening: a pending timer's
  `due` is its start plus the interval, up to whole turns of the clock. With `TimerInTime`, which bounds the age of a pending
  timer, the signed comparison of `TIME_LESS_THAN` is then exact, so a timer expires when its interval is over and not before.
- `TxPath_proofs`. `TxImplementsLwip`: every step is one of `LwipInt` or a stutter, so its theorems hold here. `PcbOK` adds to
  the types that a segment is no shorter than its first pbuf, no longer than `TCP_MSS` and ends within what was written; it is
  stated of any pcb, as a main cycle makes one from another twice. `AcceptedStaysQueued` is the safety behind the liveness property
  `SentIsDecided`, which cannot be proved here: segments are apart (`Disjoint`) and leave no gap between what is acknowledged
  and what was written (`Covered`), and a connection has its timer. Output and retransmission only mark segments, which `MarkedQueue`
  treats once; `WriteQueue` needs that the last unsent segment is unique. `TxImplementsStream` is the refinement of `TxStream`
  under `accepted <- pcb.written, delivered <- peer, acked <- pcb.una`; `FrameMovesOn` and `TmrMovesOn` say what a frame and the
  timer may do to a connection.
- `TcpConn_proofs`. `IInv` adds that a connection in SYN_SENT has its callback. Lemmas `Replaced` and `ClosedIsGood`
  say what replacing a record and `tcpip_raw_close` do to any map of pcbs; each service and
  event is one of the two.
- `SocketLayer_proofs`. `SocketsUseTcpConn`: each step is a service, an event or a stutter of
  `TcpConn`, so `TypeOK` comes from there; the table's types and `ServedIsCounted` are
  inductive together.
- `SocketApi_proofs`. `ApiUsesSockets` and `ApiUsesQueue`: each call is a step of the sockets or nothing, and a pop, a push or
  nothing of the queue. (So, like `SocketsUseTcpConn` and `PathUsesQueue`, they hold by the way the modules are put together; they are there
  to carry the theorems upwards, and no run checks them.) The lemmas of `RxQueue_proofs` are instantiated for the types, and with them
  `ApiImplementsMailbox`. `WaitingIsWhatRecvReturns` needs `QueuedIsCounted` (a recv looks at the counter first) and `NextNeverSet`
  (a pop empties the list). `ApiOnlyOpenReceives` carries the theorem of `TcpConn_proofs` up to the calls of `socket.c`.

Every invariant, action property and refinement of a passing run is stated by a theorem; `AcceptedIsQueued` is only proved. The other way round,
`SerialIsAtomic` and `SerialPoolHasNode` are about calls that do not overlap, of which no run is needed beside the theorems;
`MCRxSerial.cfg` (with `MCRxPreempt`) is the small instance they were tried on. Only model-checked: the three
liveness properties `WaitingIsDelivered`, `PeerClosedIsFreed` and `SentIsDecided` (temporal reasoning under fairness is beyond
the provers used), and the violations.

## Known, and not a property of a run

- `tcpip_raw_recv` calls `tcp_recved` before it queues the pbuf (`TcpIp.c:205`), although the comments
  of lines 114 and 363-368 want it after the pbuf is consumed: the window never shrinks, the peer is not slowed down, and messages
  lost at the full queue have been acknowledged. `CloseSendsFin` takes no side in this: it says what depends on
  the window being opened somewhere, that `tcp_close` does not reset the connection.
- A push to a non-empty list does not link its node (`TcpIp.c:84-87`): the queue holds one message, which `MailboxSpec`
  and `ServiceSpec` state as what it does, and later ones are lost.
- `TcpIp_Close` with the listener in the handle has no defined outcome (`TcpConn!TcpIp_Close`). After an accept the listener
  cannot be reached at all.
- Two readers of the queue at a time free a node twice: `tcpip_extensions.c:164` asks for the lock. No property is claimed of that.
- The increment of `rx_buf_cnt` is no "spin lock" (`TcpIp.c:68`): a pop of a lost message can cancel the count of a new one,
  which is then stuck until another push. `RxPreempt` has these steps.
- Closing leaves the queue alone, and all connections share it: whoever reads gets what any of them has left. `WaitingIsNew` says
  that the order of each is kept; nothing tells the reader which it is.
- `TcpIp_Bind` returns E_OK when there is no pcb (`TcpIp.c:293`); listen then returns E_NOT_OK.
- `TcpIp_Socket_Send` cuts its 32-bit length to 16 bits (`tcpip_extensions.c:192`).
- `sys_arch_protect` saves no state: nested sections end with the first `sys_arch_unprotect`.
- `TcpIp_getConnState` casts lwIP's state to an enumeration with two more members
  (`tcpip_extensions.h:29` calls it a duplicate), so from LISTEN on the numbers mean other states.
- bind stores TCPIP_BIND in a local variable (`tcpip_extensions.c:63`): listen works only after
  the main loop has polled the state.
- Races let `rx_buf_cnt` drift upwards (a lost decrement); it would take some 2^16 lost
  updates until it wraps.
- `TcpIp_recv` copies `p->len` bytes; of a chain built from out-of-order segments the
  tail is acknowledged and lost. `RxPath` counts such a chain as its first segment.
- A second `TcpIp_Bind`, or a `tcp_connect` that fails, leaves a pcb that no
  variable holds. A second `TcpIp_TcpListen` sets the handle to NULL and returns E_OK (the
  state test admits LISTEN); so does a failed accept. `TcpConn` has all of these steps.
- On a remote close `tcpip_raw_recv` calls `pbuf_free(NULL)`, which lwIP tolerates.

## Not modelled

At this commit `tcpip_extensions.h` and `tcpip_extensions.c` do not compile as written (`retval`,
`i`, `E_NOK` undeclared, an array declared as in Java), and `tcpip_extensions.c` and `socket.c` are not
among the makefile's objects; the model reads them as they are evidently meant. More than one interface
(the configuration has one), address configuration and DHCP. `sys_arch_protect`,
`sys_arch_unprotect` and `sys_rand` are called only from inside lwIP and keep no state here. Of lwIP's sending: back-off,
fast retransmit, a peer that closes its window, data in the SYN states. `TcpIp_Socket_Accept_Condition` and `OS_WaitEvent_Wakeup`
do nothing that can be seen: the wait that would use them is a stub. The stub services
(`TcpIp_TcpReceived`, `TcpIp_RequestComMode`, `TcpIp_TcpTransmit`, `TcpIp_UdpTransmit`,
`TcpIp_RxIndication`) have no effect. Payload bytes, logging and configuration data are
left out. lwIP's own correctness is assumed, and so is that its callbacks run in one
task: it is configured with NO_SYS. The services of `TcpConn` run to completion; that
application tasks call into lwIP while `TcpIp_MainFunction` runs is against lwIP's rules.

## Plan

Done: `RxQueue`, `RxMailbox`, `RxPreempt`, `RxPath`, `TcpConn`, `SocketLayer`, `LwipInt`, `TxPath`, `SocketApi`, with
their proofs. What is left:

1. Chains in `RxPath`: bytes acknowledged against bytes handed out.
2. `LwipInt` with several interfaces, once the configuration has them.
3. `SocketApi` over `RxPreempt` with readers that take turns: for calls that do not overlap `SerialIsAtomic` says that nothing changes.
