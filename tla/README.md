# A TLA+ model of microps-rs

microps-rs is a small TCP/IP stack that runs in user space on a Linux TAP
device. The modules here model the stack from the signal that announces a frame
to the socket call that returns its bytes. TLC checks them on small instances,
and TLAPS proves the main invariants for every value of the constants.
`PROJECT.json` gives, for each definition, the lines of the source it stands for.

## The system

| part | source | what it does | here |
|---|---|---|---|
| task | `platform/linux/task.rs` | `snapshot` / `wait_after` / `notify` / `interrupt`, on a mutex and a condition variable | `WaitSpec`, `Task`, `TaskArpProofs` |
| TCP | `tcp.rs` | PCB table, RFC 793 event processing, retransmission, the socket calls | `TcpPcb`, `Tcp`, `MCTcp`, `MCTcpStream`, `TcpPcbProofs`, `TcpStackProofs`, `TcpProofs`, `TcpStreamProofs` |
| UDP | `udp.rs` | PCB table, datagram queues | `Udp`, `UdpProofs` |
| sockets | `sock.rs` | descriptors over TCP and UDP | `Sock`, `SockProofs` |
| ARP | `arp.rs` | address cache with timeout and eviction | `Arp`, `MCArp`, `TaskArpProofs` |
| input path | `net.rs`, `intr.rs`, `softirq.rs`, `timer.rs`, `ether_tap.rs`, `device.rs`, `loopback.rs` | signal -> isr -> input queue -> softirq -> protocol handler; timers; start and shutdown | `NetInput`, `MCNetInput`, `NetInputProofs` |
| IP, ICMP, checksum | `ip.rs`, `icmp.rs`, `util.rs` | interfaces, routes, output and input checks, echo and errors | `Ip`, `MCIp` |
| log, test, xtask | | printing, echo server, TAP set-up | not modelled: output and system calls |

One *dispatch thread* waits for signals and runs everything that comes from
below: device isr, softirq (hence `segment_arrives` and `udp::input`), and the
timers (hence `tcp::on_timer`). *Application threads* call the socket API. They
meet at one mutex per protocol (`PCBS`). A blocking call takes a snapshot of the
PCB's task while it holds that mutex, lets the mutex go, waits, and looks again.

## How the code corresponds to the modules

A critical section of a mutex is one action, since no other thread can observe
its middle. What happens between two critical sections is visible: a blocked
call is therefore a thread state and several actions.

**`Task`** has `generation`, `interrupted` and `wc` as in `TaskState`, and per
thread a program counter, its snapshot and its last result. `Wait` is
`wait_after` up to the sleep, `Recheck` a return from the condition variable
(spurious ones included), `Notify` and `Interrupt` the two wakers. **`WaitSpec`**
is what users rely on: a waiter is armed, signalled or done. `Task` implements it
(`ImplementsWaitSpec`), and `Tcp` and `Udp` use tasks in that abstract form:
`wait`, `woken`, and, where the flag matters, an interrupt.

**`TcpPcb`** is one PCB and what an output, a segment or a timer tick does to
it. **`Tcp`** makes the state machine: `pcbs` (the table of every host), `thr`
(the call each thread is in), `fds` (what the applications hold), `net` (segments
under way). Calls: `Socket`, `Bind`, `Listen`, `Accept`, `Connect`, `OpenActive`,
`OpenPassive`, `Send`, `Receive`, `Close`. Rounds of a blocking call:
`AwaitEstablished`, `FinishOpen`, `AcceptStep`, `SendStep`, `ReceiveStep`,
`WaitReturns`, `Interrupted`. From below: `SegmentArrives`, which follows
`segment_arrives` through its CLOSED, LISTEN, SYN_SENT and other branches, and
`OnTimer`. The environment: `Lose`, `Duplicate`, reordering (a delivery that is
not the oldest), `PeerSends`, a failing output, `Interrupt`.

**`Udp`** has one table, threads, the task flags, and `notifying`: `input`
queues a datagram in one step and notifies in a second (`InputNotify`), because
the code drops the mutex in between. `sendto` has two halves for the same reason.
`arrived` and `taken` are history variables.

**`Sock`** has `SOCKS` and the two PCB tables, with a mutex each. `open` is
`Open` (a PCB) and `Alloc` (a descriptor), `accept` is `Call`, `Accept` and
`Alloc`, `close` is `Close` (read the descriptor), `CloseClear` (clear it) and
`CloseProto` (close the PCB); the other calls read their descriptor and then use
the copy. TCP is what becomes of a slot: `NewConnection`, `Established`, `Reset`
(a segment releases the PCB) and `TimedOut` (it stays, CLOSED). `num` numbers the
PCBs, so that the properties can tell two PCBs in one slot apart. The application
uses descriptors it holds, closes each once, and not while it is in a call on it.

**`Arp`** has the cache and the threads that resolve. `resolve` looks
(`Resolve`), inserts (`ResolveInsert`) and asks (`Request`), `input` updates
(`Input`) and inserts (`InputInsert`), each step in its own critical section. The
cache, a vector, is a set of entries with a position and a time stamp. Hosts
answer, ask, and change their hardware; `heard` remembers what reached the cache
last.

**`NetInput`** has the set of pending signals (signals coalesce), the
dispatcher (`intr`), every thread's progress through `input_handler` (`inh`),
the kernel's ring of the tap, `INPUT_QUEUE`, and the main thread, which starts
and stops all of it one call at a time. `Sigwait` takes a signal; `TapRead` is one
round of the isr's loop, `SoftirqPop` and `Handler` one of `softirq_handler`,
`TimerIsr` the timers. `DEVICES` is held by the main thread while it opens and
closes devices, which is when `by_index` must wait.

**`Ip`** has hosts with a loopback and an Ethernet device. `IfaceRegister` and
`RouteAdd` configure them in any order, `Send` is `ip::output` called from above,
`Input` is `ip::input` with the handler it calls and the answer that sends. A byte
has four bits and a header keeps protocol, checksum and addresses, so that
`cksum16` is computed as in the code, odd lengths and carries included, and the
LAN may change any byte. ARP is a choice: resolved or not.

Abstractions in TCP and UDP: segments are records, flags a set of names, bytes are numbered in
the order they are written; time is counted in runs of `on_timer`; checksums,
header parsing and printing are left out; `route_lookup` finds the host's only
interface, so that the errors of `open`, `connect` and `accept` when there is no
route (`tcp.rs:1066`, `1304`, `1423`) are left out. Fields that are written and never
read are left out. Comparisons of sequence numbers do not wrap, as in the code.

Three simplifications of order: `OnTimer` ticks every PCB of a host at once, while
the code visits the slots in turn under the same lock, so that only the order of the
segments it sends differs. A thread whose PCB is released leaves `wait_after` in that
step, so that an interrupt between the release and its return is not seen; the call
fails either way. `Sock` has one step from SYN_SENT to ESTABLISHED, also when the code
passes through SYN_RECEIVED (simultaneous open); both are states of a PCB that its
descriptor names.

One restriction on the applications: `listen` and `connect` are called on PCBs
whose buffer and retransmission queue are empty. Calling them on a PCB that a
connection has filled is the call `"recycle"`, which no run allows; with it
`rcv.wnd` is reset while `buf` is not, and the next `receive` adds past `u16`.

## Runs

| run | instance | states | checks |
|---|---|---|---|
| `task` | 3 waiters, 3 notifications | 13,584 | lost wakeups, interrupts reach everybody and are not dropped, waits end, refinement of `WaitSpec` |
| `tcp_stream` | A opens, writes 2 bytes, closes; B opens passively and reads; one loss, duplicate or reordering | 124,444 | `TypeOK`, `StreamIntegrity`, `UnackedIsQueued`, `PeersAgree` |
| `tcp_close` | both ends open and close; one loss or interrupt; fair | 9,657 | `OpenReturns`, `ClosingEnds` |
| `tcp_server` | two client threads, a server that listens, accepts and closes; 3 slots | 427,773 | `ConnectionUnique`, `AcceptedOnce`, `WaitersBlocked` |
| `tcp_peer` | a client against a peer that sends any of 14 segments at any time; failing outputs, interrupts; 3 faults | 126,777 | `WindowAccounting`, `RfcTransitions`, `WaitersBlocked` |
| `udp` | 2 threads, 2 slots, 2 datagrams, wildcard and specific addresses; fair | 762,931 | `EndpointsDisjoint`, `ReplyComesBack`, `SleepersHaveNothing`, `TakenInOrder`, `DatagramEndsSleep` |
| `sock` | 2 threads, 3 descriptors, 2 slots per table, 3 PCBs | 935,242 | `RightPcb`, `OneSocketPerPcb`, `NoOrphan` |
| `arp` | 2 threads, 2 addresses, one host with two hardware addresses and one with one, 2 entries; one lost, repeated or unsent message; fair | 109,622 | the bound of the cache (`TypeOK`), `FreshestAnswer`, `KnownAgain` |
| `input` | an application thread, two timers, 2 frames, from start to shutdown; fair | 37,190 | `SoftirqPromised`, `TapPromised`, `InOrder`, `Delivered`, `TimerRuns`, `ShutdownEnds` |
| `ip` | 2 hosts, 3 routes each, one packet sent and what it causes, one byte changed by one, any number of frames lost; fair | 86,939 | `BestRoute`, `HandledWasSent`, `AnswersSolicited`, `FallsSilent`, `EchoAnswered` |

The type invariants of `Task`, `Udp`, `Sock` and `NetInput` and the waiter count of
`Task` are proved (below) and not repeated in the runs.

Two runs are expected to fail. Each checks one property that the repository's
README or comments state of the program and that the code does not keep; the
`findings` of `PROJECT.json` quote the lines.

| run | what TLC finds |
|---|---|
| `tcp_eof` | a FIN that arrives when the text before it was lost moves `rcv.nxt` past that text; `receive` reports the end of the stream with a byte missing |
| `tcp_stall` | a `send` that sleeps on a full window is never woken: `receive` announces no window, and the ACK branch notifies nobody |

Five more configurations of `MCTcp` are kept to be run by hand. They are not
among the runs of `PROJECT.json`.

| configuration | what TLC finds |
|---|---|
| `MCTcpSimultaneousClose.cfg` | `TimeWaitReleased` fails: CLOSING -> TIME_WAIT leaves the FIN queued (`tcp.rs:812`); the retransmission deadline then turns the PCB to CLOSED and its slot is never released, although the repository's README lists "simultaneous open/close" |
| `MCTcpHalfClose.cfg` | `HalfCloseRead` fails: a reader blocked in FIN_WAIT_1 or FIN_WAIT_2 is not told of the peer's FIN (`tcp.rs:873`), although it lists "half-close". `WaitersBlocked`, which excepts that FIN, holds there (5,355 states without `HalfCloseRead`) |
| `MCTcpStaleDescriptor.cfg` | `AcceptedOnce` fails: a PCB is reset while in the backlog, its slot is used again, and the backlog still names it (`tcp.rs:1299`) |
| `MCTcpPeerServer.cfg` | `ConnectionUnique` and `WaitersBlocked` hold (229,436 states): a server against two remote endpoints that send SYN, ACK, text or RST at any time |
| `MCTcpDiscipline.cfg` | `Disciplined` and `ConnectsOnClosed`, which two theorems assume of the applications (below), hold in the instance of `tcp_peer` (126,777 states) |

The passing runs are chosen around these: `tcp_stream` checks that what is handed
out is a prefix of what was written (which holds) rather than that the end of
stream is complete (which does not), `WaitersBlocked` excepts the two events that
notify nobody (a FIN in FIN_WAIT_1 or FIN_WAIT_2 for a reader, an ACK that opens the
window for a sender), `ClosingEnds` allows a PCB to end as CLOSED in its slot, `tcp_server` opens one
descriptor per thread, and `tcp_peer` gives `connect` one remote endpoint, to
which a second `connect` is refused (with another endpoint `connect` would take an
ESTABLISHED PCB to SYN_SENT, since it checks no state).

The limit of the stream properties of `sock` is the same aliasing that
`MCTcpStaleDescriptor.cfg` shows: a segment may release a PCB whose slot is still
named by a descriptor or a backlog. When such a slot is taken again `stale` is
set, and from then on nothing is said of streams. What is shown is that the socket
layer's own interleavings never cause it; for datagrams there is no exception.
In `arp` an Incomplete entry may hide a Resolved one until it expires, so that
`KnownAgain` is about the cache having the address, not about the next `resolve`.

### Bounds

`MaxFlight` limits the timer, not the senders: `on_timer` runs only while at
most that many segments are on their way to each host, so that retransmissions do
not pile up. One segment is enough for a retransmission to cross an answer.
`MaxFaults` counts losses, duplicates, reorderings, failed outputs, interrupts
and foreign segments together; one fault is enough for every retransmission
path, and the runs against a foreign peer, where a handshake already takes two or
three segments, allow 3 and 4. `MaxOpens` limits descriptors per thread (TCP) or in
all (UDP, where 2 openings of 2 slots include the reuse of a slot).
`MaxGeneration` and `MaxInput` bound notifications and datagrams.

In `sock`, `MaxPcbs` is larger than the number of slots, so that slots are used
again, and lets every behaviour end (hence no deadlock check; likewise in `ip`
and `input`, where senders stop and the stack is shut down). In `arp` the cache is
as large as the number of addresses, so that a second entry for one address evicts
the other; `MaxFlight` bounds the messages under way. Two frames are enough for one
to arrive while the other is being drained. In `ip` three routes are two of an
interface and one more, or one of an interface and a tie; one packet is enough for
a request, its answers and errors, and an echo payload of two bytes makes the
message's length odd.

`SeqMod` is 32 and the initial numbers are 3 and 9 (20 for the foreign peer): no
run wraps. The receive buffer holds 2 bytes (1 in `tcp_stall`) and a segment 1,
so that two segments fill the window. RTO 1, deadline 2 and TIME_WAIT 3 keep the
order of the code's 200 ms, 12 s and 30 s.

### Fairness

`OnTimer` and delivery are weakly fair: the interval timer keeps raising SIGALRM,
the dispatch thread never blocks on an application, and a segment that is not
lost arrives. A thread that can go on does (`ThreadStep`, `Wait`, `Recheck`,
`InputNotify`): mutexes are held for bounded sections only. Nothing obliges an
application to call anything. In `arp` the application goes on sending, a message
that keeps being sent arrives, and hosts answer. In `input` every pending signal
is taken at some point, as `sigwait` does when handlers are shorter than a tick. In
`ip` what arrives is handled. `tcp_stall` alone adds that the peer keeps calling
`receive`, which makes the missing wakeup a fault of the stack.

## Proofs

All theorems hold for every value of the constants that satisfies the named
ASSUMEs of the modules (finitely many waiters; a nonempty sequence space larger
than the receive buffer; port 0 outside the dynamic range, and so on). TLC
evaluates those ASSUMEs in the runs.

**Task** (`TaskArpProofs`). `TaskInvariant`: a thread sleeps only while nothing was
notified since its snapshot and no interrupt is pending, and `wc` is the number
of threads inside `wait_after`. The inductive invariant adds that snapshots do not
lie in the future (`SnapshotsPast`): otherwise a later `notify` could make a
stale snapshot current again. From it follow `InterruptReachesAllHolds` (while
somebody is left inside, `wc` is not zero, so the flag stays),
`InterruptNotDroppedHolds`, and `TaskImplementsWaitSpec`, step by step.

**TCP** (`TcpPcbProofs`, `TcpStackProofs`, `TcpProofs`, `TcpStreamProofs`).
`TcpPcbProofs` is about the operators of `TcpPcb`: what each does to the type of a PCB,
to the account of its window, to its state, to its retransmission queue and to the
numbers of the text it carries. The others are about the steps of `Tcp`. All theorems
assume `NoRecycle`, the restriction on applications above, or imply it. But for the last
one, the faults, foreign segments included, are unrestricted. A lemma that only one
theorem needs is a named step of its proof.

- `TcpInvariant` (`TcpStackProofs`): `rcv.wnd` plus the length of `buf` is
  `RECV_BUF_SIZE` on every active PCB, and no two active PCBs of a host have the same
  endpoints. `NobodyWaitsOnReleased`: a waiting thread's PCB exists. The inductive
  invariant `StackInv` is a predicate on each host's table (`TabOK`), the types of
  the rest and that last fact. Replacing one slot by a PCB that *fits*, or tearing
  slots down, keeps `TabOK`, and every action does only that. Uniqueness rests on
  `pcb_select` being asked, in the same critical section, before a PCB gets its
  endpoints.
- `TcpTypes`: `TypeOK`, the segments under way included. `Emits` lists what a step
  may send (an output of a PCB it has or makes, text of the calling thread, an entry
  of a queue again, the reply to a segment), `StepNet` shows that nothing else
  reaches the network, and each of these is a segment because of `StackInv`.
- `NothingUnackedIsLost` (`TcpProofs`): `UnackedIsQueued`. Every action is first
  classified (`StepSteps`): a PCB is untouched, or changed in one of ten named ways
  (it listens, dials, answers, writes, finishes, ticks, processes a segment, and so
  on), or new. The invariant `AllCovered` then follows way by way. It extends the
  property to the handshake, where SYN and SYN-ACK are the entries.
- `StatesFollowTheDiagram`: `RfcTransitions`, from the same classification. It needs
  `ConnectsOnClosed`: `connect` is called on CLOSED PCBs. The code checks no state there.
- `NoLostWakeup`: `WaitersBlocked`, inductive together with `StackInv`. A thread that
  goes to sleep has just seen its condition false (`StepWaits`); a step that makes the
  condition true notifies the task, or is one after which the condition is still
  false (`PcbStepWaits`). The two wakeups the code forgets are exceptions of the
  property, not assumptions: a reader may sleep on in CLOSING and TIME_WAIT
  (`SilentFin`), where only a FIN in FIN_WAIT_1 or FIN_WAIT_2 takes it silently, and of
  a sender it says that the connection can still send, not that the window is full. It
  needs `ConnectsOnClosed` and `Disciplined`: nobody else uses the PCB that a `connect`
  waits for, and `accept` waits on a socket of `socket()`.
- `StreamArrivesInOrder` (`TcpStreamProofs`): `StreamIntegrity`, for one conversation
  (`OneConversation`): every host opens one connection with `open`, has one initial
  sequence number and at most one thread that sends and one that receives, there is no
  foreign peer, and the bytes do not use up the sequence space. Any loss, duplication
  and reordering is allowed, and any number of hosts. The invariant `TextInv` follows a
  byte by its number: byte `i` has the sequence number `iss + i` in the argument of
  `send`, in the retransmission queue, in every segment under way, and in the buffer of
  the receiver, which has given out the bytes before it. The assumption is needed: a
  segment of an earlier connection between the same endpoints, or one that a foreign
  peer made up, is accepted like any other. `MCTcpStream` states it of the instance of
  `tcp_stream`.

`ConnectsOnClosed` and `Disciplined` are about applications; the code does not enforce
them. TLC finds both true in the instances of `tcp_peer` (`MCTcpDiscipline.cfg`) and of
`tcp_server`, so that the runs of `WaitersBlocked` and `RfcTransitions` are among the
behaviours the theorems speak of.

**UDP** (`UdpProofs`). `UdpInvariant` is the four safety properties of the run,
`UdpTypeCorrect` its type invariant. The inductive invariant adds that every PCB
has a task of its own, never used before (`TasksFresh`), so that the history of a
reused slot starts empty, and that a thread half-way through `sendto` has a port
(`SendersNamed`).

**Sockets** (`SockProofs`). `DescriptorNamesItsPcb`, `PcbHasOneSocket`,
`PcbsAccountedFor` and `SockTypes` follow from `SockInvariant`. The inductive
invariant adds that the application keeps its discipline (`Disciplined`: a thread
in `close` is alone with its descriptor), that numbers are fresh and unique, and who
owns what: a datagram PCB has exactly one holder (`UdpOwned`), and, until `stale`, so
has a stream PCB that was given out (`TcpOwned`), while a PCB is in
at most one backlog, and not after it was given out (`Backlogs`).

**ARP** (`TaskArpProofs`). `ArpTypes` bounds the cache; `ResolveFreshest` says that of
several entries for one address the first is the freshest. The invariant orders
entries by position and stamp.

**Input path** (`NetInputProofs`). `NoEntryForgotten` and `NoFrameForgotten` are
the two promises against coalescing signals, `FramesInOrder` the order per sender,
`InputTypes` the types. The invariant says where each sender's frames can be: handled,
then queued, then in `input_handler`, then in the ring, numbered in that order.

The corollaries `TaskTypes`, `WaitersCounted`, `ConnectionsUnique`,
`EndpointsStayDisjoint`, `RepliesComeBack` and `DatagramsInOrder` state single
properties of the invariants above.

Induction over data is done by hand where it is needed: a smallest counterexample
exists because `<` is well founded on the naturals (`JoinedType`, on the sequences of
sequences that `on_timer` and `Transmit` put together, and `MinProperties`).

Only model-checked:

- every liveness property: the prover has no fairness and no ENABLED;
- `PeersAgree`, which relates the numbers of the two ends of a connection; like
  `StreamIntegrity` it is false with earlier connections or foreign peers;
- `AcceptedOnce`, which fails once a slot is reused (`MCTcpStaleDescriptor.cfg`) and is
  therefore a fact about the instance;
- `BestRoute`, `HandledWasSent` and `AnswersSolicited`: the checksum and the look-up of
  `Ip` are recursive and bitwise, and with more than one changed byte a checksum
  can agree by chance.

## Not modelled

- Wrapping sequence numbers: `Tcp` compares them as the code does, on a range
  that does not wrap. The comparisons at the wrap are listed as a hazard.
- Header parsing: lengths, versions, fragments and malformed packets. Packets are those
  that `build_packet`, and its counterparts in TCP and UDP, make. What the checks refuse
  changes no state, but the checks of `ip::input` are not complete: none compares the
  total length with the header length, so that for a header in which it is smaller
  `&data[hlen..total]` (`ip.rs:504`) and `total - hlen` (`ip.rs:506`) panic, which ends the
  dispatch thread. It is listed as a hazard.
- The checksums of TCP and UDP, which are `cksum16` over a pseudo header, and the port
  unreachable message with which `udp::input` answers a datagram for no socket.
- More damage than one byte of a packet of `Ip`: with two a checksum may agree by chance.
- A `read` of the tap after `close` on a number that is by then another file: `TapRead`
  finds nothing there.
- Registration of protocols, interrupts, timers and devices, which happens before
  `net::run` and from one thread.
- `transmit` of the tap (a write), `query_mac`, the clock, random numbers, printing
  and hex dumps, the test programs and `xtask`: system calls and output, without
  state of the stack.
- In `Ip` two paths end without a word: a packet for 255.255.255.255 follows the
  default route to its gateway, and one for the host's own Ethernet address is
  dropped by ARP. No document says what should happen, so no property is stated.
- One model of all layers together: the modules meet at the interfaces described
  above (a task, a segment, a resolved address, a released slot), and their product
  is out of TLC's reach.
