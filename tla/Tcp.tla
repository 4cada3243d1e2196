-------------------------------- MODULE Tcp ---------------------------------
(***************************************************************************)
(* tcp.rs as a state machine.  Every host runs one stack: a table of PCBs, *)
(* application threads that call the functions of tcp.rs, and the dispatch *)
(* thread that runs segment_arrives and on_timer.  Every critical section  *)
(* of the PCBS mutex is one action.  A blocking call is a thread state:    *)
(*                                                                         *)
(*   "lock"   about to take PCBS for the next round of its loop            *)
(*   "estab"  open/connect left its loop and is about to take PCBS again   *)
(*   "wait"   took its snapshot, let PCBS go and waits (WaitSpec: armed)   *)
(*   "woken"  notified since (WaitSpec: signalled)                         *)
(*   "intr"   wait_after returned Interrupted                              *)
(*                                                                         *)
(* net[h] is what the network still holds for host h, oldest first.  The   *)
(* network may lose, duplicate or reorder segments, a peer of another kind *)
(* may send segments of its own, output may fail and the user may          *)
(* interrupt: all of them are counted by `faults'.                         *)
(***************************************************************************)
EXTENDS TcpPcb

CONSTANTS Host, Thread,
          ThreadHost,    \* the host a thread runs on
          HostAddr,      \* the address of its interface
          Iss,           \* what random32 may return on a host
          MSS,           \* the MTU of its interface less the headers
          DynPort,       \* the dynamic port range
          Calls,         \* what a thread may call
          BindTo,        \* arguments of bind and of a passive open
          ConnectTo,     \* arguments of connect and of an active open
          SendLen, RecvLen,  \* lengths of the buffers passed to send and receive
          Backlog,       \* arguments of listen
          MaxOpens,      \* bound: descriptors a thread asks for
          MaxFaults,     \* bound: faults in one behaviour
          MaxFlight,     \* bound: segments on their way to a host when a timer runs
          Faults,        \* the kinds of fault that happen
          PeerSegment    \* segments a peer of another kind may send

CallName == {"socket", "bind", "listen", "accept", "connect", "active", "passive",
             "send", "receive", "close", "recycle"}
FaultName == {"lose", "duplicate", "reorder", "output", "interrupt", "peer"}

ASSUME TcpAssumption ==
  /\ ThreadHost \in [Thread -> Host]
  /\ HostAddr \in [Host -> Addr \ {ANY}]
  /\ Iss \in [Host -> SUBSET SeqNo]
  /\ MSS \in Nat \ {0}
  /\ DynPort \subseteq Port \ {0}
  /\ Calls \in [Thread -> SUBSET CallName]
  /\ BindTo \in [Thread -> SUBSET Endp]
  /\ ConnectTo \in [Thread -> SUBSET Endp]
  /\ SendLen \subseteq Nat \ {0} /\ RecvLen \subseteq Nat \ {0} /\ Backlog \subseteq Nat
  /\ MaxOpens \in Nat /\ MaxFaults \in Nat /\ MaxFlight \in Nat /\ Faults \subseteq FaultName
  /\ PeerSegment \subseteq Segment

VARIABLES pcbs,    \* PCBS of every host
          thr,     \* the call every thread is in
          fds,     \* the descriptors the applications of a host hold
          net, faults

vars == <<pcbs, thr, fds, net, faults>>

ThreadState ==
  [pc : {"idle", "lock", "estab", "wait", "woken", "intr"},
   op : CallName \cup {"none"}, desc : Desc \cup {NoDesc},
   data : Seq(Byte), sent : Nat,           \* the argument and the local of send
   ret : {"none", "Ok", "Err", "Eof"},     \* what the last call returned
   opens : Nat, wrote : Nat, got : Seq(Byte)]

Init ==
  /\ pcbs = [h \in Host |-> [d \in Desc |-> NoPcb]]
  /\ thr = [t \in Thread |-> [pc |-> "idle", op |-> "none", desc |-> NoDesc, data |-> <<>>,
                              sent |-> 0, ret |-> "none", opens |-> 0, wrote |-> 0, got |-> <<>>]]
  /\ fds = [h \in Host |-> {}]
  /\ net = [h \in Host |-> <<>>]
  /\ faults = 0
-----------------------------------------------------------------------------
(***************************************************************************)
(* Helpers.                                                                *)
(***************************************************************************)
Fault(kind) ==
  /\ kind \in Faults
  /\ faults < MaxFaults
  /\ faults' = faults + 1

\* ip::output: a segment reaches the host that has its destination address, if any.
Addressed(out, addr) ==
  Joined([i \in DOMAIN out |-> IF out[i].dst.addr = addr THEN <<out[i]>> ELSE <<>>])
Transmit(n, out) == [h \in Host |-> n[h] \o Addressed(out, HostAddr[h])]

OnDesc(t, h, ds) == ThreadHost[t] = h /\ thr[t].desc \in ds

\* task.notify() on the PCBs `notified' of h, and on the PCBs `released', whose tasks
\* nobody can reach any more.
Woken(h, notified, released) ==
  [t \in Thread |->
     CASE thr[t].pc \in {"wait", "woken"} /\ OnDesc(t, h, released) ->
            [thr[t] EXCEPT !.pc = IF pcbs[h][thr[t].desc].intr THEN "intr" ELSE "lock"]
       [] thr[t].pc = "wait" /\ OnDesc(t, h, notified \ released) -> [thr[t] EXCEPT !.pc = "woken"]
       [] OTHER -> thr[t]]

Begin(t, op, d) ==
  [thr[t] EXCEPT !.pc = "lock", !.op = op, !.desc = d, !.ret = "none",
                 !.opens = IF op \in {"active", "passive"} THEN @ + 1 ELSE @]

Returns(th, t, ret) ==
  [th EXCEPT ![t] = [@ EXCEPT !.pc = "idle", !.desc = NoDesc, !.data = <<>>, !.sent = 0, !.ret = ret]]

MayCall(t, op) == thr[t].pc = "idle" /\ op \in Calls[t]
Holds(t, d) == d \in fds[ThreadHost[t]]
-----------------------------------------------------------------------------
(***************************************************************************)
(* Calls that do not block.  One that is refused returns Err and changes   *)
(* nothing, and is no step here.                                           *)
(***************************************************************************)
Socket(t) ==
  LET h == ThreadHost[t] IN
  /\ MayCall(t, "socket") /\ thr[t].opens < MaxOpens
  /\ \E d \in Desc :
       /\ Allocates(pcbs[h], d)
       /\ pcbs' = [pcbs EXCEPT ![h][d] = [EmptyPcb EXCEPT !.mode = "Socket"]]
       /\ fds' = [fds EXCEPT ![h] = @ \cup {d}]
  /\ thr' = [thr EXCEPT ![t].opens = @ + 1]
  /\ UNCHANGED <<net, faults>>

BindRefused(tab, d, local) ==
  \/ d \notin Live(tab)
  \/ local.port = 0
  \/ tab[d].state # "Closed"
  \/ Matches(tab, local, AnyEndp) # {}

Bind(t, d) ==
  LET h == ThreadHost[t] IN
  /\ MayCall(t, "bind") /\ Holds(t, d)
  /\ \E local \in BindTo[t] :
       /\ ~BindRefused(pcbs[h], d, local)
       /\ pcbs' = [pcbs EXCEPT ![h][d].local = local]
  /\ UNCHANGED <<thr, fds, net, faults>>

\* A PCB no connection has used yet.  An application that does not "recycle" calls
\* listen and connect on no other.
Unused(p) == p.buf = <<>> /\ p.queue = <<>>
MayUse(t, h, d) ==
  d \in Live(pcbs[h]) => Unused(pcbs[h][d]) \/ "recycle" \in Calls[t]

ListenRefused(tab, d) ==
  d \notin Live(tab) \/ tab[d].local.port = 0 \/ tab[d].state # "Closed"

Listen(t, d) ==
  LET h == ThreadHost[t] IN
  /\ MayCall(t, "listen") /\ Holds(t, d) /\ MayUse(t, h, d)
  /\ ~ListenRefused(pcbs[h], d)
  /\ \E max \in Backlog :
       pcbs' = [pcbs EXCEPT ![h][d] = [@ EXCEPT !.backlog_max = max, !.state = "Listen"]]
  /\ UNCHANGED <<thr, fds, net, faults>>

CloseRefused(tab, d) ==
  d \in Live(tab) =>
    tab[d].state \in {"Closed", "FinWait1", "FinWait2", "Closing", "LastAck", "TimeWait"}

\* The application gives the descriptor up whatever close() returns (sock::close).
Close(t, d) ==
  LET h == ThreadHost[t]
      p == pcbs[h][d]
  IN
  /\ MayCall(t, "close") /\ Holds(t, d)
  /\ fds' = [fds EXCEPT ![h] = @ \ {d}]
  /\ \/ /\ CloseRefused(pcbs[h], d)
        /\ UNCHANGED <<pcbs, thr, net>>
     \/ /\ d \in Live(pcbs[h]) /\ p.state \in {"Listen", "SynSent"}
        /\ pcbs' = [pcbs EXCEPT ![h] = Without(@, TornDown(@, d))]
        /\ net' = Transmit(net, ReleaseResets(pcbs[h], d))
        /\ thr' = Woken(h, {}, TornDown(pcbs[h], d))
     \/ /\ d \in Live(pcbs[h]) /\ p.state \in {"SynReceived", "Established", "CloseWait"}
        /\ pcbs' = [pcbs EXCEPT ![h][d] =
                      FinSent(@, IF @.state = "CloseWait" THEN "LastAck" ELSE "FinWait1")]
        /\ net' = Transmit(net, <<Output(p, {"ACK", "FIN"}, <<>>)>>)
        /\ thr' = Woken(h, {d}, {})
  /\ UNCHANGED faults
-----------------------------------------------------------------------------
(***************************************************************************)
(* open, connect.                                                          *)
(***************************************************************************)
\* Defect: a dynamic port is handed out without asking pcb_select.
LocalForUnchecked(tab, h, local, remote) ==
  {[addr |-> IF local.addr = ANY THEN HostAddr[h] ELSE local.addr,
    port |-> IF local.port = 0 THEN Min(DynPort) ELSE local.port]}

\* The local endpoint of an active open; none when no port is left or it is in use.
LocalFor(tab, h, local, remote) ==
  LET addr == IF local.addr = ANY THEN HostAddr[h] ELSE local.addr
      Free(q) == Matches(tab, [addr |-> addr, port |-> q], remote) = {}
      free == IF local.port # 0 THEN {q \in {local.port} : Free(q)}
                                ELSE {q \in DynPort : Free(q)}
  IN {[addr |-> addr, port |-> q] : q \in {r \in free : \A f \in free : r <= f}}

\* The first critical section of an active open of the PCB p in slot d.
StartActive(t, op, h, d, p, local, remote, iss) ==
  LET q == [SynSent(p, local, remote, iss) EXCEPT
              !.snd_una = iss, !.snd_nxt = Plus(iss, 1), !.state = "SynSent"]
  IN /\ pcbs' = [pcbs EXCEPT ![h][d] = q]
     /\ net' = Transmit(net, <<Output(q, {"SYN"}, <<>>)>>)
     /\ thr' = [thr EXCEPT ![t] = Begin(t, op, d)]

Connect(t, d) ==
  LET h == ThreadHost[t] IN
  /\ MayCall(t, "connect") /\ Holds(t, d) /\ MayUse(t, h, d)
  /\ d \in Live(pcbs[h])
  /\ \E remote \in ConnectTo[t], iss \in Iss[h] :
     \E local \in LocalFor(pcbs[h], h, pcbs[h][d].local, remote) :
       \/ /\ StartActive(t, "connect", h, d, pcbs[h][d], local, remote, iss)
          /\ UNCHANGED faults
       \/ /\ Fault("output")
          /\ pcbs' = [pcbs EXCEPT ![h][d] =
                        [SynSent(@, local, remote, iss) EXCEPT !.state = "Closed"]]
          /\ thr' = Returns([thr EXCEPT ![t].op = "connect"], t, "Err")
          /\ UNCHANGED net
  /\ UNCHANGED fds

\* open(): when it is refused, or output fails, the new PCB is released at once.
OpenActive(t) ==
  LET h == ThreadHost[t] IN
  /\ MayCall(t, "active") /\ thr[t].opens < MaxOpens
  /\ \E d \in Desc, arg \in BindTo[t], remote \in ConnectTo[t], iss \in Iss[h] :
       /\ Allocates(pcbs[h], d)
       /\ \E local \in LocalFor(pcbs[h], h, arg, remote) :
            StartActive(t, "active", h, d, EmptyPcb, local, remote, iss)
  /\ UNCHANGED <<fds, faults>>

OpenPassive(t) ==
  LET h == ThreadHost[t] IN
  /\ MayCall(t, "passive") /\ thr[t].opens < MaxOpens
  /\ \E d \in Desc, local \in BindTo[t], remote \in ConnectTo[t] \cup {AnyEndp} :
       /\ Allocates(pcbs[h], d)
       /\ local.port # 0 /\ Matches(pcbs[h], local, remote) = {}
       /\ pcbs' = [pcbs EXCEPT ![h][d] =
                     [EmptyPcb EXCEPT !.local = local, !.remote = remote, !.state = "Listen"]]
       /\ thr' = [thr EXCEPT ![t] = Begin(t, "passive", d)]
  /\ UNCHANGED <<fds, net, faults>>

Opening == {"connect", "active", "passive"}

\* A thread about to run the next round of its loop.
AtLoop(t, ops) ==
  thr[t].pc = "lock" /\ thr[t].op \in ops

\* open and connect give up: open also releases the PCB, connect does not.
GiveUp(t, h, d) ==
  IF thr[t].op = "connect"
  THEN /\ pcbs' = [pcbs EXCEPT ![h][d].state = "Closed"]
       /\ thr' = Returns(thr, t, "Err")
       /\ UNCHANGED net
  ELSE /\ pcbs' = [pcbs EXCEPT ![h] = Without(@, TornDown(@, d))]
       /\ thr' = Returns(Woken(h, {}, TornDown(pcbs[h], d)), t, "Err")
       /\ net' = Transmit(net, ReleaseResets(pcbs[h], d))

AwaitEstablished(t) ==
  LET h == ThreadHost[t]
      d == thr[t].desc
  IN
  /\ AtLoop(t, Opening)
  /\ \/ /\ d \notin Live(pcbs[h])
        /\ thr' = Returns(thr, t, "Err")
        /\ UNCHANGED <<pcbs, net>>
     \/ /\ d \in Live(pcbs[h]) /\ pcbs[h][d].state = "Established"
        /\ thr' = [thr EXCEPT ![t].pc = "estab"]
        /\ UNCHANGED <<pcbs, net>>
     \/ /\ d \in Live(pcbs[h]) /\ pcbs[h][d].state \in {"Listen", "SynReceived", "SynSent"}
        /\ thr' = [thr EXCEPT ![t].pc = "wait"]
        /\ UNCHANGED <<pcbs, net>>
     \/ /\ d \in Live(pcbs[h])
        /\ pcbs[h][d].state \notin {"Established", "Listen", "SynReceived", "SynSent"}
        /\ GiveUp(t, h, d)
  /\ UNCHANGED <<fds, faults>>

\* The last critical section of open and connect.
FinishOpen(t) ==
  LET h == ThreadHost[t]
      d == thr[t].desc
  IN
  /\ thr[t].pc = "estab"
  /\ \/ /\ d \notin Live(pcbs[h])
        /\ thr' = Returns(thr, t, "Err")
        /\ UNCHANGED <<pcbs, fds>>
     \/ /\ d \in Live(pcbs[h])
        /\ pcbs' = [pcbs EXCEPT ![h][d].mss = MSS]
        /\ fds' = [fds EXCEPT ![h] = @ \cup {d}]
        /\ thr' = Returns(thr, t, "Ok")
  /\ UNCHANGED <<net, faults>>
-----------------------------------------------------------------------------
(***************************************************************************)
(* accept, send, receive.                                                  *)
(***************************************************************************)
Accept(t, d) ==
  /\ MayCall(t, "accept") /\ Holds(t, d)
  /\ thr' = [thr EXCEPT ![t] = Begin(t, "accept", d)]
  /\ UNCHANGED <<pcbs, fds, net, faults>>

Send(t, d) ==
  /\ MayCall(t, "send") /\ Holds(t, d)
  /\ \E n \in SendLen :
       LET data == [i \in 1..n |-> thr[t].wrote + i]
       IN /\ data \in Seq(Byte)
          /\ thr' = [thr EXCEPT ![t] = [Begin(t, "send", d) EXCEPT !.data = data]]
  /\ UNCHANGED <<pcbs, fds, net, faults>>

Receive(t, d) ==
  /\ MayCall(t, "receive") /\ Holds(t, d)
  /\ thr' = [thr EXCEPT ![t] = Begin(t, "receive", d)]
  /\ UNCHANGED <<pcbs, fds, net, faults>>

\* One round of the loop of accept.
AcceptStep(t) ==
  LET h == ThreadHost[t]
      d == thr[t].desc
      listening == d \in Live(pcbs[h]) /\ pcbs[h][d].state = "Listen"
      c == Head(pcbs[h][d].backlog)
      popped == Popped(pcbs[h], d)
  IN
  /\ AtLoop(t, {"accept"})
  /\ \/ /\ ~listening
        /\ thr' = Returns(thr, t, "Err")
        /\ UNCHANGED <<pcbs, fds>>
     \/ /\ listening /\ pcbs[h][d].backlog = <<>>
        /\ thr' = [thr EXCEPT ![t].pc = "wait"]
        /\ UNCHANGED <<pcbs, fds>>
     \/ /\ listening /\ pcbs[h][d].backlog # <<>> /\ c \notin Live(pcbs[h])
        /\ pcbs' = [pcbs EXCEPT ![h] = popped]
        /\ thr' = [thr EXCEPT ![t].pc = "lock"]
        /\ UNCHANGED fds
     \/ /\ listening /\ pcbs[h][d].backlog # <<>> /\ c \in Live(pcbs[h])
        /\ pcbs' = [pcbs EXCEPT ![h] = [popped EXCEPT ![c].mss = MSS]]
        /\ fds' = [fds EXCEPT ![h] = @ \cup {c}]
        /\ thr' = Returns(thr, t, "Ok")
  /\ UNCHANGED <<net, faults>>

\* send counts what it passed to output and goes on.
WroteOn(th, n) == [th EXCEPT !.pc = "lock", !.sent = @ + n, !.wrote = @ + n]

\* One round of the loop of send.
SendStep(t) ==
  LET h == ThreadHost[t]
      d == thr[t].desc
      p == pcbs[h][d]
      sendable == d \in Live(pcbs[h]) /\ p.state \in {"Established", "CloseWait"}
      remain == Len(thr[t].data) - thr[t].sent
      slen == Min({p.mss, remain, Capacity(p)})
      chunk == SubSeq(thr[t].data, thr[t].sent + 1, thr[t].sent + slen)
  IN
  /\ AtLoop(t, {"send"})
  /\ \/ /\ ~sendable
        /\ thr' = Returns(thr, t, "Err")
        /\ UNCHANGED <<pcbs, net>>
     \/ /\ sendable /\ remain = 0
        /\ thr' = Returns(thr, t, "Ok")
        /\ UNCHANGED <<pcbs, net>>
     \/ /\ sendable /\ remain > 0 /\ Capacity(p) = 0
        /\ thr' = [thr EXCEPT ![t].pc = "wait"]
        /\ UNCHANGED <<pcbs, net>>
     \/ /\ sendable /\ remain > 0 /\ Capacity(p) > 0
        /\ pcbs' = [pcbs EXCEPT ![h][d] = TextSent(@, chunk, slen)]
        /\ net' = Transmit(net, <<Output(p, {"ACK", "PSH"}, chunk)>>)
        /\ thr' = [thr EXCEPT ![t] = WroteOn(@, slen)]
  /\ UNCHANGED <<fds, faults>>

\* One round of the loop of receive.
ReceiveStep(t) ==
  LET h == ThreadHost[t]
      d == thr[t].desc
      p == pcbs[h][d]
      InState(states) == d \in Live(pcbs[h]) /\ p.state \in states
  IN
  /\ AtLoop(t, {"receive"})
  /\ \/ /\ d \in Live(pcbs[h]) => p.state \in {"Closed", "Listen", "SynSent", "SynReceived"}
        /\ thr' = Returns(thr, t, "Err")
        /\ UNCHANGED pcbs
     \/ /\ InState({"Established", "FinWait1", "FinWait2"}) /\ p.buf = <<>>
        /\ thr' = [thr EXCEPT ![t].pc = "wait"]
        /\ UNCHANGED pcbs
     \/ /\ \/ InState({"CloseWait"}) /\ p.buf = <<>>
           \/ InState({"Closing", "LastAck", "TimeWait"})
        /\ thr' = Returns(thr, t, "Eof")
        /\ UNCHANGED pcbs
     \/ /\ InState({"Established", "FinWait1", "FinWait2", "CloseWait"}) /\ p.buf # <<>>
        /\ \E len \in RecvLen :
             LET n == Min({len, Len(p.buf)})
             IN /\ pcbs' = [pcbs EXCEPT ![h][d] = Drained(@, n)]
                /\ thr' = Returns([thr EXCEPT ![t].got = @ \o SubSeq(p.buf, 1, n)], t, "Ok")
  /\ UNCHANGED <<fds, net, faults>>
-----------------------------------------------------------------------------
(***************************************************************************)
(* Interrupts (SIGUSR2 runs task::isr, which interrupts every task).       *)
(***************************************************************************)
Interrupt(h) ==
  /\ Fault("interrupt")
  /\ pcbs' = [pcbs EXCEPT ![h] = [d \in Desc |-> IF d \in Live(@) THEN [@[d] EXCEPT !.intr = TRUE]
                                                                 ELSE NoPcb]]
  /\ UNCHANGED <<thr, fds, net>>

\* wait_after returns.  The last thread to leave the task consumes the interrupt, one that
\* leaves others behind may or may not (WaitSpec).
WaitReturns(t) ==
  LET h == ThreadHost[t]
      d == thr[t].desc
      alone == \A u \in Thread \ {t} : ~(thr[u].pc \in {"wait", "woken"} /\ OnDesc(u, h, {d}))
  IN
  /\ \/ /\ thr[t].pc = "woken" /\ ~pcbs[h][d].intr
        /\ thr' = [thr EXCEPT ![t].pc = "lock"]
        /\ UNCHANGED pcbs
     \/ /\ thr[t].pc \in {"wait", "woken"} /\ pcbs[h][d].intr
        /\ thr' = [thr EXCEPT ![t].pc = "intr"]
        /\ \E flag \in IF alone THEN {FALSE} ELSE BOOLEAN :
             pcbs' = [pcbs EXCEPT ![h][d].intr = flag]
  /\ UNCHANGED <<fds, net, faults>>

\* What a call does about WaitResult::Interrupted.
Interrupted(t) ==
  LET h == ThreadHost[t]
      d == thr[t].desc
  IN
  /\ thr[t].pc = "intr"
  /\ \/ /\ thr[t].op \in Opening /\ d \in Live(pcbs[h])
        /\ GiveUp(t, h, d)
     \/ /\ thr[t].op \in Opening => d \notin Live(pcbs[h])
        /\ thr' = Returns(thr, t, IF thr[t].op = "send" /\ thr[t].sent > 0 THEN "Ok" ELSE "Err")
        /\ UNCHANGED <<pcbs, net>>
  /\ UNCHANGED <<fds, faults>>
-----------------------------------------------------------------------------
(***************************************************************************)
(* segment_arrives on the segment net[h][i].  Every action below is one    *)
(* way through the function, early returns included.                       *)
(***************************************************************************)
Outcome(h, i, tab, th, out) ==
  /\ pcbs' = [pcbs EXCEPT ![h] = tab]
  /\ thr' = th
  /\ net' = Transmit([net EXCEPT ![h] = SubSeq(@, 1, i - 1) \o SubSeq(@, i + 1, Len(@))], out)

Dropped(h, i) == Outcome(h, i, pcbs[h], thr, <<>>)
Answered(h, i, reply) == Outcome(h, i, pcbs[h], thr, <<reply>>)

\* transition(Closed) and pcb_release, after the segments `out' were sent.
Reset(h, i, d, out) ==
  Outcome(h, i, Without(pcbs[h], TornDown(pcbs[h], d)),
          Woken(h, {}, TornDown(pcbs[h], d)), out \o ReleaseResets(pcbs[h], d))

\* No PCB, or a closed one.
ArrivesClosed(h, i, seg) ==
  /\ \/ Matches(pcbs[h], seg.dst, seg.src) = {}
     \/ \E d \in Desc : Selects(pcbs[h], seg.dst, seg.src, d) /\ pcbs[h][d].state = "Closed"
  /\ IF "RST" \in seg.flg THEN Dropped(h, i) ELSE Answered(h, i, ResetReply(seg))

\* A SYN a listening PCB has no room for.
NoRoom(tab, p) == p.mode = "Socket" /\ (Len(p.backlog) >= p.backlog_max \/ TableFull(tab))

ArrivesListen(h, i, seg, d) ==
  LET tab == pcbs[h]
      takes == seg.flg \cap {"RST", "ACK", "SYN"} = {"SYN"}
  IN
  /\ tab[d].state = "Listen"
  /\ \/ /\ "RST" \in seg.flg \/ seg.flg \cap {"ACK", "SYN"} = {} \/ (takes /\ NoRoom(tab, tab[d]))
        /\ Dropped(h, i)
     \/ /\ "RST" \notin seg.flg /\ "ACK" \in seg.flg
        /\ Answered(h, i, ResetReply(seg))
     \/ /\ takes /\ tab[d].mode = "Socket" /\ ~NoRoom(tab, tab[d])
        /\ \E c \in Desc, iss \in Iss[h] :
             LET q == SynArrives([EmptyPcb EXCEPT !.parent_desc = d], seg, iss)
             IN /\ Allocates(tab, c)
                /\ Outcome(h, i, [tab EXCEPT ![c] = q], thr, <<Output(q, {"SYN", "ACK"}, <<>>)>>)
     \/ /\ takes /\ tab[d].mode = "Rfc"
        /\ \E iss \in Iss[h] :
             LET q == SynArrives(tab[d], seg, iss)
             IN Outcome(h, i, [tab EXCEPT ![d] = q], thr, <<Output(q, {"SYN", "ACK"}, <<>>)>>)

ArrivesSynSent(h, i, seg, d) ==
  LET p == pcbs[h][d]
      q == SynSentSyn(p, seg)
  IN
  /\ p.state = "SynSent"
  /\ \/ /\ SynSentBadAck(p, seg)
        /\ Answered(h, i, ResetReply(seg))
     \/ /\ ~SynSentBadAck(p, seg) /\ "RST" \in seg.flg /\ SynSentAcceptable(p, seg)
        /\ Reset(h, i, d, <<>>)
     \/ /\ ~SynSentBadAck(p, seg)
        /\ IF "RST" \in seg.flg THEN ~SynSentAcceptable(p, seg) ELSE "SYN" \notin seg.flg
        /\ Dropped(h, i)
     \/ /\ ~SynSentBadAck(p, seg) /\ "RST" \notin seg.flg /\ "SYN" \in seg.flg
        /\ q.state = "Established"
        /\ Outcome(h, i, [pcbs[h] EXCEPT ![d] = q], Woken(h, {d}, {}), <<Output(q, {"ACK"}, <<>>)>>)
     \/ /\ ~SynSentBadAck(p, seg) /\ "RST" \notin seg.flg /\ "SYN" \in seg.flg
        /\ q.state = "SynReceived"
        /\ Outcome(h, i, [pcbs[h] EXCEPT ![d] = q], thr, <<Output(q, {"SYN", "ACK"}, <<>>)>>)

\* 1st to 5th check of the other states, as far as they end in a return.
ArrivesRefused(h, i, seg, d) ==
  LET p == pcbs[h][d]
      toAck == Acceptable(p, seg) /\ seg.flg \cap {"RST", "SYN"} = {}
  IN
  \/ /\ ~Acceptable(p, seg)
     /\ IF "RST" \in seg.flg THEN Dropped(h, i) ELSE Answered(h, i, Output(p, {"ACK"}, <<>>))
  \/ /\ Acceptable(p, seg) /\ "RST" \in seg.flg
     /\ Reset(h, i, d, <<>>)
  \/ /\ Acceptable(p, seg) /\ "RST" \notin seg.flg /\ "SYN" \in seg.flg
     /\ Reset(h, i, d, <<Output(p, {"RST"}, <<>>)>>)
  \/ /\ toAck /\ "ACK" \notin seg.flg
     /\ Dropped(h, i)
  \/ /\ toAck /\ "ACK" \in seg.flg /\ p.state = "SynReceived" /\ ~SynReceivedGoodAck(p, seg)
     /\ Answered(h, i, ResetReply(seg))
  \/ /\ toAck /\ "ACK" \in seg.flg /\ AckTooNew(p, seg)
     /\ Answered(h, i, Output(p, {"ACK"}, <<>>))
  \/ /\ toAck /\ "ACK" \in seg.flg /\ p.state = "LastAck"
     /\ IF seg.ack = p.snd_nxt THEN Reset(h, i, d, <<>>) ELSE Dropped(h, i)

\* Defect: the thread blocked in receive is not told that the peer has closed.
FinWakesNobody(p, seg) == FALSE

\* Only the FIN that takes an established connection to CLOSE_WAIT notifies.
FinWakes(p, seg) == "FIN" \in seg.flg /\ p.state \in {"SynReceived", "Established"}

\* Defect: the thread blocked in accept is not notified.
NotifiedNoParent(tab, d, p, self) == IF self THEN {d} ELSE {}

\* The PCBs whose tasks a segment for d notifies.
Notified(tab, d, p, self) == ParentOf(tab, p) \cup IF self THEN {d} ELSE {}

\* 5th to 8th step of a segment with a good ACK.
ArrivesInOrder(h, i, seg, d) ==
  LET p == pcbs[h][d]
      acked == ProcessAck(p, seg)
      read == ProcessText(acked, seg)
      done == ProcessFin(read, seg)
      ackWakes == p.state = "SynReceived" \/ (p.state = "Closing" /\ acked.state = "TimeWait")
      textWakes == HasText(acked, seg)
      Wakes(b) == Notified(pcbs[h], d, p, b)
  IN
  /\ Acceptable(p, seg) /\ seg.flg \cap {"RST", "SYN", "ACK"} = {"ACK"}
  /\ p.state = "SynReceived" => SynReceivedGoodAck(p, seg)
  /\ ~AckTooNew(p, seg) /\ p.state # "LastAck"
  /\ \/ /\ TextRefused(acked, seg)
        /\ Outcome(h, i, WithParent(pcbs[h], d, p, acked), Woken(h, Wakes(ackWakes), {}),
                   <<Output(acked, {"ACK"}, <<>>)>>)
     \/ /\ ~TextRefused(acked, seg)
        /\ Outcome(h, i, WithParent(pcbs[h], d, p, done),
                   Woken(h, Wakes(ackWakes \/ textWakes \/ FinWakes(read, seg)), {}),
                   (IF textWakes THEN <<Output(read, {"ACK"}, <<>>)>> ELSE <<>>)
                     \o (IF "FIN" \in seg.flg THEN <<Output(done, {"ACK"}, <<>>)>> ELSE <<>>))

SegmentArrives(h, i) ==
  LET seg == net[h][i] IN
  /\ seg \in Segment
  /\ IF i = 1 THEN UNCHANGED faults ELSE Fault("reorder")
  /\ \/ ArrivesClosed(h, i, seg)
     \/ \E d \in Desc :
          /\ Selects(pcbs[h], seg.dst, seg.src, d)
          /\ \/ ArrivesListen(h, i, seg, d)
             \/ ArrivesSynSent(h, i, seg, d)
             \/ /\ pcbs[h][d].state \notin {"Closed", "Listen", "SynSent"}
                /\ ArrivesRefused(h, i, seg, d) \/ ArrivesInOrder(h, i, seg, d)
  /\ UNCHANGED fds
-----------------------------------------------------------------------------
(***************************************************************************)
(* on_timer, and what the network does on its own.                         *)
(***************************************************************************)
OnTimer(h) ==
  LET tab == pcbs[h]
      elapsed == {d \in Live(tab) : TimeWaitElapsed(tab[d])}
      released == UNION {TornDown(tab, d) : d \in elapsed}
      kept == Live(tab) \ released
      sends == [d \in Desc |-> CASE d \in elapsed -> ReleaseResets(tab, d)
                                  [] d \in kept -> RetransSegments(tab[d])
                                  [] OTHER -> <<>>]
  IN
  /\ \A g \in Host : Len(net[g]) <= MaxFlight
  /\ pcbs' = [pcbs EXCEPT ![h] = [d \in Desc |-> IF d \in kept THEN Ticked(tab[d]) ELSE NoPcb]]
  /\ thr' = Woken(h, {d \in kept : DeadlineExceeded(tab[d])}, released)
  /\ net' = Transmit(net, ForEachDesc(sends))
  /\ UNCHANGED <<fds, faults>>

Lose(h, i) ==
  /\ Fault("lose")
  /\ net' = [net EXCEPT ![h] = SubSeq(@, 1, i - 1) \o SubSeq(@, i + 1, Len(@))]
  /\ UNCHANGED <<pcbs, thr, fds>>

Duplicate(h, i) ==
  /\ Fault("duplicate")
  /\ net' = [net EXCEPT ![h] = Append(@, @[i])]
  /\ UNCHANGED <<pcbs, thr, fds>>

PeerSends(h) ==
  /\ Fault("peer")
  /\ \E seg \in PeerSegment : net' = Transmit(net, <<seg>>)
  /\ UNCHANGED <<pcbs, thr, fds>>

ThreadCall(t) ==
  \/ Socket(t) \/ OpenActive(t) \/ OpenPassive(t)
  \/ \E d \in Desc : \/ Bind(t, d) \/ Listen(t, d) \/ Connect(t, d) \/ Accept(t, d)
                    \/ Send(t, d) \/ Receive(t, d) \/ Close(t, d)

ThreadStep(t) ==
  \/ AwaitEstablished(t) \/ FinishOpen(t) \/ AcceptStep(t) \/ SendStep(t)
  \/ ReceiveStep(t) \/ WaitReturns(t) \/ Interrupted(t)

Next ==
  \/ \E t \in Thread : ThreadCall(t) \/ ThreadStep(t)
  \/ \E h \in Host : OnTimer(h) \/ Interrupt(h) \/ PeerSends(h)
  \/ \E h \in Host : \E i \in DOMAIN net[h] :
       SegmentArrives(h, i) \/ Lose(h, i) \/ Duplicate(h, i)

Spec == Init /\ [][Next]_vars

\* The timer signal keeps coming, the network keeps delivering what it did not lose, and
\* a thread that can run does.
FairSpec ==
  /\ Spec
  /\ \A h \in Host : WF_vars(OnTimer(h)) /\ WF_vars(net[h] # <<>> /\ SegmentArrives(h, 1))
  /\ \A t \in Thread : WF_vars(ThreadStep(t))

\* The same, with applications that keep reading.
ReaderSpec ==
  /\ FairSpec
  /\ \A t \in Thread : WF_vars(\E d \in Desc : Receive(t, d))
-----------------------------------------------------------------------------
(***************************************************************************)
(* Properties.                                                             *)
(***************************************************************************)
StackTypeOK ==
  /\ pcbs \in [Host -> [Desc -> Pcb \cup {NoPcb}]]
  /\ thr \in [Thread -> ThreadState]
  /\ fds \in [Host -> SUBSET Desc]
  /\ faults \in 0..MaxFaults

\* Every field has its type: rcv.wnd and snd.wnd stay within u16, sequence numbers within
\* u32, and every segment on the wire is well formed.
TypeOK ==
  /\ StackTypeOK
  /\ net \in [Host -> Seq(Segment)]

LivePcb(h, d) == d \in Live(pcbs[h])
InSync(p) == Active(p) /\ p.state \notin {"SynSent", "SynReceived"}

\* segment_arrives takes from rcv.wnd what it appends to buf and receive gives it back:
\* what is advertised is what is free, and `rcv.wnd += n' cannot overflow.
WindowAccounting ==
  \A h \in Host, d \in Desc : LivePcb(h, d) =>
    LET p == pcbs[h][d]
    IN /\ Active(p) => p.rcv_wnd + Len(p.buf) = RECV_BUF_SIZE
       /\ p.state = "Listen" => p.buf = <<>>

\* pcb_select is asked before a PCB gets its endpoints (open, connect, the SYN that a LISTEN
\* PCB takes), so no two PCBs are ever the same connection.
ConnectionUnique ==
  \A h \in Host, c, d \in Desc : LivePcb(h, c) /\ LivePcb(h, d) =>
    LET p == pcbs[h][c]
        q == pcbs[h][d]
    IN Active(p) /\ Active(q) /\ p.local = q.local /\ p.remote = q.remote => c = d

\* One conversation: every host has one address of its own and one initial sequence number,
\* opens one connection by the functions of RFC 793, and has at most one thread that opens,
\* one that sends and one that receives.  The bytes that may be sent do not use up the
\* sequence space, in which the comparisons of the code do not wrap.
Opener == {"active", "passive"}
OneConversation ==
  /\ "peer" \notin Faults /\ MaxOpens = 1
  /\ \A g, h \in Host : HostAddr[g] = HostAddr[h] => g = h
  /\ \A h \in Host : \E n \in SeqNo : Iss[h] = {n}
  /\ \A h \in Host : \A n \in Iss[h] : n + 2 < SeqMod /\ \A b \in Byte : b \in Nat => n + b + 2 < SeqMod
  /\ \A t \in Thread :
       /\ Calls[t] \subseteq Opener \cup {"send", "receive", "close"}
       /\ \A e \in BindTo[t] : e.addr \in {ANY, HostAddr[ThreadHost[t]]}
       /\ \A e \in ConnectTo[t] : e.addr # ANY
  /\ \A t, u \in Thread : \A role \in {Opener, {"send"}, {"receive"}} :
       ThreadHost[t] = ThreadHost[u] /\ Calls[t] \cap role # {} /\ Calls[u] \cap role # {} => t = u

\* What receive hands out is what the peer's send was given, in order and without gaps
\* (send numbers its bytes), whatever the network does to the segments.
StreamIntegrity ==
  \A t \in Thread : \A i \in DOMAIN thr[t].got : thr[t].got[i] = i

\* retrans_queue_cleanup never drops what may have to be sent again: every sequence number
\* from snd.una up to snd.nxt is in the retransmission queue.
UnackedIsQueued ==
  \A h \in Host, d \in Desc : LivePcb(h, d) =>
    LET p == pcbs[h][d]
    IN InSync(p) =>
         \A n \in p.snd_una..(p.snd_nxt - 1) :
           \E i \in DOMAIN p.queue : p.queue[i].seq <= n /\ n < EntryEnd(p.queue[i])

\* The two ends of a connection agree: what one has seen acknowledged (snd.una) the other
\* has received (rcv.nxt), and what one has received the other has sent (snd.nxt).
PeersAgree ==
  \A g, h \in Host, c, d \in Desc : LivePcb(g, c) /\ LivePcb(h, d) =>
    LET p == pcbs[g][c]
        q == pcbs[h][d]
    IN InSync(p) /\ InSync(q) /\ p.local = q.remote /\ p.remote = q.local =>
         p.snd_una <= q.rcv_nxt /\ q.rcv_nxt <= p.snd_nxt

\* Where a FIN takes a connection that was closed on this side first: nobody is notified.
SilentFin == {"Closing", "TimeWait"}

\* The PCB on which a blocked call may sleep.  An ACK that opens the window wakes nobody either
\* (SendReturns), so of send only the states are said.
StillWaits(op, p) ==
  CASE op \in Opening   -> p.state \in {"Listen", "SynReceived", "SynSent"}
    [] op = "accept"    -> p.state = "Listen" /\ p.backlog = <<>>
    [] op = "send"      -> p.state \in {"Established", "CloseWait"}
    [] op = "receive"   -> p.state \in {"Established", "FinWait1", "FinWait2"} \cup SilentFin /\ p.buf = <<>>
    [] OTHER            -> FALSE

\* No blocked call sleeps on a task that nobody can reach any more, and whoever changes a PCB
\* notifies its task, with two exceptions.  open and connect do not sleep through the end of the
\* handshake, accept through a new connection, receive through text, a reset, the deadline, close
\* or the FIN of a peer that closes first; send does not sleep through a reset, the deadline or
\* close.  The exceptions: a FIN in FIN_WAIT_1 or FIN_WAIT_2, and an ACK that opens the window.
WaitersBlocked ==
  \A t \in Thread : thr[t].pc = "wait" =>
    /\ LivePcb(ThreadHost[t], thr[t].desc)
    /\ StillWaits(thr[t].op, pcbs[ThreadHost[t]][thr[t].desc])

\* The first exception left out: a reader is told of the peer's FIN whoever closes first.
HalfCloseRead ==
  \A t \in Thread : thr[t].pc = "wait" /\ thr[t].op = "receive" =>
    pcbs[ThreadHost[t]][thr[t].desc].state \notin SilentFin

\* What the code expects of its applications and does not enforce.  The PCB that connect works
\* on is in nobody else's hands and was CLOSED, and accept waits on a socket of socket().
Disciplined ==
  /\ \A t, u \in Thread :
       /\ t # u /\ ThreadHost[t] = ThreadHost[u] /\ thr[t].op = "connect"
       /\ thr[t].pc # "idle" /\ thr[u].pc # "idle"
       => thr[t].desc # thr[u].desc
  /\ \A t \in Thread :
       LET p == pcbs[ThreadHost[t]][thr[t].desc]
       IN thr[t].pc = "wait" /\ thr[t].op = "accept" => p.mode = "Socket"

ConnectsClosed == \A t \in Thread, d \in Desc : Connect(t, d) => pcbs[ThreadHost[t]][d].state = "Closed"
ConnectsOnClosed == [][ConnectsClosed]_vars

\* Every connection that completed its handshake on behalf of a listening PCB is either in
\* that PCB's backlog, once, or was handed out by accept, and never both.
AcceptedOnce ==
  \A h \in Host, l, c \in Desc :
    LET p == pcbs[h][l]
        q == pcbs[h][c]
    IN LivePcb(h, l) /\ LivePcb(h, c) =>
         /\ p.state = "Listen" /\ q.parent_desc = l /\ q.state \in {"Established", "CloseWait"} =>
              Cardinality({i \in DOMAIN p.backlog : p.backlog[i] = c})
                = IF c \in fds[h] THEN 0 ELSE 1
         /\ c \in Range(p.backlog) => InSync(q) /\ q.parent_desc = l

\* The edges of the state diagram of RFC 793 (a segment may take two of them at once).
RfcNext(state) ==
  CASE state = "Closed"      -> {"Listen", "SynSent"}
    [] state = "Listen"      -> {"SynReceived"}
    [] state = "SynSent"     -> {"SynReceived", "Established"}
    [] state = "SynReceived" -> {"Established", "FinWait1", "CloseWait"}
    [] state = "Established" -> {"FinWait1", "CloseWait"}
    [] state = "FinWait1"    -> {"FinWait2", "Closing", "TimeWait"}
    [] state \in {"FinWait2", "Closing"} -> {"TimeWait"}
    [] state = "CloseWait"   -> {"LastAck"}
    [] OTHER                 -> {}

\* A PCB moves along those edges or back to CLOSED, whatever arrives and whatever is called
\* while it waits.
RfcTransitions ==
  [][\A h \in Host, d \in Desc : LivePcb(h, d) /\ d \in Live(pcbs'[h]) =>
       pcbs'[h][d].state \in {pcbs[h][d].state, "Closed"} \cup RfcNext(pcbs[h][d].state)]_vars

\* receive returns 0 only when everything the peer sent has been handed out.
EofComplete ==
  \A t, u \in Thread : t # u /\ thr[t].ret = "Eof" => Len(thr[t].got) = thr[u].wrote

\* A PCB leaves TIME_WAIT by being released (on_timer), never to sit in its slot as CLOSED.
TimeWaitReleased ==
  [][\A h \in Host, d \in Desc :
       LivePcb(h, d) /\ pcbs[h][d].state = "TimeWait" /\ d \in Live(pcbs'[h])
         => pcbs'[h][d].state = "TimeWait"]_vars

\* An active open or a connect returns: the SYN is answered, reset, or given up.
OpenReturns ==
  \A t \in Thread : thr[t].op \in {"active", "connect"} /\ thr[t].pc # "idle" ~> thr[t].pc = "idle"

\* send returns as long as the application at the other end keeps reading.
SendReturns ==
  \A t \in Thread : thr[t].op = "send" /\ thr[t].pc # "idle" ~> thr[t].pc = "idle"

\* A connection the application has closed does not stay half-way: only FIN_WAIT_2, which
\* waits for the peer's application, has no timer.
ClosingEnds ==
  \A h \in Host, d \in Desc :
    LivePcb(h, d) /\ pcbs[h][d].state \in {"FinWait1", "Closing", "LastAck", "TimeWait"}
      ~> (~LivePcb(h, d) \/ pcbs[h][d].state \in {"Closed", "FinWait2"})
=============================================================================
