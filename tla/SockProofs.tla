----------------------------- MODULE SockProofs -----------------------------
(***************************************************************************)
(* What holds of the descriptors of Sock for any number of threads, slots  *)
(* and PCBs.                                                               *)
(***************************************************************************)
EXTENDS Sock, TLAPS

\* The application's discipline as the threads keep it: a call works on a copy of a Sock that is
\* still in SOCKS, and only the one close of a descriptor clears it.
Disciplined ==
  /\ \A d \in held : socks[d] # NoSock
  /\ \A t \in Thread : thr[t].pc # "idle" => thr[t].sock \in Sock
  /\ \A t \in Thread : thr[t].pc \in Calls => thr[t].d \in held /\ socks[thr[t].d] = thr[t].sock
  /\ \A t \in Thread : thr[t].pc \in Calls \ {"other"} => thr[t].sock.ty = "STREAM"
  /\ \A t \in Thread : thr[t].pc = "clear" => thr[t].d \in Desc \ held /\ socks[thr[t].d] = thr[t].sock
  /\ \A t, u \in Thread : (thr[t].pc = "clear" /\ thr[u].pc = "clear" /\ thr[t].d = thr[u].d) => t = u

\* The numbers of PCBs that exist are numbers that were given out.
NumsFresh ==
  /\ \A s \in Slot : udp[s] # NoPcb => udp[s] <= pcbs
  /\ \A s \in Slot : Live(s) => tcp[s].num <= pcbs
  /\ \A x \in given \cup dropped : x <= pcbs
  /\ \A h \in Holders : Has(h) \in Sock /\ Has(h).num \in given

\* A number is that of one PCB, and of none once a segment released it.
NumsUnique ==
  /\ \A s, x \in Slot : (udp[s] # NoPcb /\ udp[s] = udp[x]) => s = x
  /\ \A s, x \in Slot : (Live(s) /\ Live(x) /\ tcp[s].num = tcp[x].num) => s = x
  /\ \A s \in Slot : Live(s) => tcp[s].num \notin dropped

\* The datagram sockets.
UdpOwned ==
  /\ \A h \in OfType("DGRAM") : udp[Has(h).desc] = Has(h).num
  /\ \A g, h \in OfType("DGRAM") : Has(g).num = Has(h).num => g = h
  /\ \A s \in Slot : udp[s] # NoPcb => \E h \in OfType("DGRAM") : Has(h).num = udp[s]

\* The streams, as long as no slot was taken again with an old name left for it.
LiveNamed == \A h \in OfType("STREAM") : Live(Has(h).desc) => tcp[Has(h).desc].num = Has(h).num
LostDropped == \A h \in OfType("STREAM") : ~Live(Has(h).desc) => Has(h).num \in dropped
NumHeldOnce == \A g, h \in OfType("STREAM") : Has(g).num = Has(h).num => g = h
GivenHeld ==
  \A s \in Slot : (Live(s) /\ tcp[s].num \in given /\ tcp[s].state \notin {"CLOSED", "CLOSING"})
    => \E h \in OfType("STREAM") : Has(h).num = tcp[s].num
SynUngiven == \A s \in Slot : (Live(s) /\ tcp[s].state = "SYN_RECEIVED") => tcp[s].num \notin given
TcpOwned == LiveNamed /\ LostDropped /\ NumHeldOnce /\ GivenHeld /\ SynUngiven

\* A PCB is in one backlog at most, until the application is given it.
Queued(x, i) == Live(x) /\ i \in DOMAIN tcp[x].backlog
QueuedUngiven ==
  \A x \in Slot : \A i \in Nat : (Queued(x, i) /\ Live(tcp[x].backlog[i])) =>
    /\ tcp[tcp[x].backlog[i]].num \notin given
    /\ tcp[tcp[x].backlog[i]].state # "SYN_RECEIVED"
QueuedOnce ==
  \A x, y \in Slot : \A i, j \in Nat :
    (Queued(x, i) /\ Queued(y, j) /\ tcp[x].backlog[i] = tcp[y].backlog[j]) => x = y /\ i = j
Backlogs == QueuedUngiven /\ QueuedOnce

Inv ==
  /\ TypeOK /\ Disciplined /\ NumsFresh /\ NumsUnique /\ UdpOwned
  /\ ~stale => TcpOwned /\ Backlogs
-----------------------------------------------------------------------------
(* The holders after a step. *)

\* A thread that has a PCB: an open or accept that has yet to store it, a close that has yet to
\* close it.
Holding(t) == thr[t].pc \in {"alloc", "proto"}

\* What a holder is.
LEMMA HolderCases ==
  /\ \A h \in Holders : \/ \E d \in Desc : h = <<"sock", d>> /\ socks[d] # NoSock /\ Has(h) = socks[d]
                        \/ \E t \in Thread : h = <<"thread", t>> /\ Holding(t) /\ Has(h) = thr[t].sock
  /\ \A d \in Desc : socks[d] # NoSock => <<"sock", d>> \in Holders /\ Has(<<"sock", d>>) = socks[d]
  /\ \A d \in Desc : <<"sock", d>> \in Holders => socks[d] # NoSock
  /\ \A t \in Thread : Holding(t) => <<"thread", t>> \in Holders /\ Has(<<"thread", t>>) = thr[t].sock
  /\ \A t \in Thread : <<"thread", t>> \in Holders => Holding(t)
  /\ \A d \in Desc : \A t \in Thread : <<"sock", d>> # <<"thread", t>>
BY DEF Holders, Has, Holding

\* A step that leaves SOCKS and the PCBs of the threads alone leaves the holders alone.
LEMMA HoldersKept ==
  ASSUME socks' = socks,
         \A u \in Thread : Holding(u)' = Holding(u),
         \A u \in Thread : Holding(u) => thr[u]'.sock = thr[u].sock
  PROVE  /\ Holders' = Holders
         /\ \A h \in Holders : Has(h)' = Has(h)
         /\ \A ty : OfType(ty)' = OfType(ty)
<1>1. Holders' = Holders
  BY Zenon DEF Holders, Holding
<1>2. \A h \in Holders : Has(h)' = Has(h)
  <2> SUFFICES ASSUME NEW h \in Holders PROVE Has(h)' = Has(h)
    BY Zenon
  <2>1. CASE \E d \in Desc : h = <<"sock", d>>
    BY <2>1 DEF Has
  <2>2. CASE \E t \in Thread : h = <<"thread", t>> /\ Holding(t)
    BY <2>2 DEF Has
  <2> QED BY <2>1, <2>2, HolderCases, Zenon
<1> QED BY <1>1, <1>2, Zenon DEF OfType

\* A thread takes a PCB.
LEMMA HoldersGain ==
  ASSUME NEW t \in Thread, socks' = socks, ~Holding(t), Holding(t)',
         \A u \in Thread : u # t => thr[u]' = thr[u]
  PROVE  /\ <<"thread", t>> \notin Holders
         /\ Holders' = Holders \cup {<<"thread", t>>}
         /\ Has(<<"thread", t>>)' = thr[t]'.sock
         /\ \A h \in Holders : Has(h)' = Has(h)
<1>1. <<"thread", t>> \notin Holders
  BY HolderCases, Zenon
<1>2. Holders' = Holders \cup {<<"thread", t>>}
  BY Zenon DEF Holders, Holding
<1>3. Has(<<"thread", t>>)' = thr[t]'.sock
  BY Zenon DEF Has
<1>4. ASSUME NEW h \in Holders PROVE Has(h)' = Has(h)
  <2>1. CASE \E d \in Desc : h = <<"sock", d>>
    BY <2>1 DEF Has
  <2>2. CASE \E u \in Thread : h = <<"thread", u>> /\ Holding(u)
    BY <2>2 DEF Has
  <2> QED BY <2>1, <2>2, HolderCases, Zenon
<1> QED BY <1>1, <1>2, <1>3, <1>4, Zenon

\* A thread gives up its PCB.
LEMMA HoldersLose ==
  ASSUME NEW t \in Thread, socks' = socks, Holding(t), ~Holding(t)',
         \A u \in Thread : u # t => thr[u]' = thr[u]
  PROVE  /\ <<"thread", t>> \in Holders /\ Has(<<"thread", t>>) = thr[t].sock
         /\ Holders' = Holders \ {<<"thread", t>>}
         /\ \A h \in Holders' : Has(h)' = Has(h)
<1>1. <<"thread", t>> \in Holders /\ Has(<<"thread", t>>) = thr[t].sock
  BY HolderCases, Zenon
<1>2. Holders' = Holders \ {<<"thread", t>>}
  BY DEF Holders, Holding
<1>3. ASSUME NEW h \in Holders, h # <<"thread", t>> PROVE Has(h)' = Has(h)
  <2>1. CASE \E d \in Desc : h = <<"sock", d>>
    BY <2>1 DEF Has
  <2>2. CASE \E u \in Thread : h = <<"thread", u>> /\ Holding(u)
    BY <1>3, <2>2 DEF Has
  <2> QED BY <2>1, <2>2, HolderCases, Zenon
<1> QED BY <1>1, <1>2, <1>3, Zenon

\* sock_alloc: the PCB goes from the thread to the descriptor.
LEMMA HoldersStore ==
  ASSUME NEW t \in Thread, NEW d \in Desc, TypeOK, Holding(t), ~Holding(t)', socks[d] = NoSock,
         thr[t].sock # NoSock, socks' = [socks EXCEPT ![d] = thr[t].sock],
         \A u \in Thread : u # t => thr[u]' = thr[u]
  PROVE  /\ <<"thread", t>> \in Holders /\ Has(<<"thread", t>>) = thr[t].sock
         /\ <<"sock", d>> \notin Holders
         /\ Holders' = (Holders \ {<<"thread", t>>}) \cup {<<"sock", d>>}
         /\ Has(<<"sock", d>>)' = thr[t].sock
         /\ \A h \in Holders : h # <<"thread", t>> => Has(h)' = Has(h)
<1>1. /\ <<"thread", t>> \in Holders /\ Has(<<"thread", t>>) = thr[t].sock
      /\ <<"sock", d>> \notin Holders
  BY HolderCases, Zenon
<1> DEFINE socked == {x \in Desc : socks[x] # NoSock}
<1>2. socked' = socked \cup {d} /\ socks[d]' = thr[t].sock /\ \A x \in Desc : x # d => socks[x]' = socks[x]
  BY Zenon DEF TypeOK
<1>3. Holders' = (Holders \ {<<"thread", t>>}) \cup {<<"sock", d>>}
  BY <1>2 DEF Holders, Holding
<1>4. Has(<<"sock", d>>)' = thr[t].sock
  BY <1>2, Zenon DEF Has
<1>5. ASSUME NEW h \in Holders, h # <<"thread", t>> PROVE Has(h)' = Has(h)
  <2>1. CASE \E x \in Desc : h = <<"sock", x>> /\ socks[x] # NoSock
    BY <1>2, <2>1 DEF Has
  <2>2. CASE \E u \in Thread : h = <<"thread", u>> /\ Holding(u)
    BY <1>5, <2>2 DEF Has
  <2> QED BY <2>1, <2>2, HolderCases, Zenon
<1> QED BY <1>1, <1>3, <1>4, <1>5, Zenon

\* close clears the descriptor: the PCB goes from the descriptor to the thread.
LEMMA HoldersClear ==
  ASSUME NEW t \in Thread, NEW d \in Desc, TypeOK, ~Holding(t), Holding(t)', socks[d] # NoSock,
         socks' = [socks EXCEPT ![d] = NoSock], thr[t]'.sock = socks[d],
         \A u \in Thread : u # t => thr[u]' = thr[u]
  PROVE  /\ <<"sock", d>> \in Holders /\ Has(<<"sock", d>>) = socks[d]
         /\ <<"thread", t>> \notin Holders
         /\ Holders' = (Holders \ {<<"sock", d>>}) \cup {<<"thread", t>>}
         /\ Has(<<"thread", t>>)' = socks[d]
         /\ \A h \in Holders : h # <<"sock", d>> => Has(h)' = Has(h)
<1>1. /\ <<"sock", d>> \in Holders /\ Has(<<"sock", d>>) = socks[d]
      /\ <<"thread", t>> \notin Holders
  BY HolderCases, Zenon
<1> DEFINE socked == {x \in Desc : socks[x] # NoSock}
<1>2. socked' = socked \ {d} /\ \A x \in Desc : x # d => socks[x]' = socks[x]
  BY Zenon DEF TypeOK
<1>3. Holders' = (Holders \ {<<"sock", d>>}) \cup {<<"thread", t>>}
  BY <1>2 DEF Holders, Holding
<1>4. Has(<<"thread", t>>)' = socks[d]
  BY Zenon DEF Has
<1>5. ASSUME NEW h \in Holders, h # <<"sock", d>> PROVE Has(h)' = Has(h)
  <2>1. CASE \E x \in Desc : h = <<"sock", x>> /\ socks[x] # NoSock
    BY <1>2, <1>5, <2>1 DEF Has
  <2>2. CASE \E u \in Thread : h = <<"thread", u>> /\ Holding(u)
    BY <2>2 DEF Has
  <2> QED BY <2>1, <2>2, HolderCases, Zenon
<1> QED BY <1>1, <1>3, <1>4, <1>5, Zenon
-----------------------------------------------------------------------------
(* What pcb_release frees. *)

\* It frees the slot itself.
LEMMA DrainedSelf == \A s \in Slot : s \in Drained(s)
BY Zenon DEF Drained

\* It frees nothing beyond a set that has the slot and, with a PCB, its backlog.
LEMMA DrainedWithin ==
  ASSUME NEW s \in Slot, NEW S \in SUBSET Slot, s \in S,
         \A y \in S : Live(y) => Range(tcp[y].backlog) \subseteq S
  PROVE  Drained(s) \subseteq S
BY Zenon DEF Drained

\* No PCB of the application is freed with that of slot s.
LEMMA DrainedUngiven ==
  ASSUME TypeOK, Backlogs, NEW s \in Slot
  PROVE  \A x \in Drained(s) : x # s => ~Live(x) \/ tcp[x].num \notin given
<1> DEFINE S == {x \in Slot : x = s \/ ~Live(x) \/ tcp[x].num \notin given}
<1>1. ASSUME NEW y \in S, Live(y) PROVE Range(tcp[y].backlog) \subseteq S
  <2>1. tcp[y].backlog \in Seq(Slot)
    BY <1>1, Zenon DEF TypeOK, TcpPcb, Live
  <2>2. \A i \in DOMAIN tcp[y].backlog : i \in Nat /\ tcp[y].backlog[i] \in Slot
    BY <2>1
  <2>3. \A i \in DOMAIN tcp[y].backlog : tcp[y].backlog[i] \in S
    BY <1>1, <2>2, Zenon DEF Backlogs, QueuedUngiven, QueuedOnce, Queued
  <2> QED BY <2>3, Zenon DEF Range
<1>2. Drained(s) \subseteq S
  BY <1>1, DrainedWithin, Zenon
<1> QED BY <1>2, Zenon

\* The table after pcb_release.
LEMMA ReleasedTable ==
  ASSUME TypeOK, NEW s \in Slot, tcp' = Released(s)
  PROVE  /\ tcp' \in [Slot -> TcpPcb \cup {NoPcb}]
         /\ \A x \in Slot : Live(x)' => Live(x) /\ tcp'[x] = tcp[x]
         /\ \A x \in Slot : ~Live(x)' => ~Live(x) \/ x \in Drained(s)
         /\ \A x \in Drained(s) : ~Live(x)'
         /\ ~Live(s)'
BY DrainedSelf, Zenon DEF TypeOK, Released, Live, Drained
-----------------------------------------------------------------------------
(* Types and discipline. *)

\* The states a thread can be put in are states of a thread.
LEMMA ThreadStates ==
  /\ Idle \in ThreadState
  /\ \A pc, d, k : At(pc, d, k).pc = pc /\ At(pc, d, k).d = d /\ At(pc, d, k).sock = k
  /\ \A pc \in {"alloc", "proto"} : \A k \in Sock : At(pc, -1, k) \in ThreadState
  /\ \A pc \in Calls \cup {"clear"} : \A d \in Desc : \A k \in Sock : At(pc, d, k) \in ThreadState
  /\ Idle.pc = "idle" /\ Idle.d = -1 /\ -1 \notin Desc
BY SockAssumption DEF Idle, At, ThreadState, Calls

\* A PCB with another state or backlog is a PCB.
LEMMA PcbUpdates ==
  ASSUME NEW r \in TcpPcb
  PROVE  /\ r.backlog \in Seq(Slot) /\ r.num \in Num /\ r.parent \in Slot
         /\ \A st \in TcpState : [r EXCEPT !.state = st] \in TcpPcb
         /\ \A b \in Seq(Slot) : [r EXCEPT !.backlog = b] \in TcpPcb
BY Zenon DEF TcpPcb

\* A new PCB is a PCB, and so is one with another state or backlog.
LEMMA PcbForms ==
  ASSUME TypeOK
  PROVE  /\ \A st \in TcpState : \A p \in Slot : pcbs < MaxPcbs => NewPcb(st, p) \in TcpPcb
         /\ \A s \in Slot : Live(s) => tcp[s] \in TcpPcb
         /\ \A s \in Slot : \A st \in TcpState : Live(s) =>
              [tcp EXCEPT ![s].state = st] \in [Slot -> TcpPcb \cup {NoPcb}]
<1>1. \A st \in TcpState : \A p \in Slot : pcbs < MaxPcbs => NewPcb(st, p) \in TcpPcb
  BY SockAssumption DEF TypeOK, NewPcb, TcpPcb, Num
<1>2. \A s \in Slot : Live(s) => tcp[s] \in TcpPcb
  BY Zenon DEF TypeOK, Live
<1>3. ASSUME NEW s \in Slot, NEW st \in TcpState, Live(s)
      PROVE  [tcp EXCEPT ![s].state = st] \in [Slot -> TcpPcb \cup {NoPcb}]
  <2>1. [tcp[s] EXCEPT !.state = st] \in TcpPcb
    BY <1>2, <1>3, Zenon DEF TcpPcb
  <2> QED BY <2>1, Zenon DEF TypeOK
<1> QED BY <1>1, <1>2, <1>3, Zenon

\* A step preserves the types.
LEMMA TypesKept == TypeOK /\ Disciplined /\ Next => TypeOK'
<1> SUFFICES ASSUME TypeOK, Disciplined, Next PROVE TypeOK'
  BY Zenon
<1>1. ASSUME NEW t \in Thread, NEW ty \in {"STREAM", "DGRAM"}, NEW s \in Slot, Open(t, ty, s) PROVE TypeOK'
  <2>1. pcbs + 1 \in Num /\ [ty |-> ty, desc |-> s, num |-> pcbs + 1] \in Sock
    BY <1>1, SockAssumption DEF Open, TypeOK, Num, Sock
  <2>2. NewPcb("CLOSED", s) \in TcpPcb
    BY <1>1, PcbForms, Zenon DEF Open, TcpState
  <2>3. thr' \in [Thread -> ThreadState]
    BY <1>1, <2>1, ThreadStates, Zenon DEF Open, TypeOK
  <2>4. tcp' \in [Slot -> TcpPcb \cup {NoPcb}] /\ udp' \in [Slot -> Num \cup {NoPcb}] /\ stale' \in BOOLEAN
    BY <1>1, <2>1, <2>2, Zenon DEF Open, TypeOK
  <2> QED BY <1>1, <2>1, <2>3, <2>4, SockAssumption DEF Open, TypeOK, Num
<1>2. ASSUME NEW t \in Thread, NEW d \in Desc, Alloc(t, d) PROVE TypeOK'
  BY <1>2, ThreadStates, Zenon DEF Alloc, TypeOK, Disciplined
<1>3. ASSUME NEW t \in Thread, NEW d \in Desc, Close(t, d) PROVE TypeOK'
  <2>1. socks[d] \in Sock
    BY <1>3, Zenon DEF Close, TypeOK, Disciplined
  <2> QED BY <1>3, <2>1, ThreadStates, Zenon DEF Close, TypeOK
<1>4. ASSUME NEW t \in Thread, NEW d \in Desc, NEW call \in Calls \ {"connecting"}, Call(t, d, call) PROVE TypeOK'
  <2>1. socks[d] \in Sock
    BY <1>4, Zenon DEF Call, TypeOK, Disciplined
  <2> QED BY <1>4, <2>1, ThreadStates, Zenon DEF Call, TypeOK
<1>5. ASSUME NEW t \in Thread, CloseClear(t) PROVE TypeOK'
  <2>1. thr[t].sock \in Sock
    BY <1>5, Zenon DEF CloseClear, TypeOK, Disciplined
  <2> QED BY <1>5, <2>1, ThreadStates, Zenon DEF CloseClear, TypeOK
<1>6. ASSUME NEW t \in Thread, CloseProto(t) PROVE TypeOK'
  <2>1. thr[t].sock \in Sock /\ thr[t].sock.desc \in Slot
    BY <1>6, Zenon DEF CloseProto, TypeOK, Disciplined, Sock
  <2>2. \A s \in Slot : TcpClosed(s) \in [Slot -> TcpPcb \cup {NoPcb}]
    <3> SUFFICES ASSUME NEW s \in Slot PROVE TcpClosed(s) \in [Slot -> TcpPcb \cup {NoPcb}]
      BY Zenon
    <3>1. Released(s) \in [Slot -> TcpPcb \cup {NoPcb}]
      BY Zenon DEF Released, TypeOK
    <3>2. Live(s) => [tcp EXCEPT ![s].state = "CLOSING"] \in [Slot -> TcpPcb \cup {NoPcb}]
      BY PcbForms, Zenon DEF TcpState
    <3> QED BY <3>1, <3>2, Zenon DEF TcpClosed, TypeOK
  <2>3. tcp' \in [Slot -> TcpPcb \cup {NoPcb}] /\ udp' \in [Slot -> Num \cup {NoPcb}]
    BY <1>6, <2>1, <2>2, Zenon DEF CloseProto, TypeOK
  <2> QED BY <1>6, <2>3, ThreadStates, Zenon DEF CloseProto, TypeOK
<1>7. ASSUME NEW t \in Thread, Listen(t) \/ Connect(t) \/ ConnectFails(t) PROVE TypeOK'
  <2>1. thr[t].sock \in Sock /\ thr[t].sock.desc \in Slot
    BY <1>7, Zenon DEF Listen, Connect, ConnectFails, TypeOK, Disciplined, Sock
  <2>2. tcp' \in [Slot -> TcpPcb \cup {NoPcb}]
    <3>1. CASE Listen(t)
      BY <2>1, <3>1, PcbForms, Zenon DEF Listen, TcpState
    <3>2. CASE Connect(t)
      BY <2>1, <3>2, PcbForms, Zenon DEF Connect, TcpState
    <3>3. CASE ConnectFails(t)
      BY <2>1, <3>3, PcbForms, Zenon DEF ConnectFails, TcpState
    <3> QED BY <1>7, <3>1, <3>2, <3>3, Zenon
  <2>3. thr' \in [Thread -> ThreadState]
    BY <1>7, ThreadStates DEF Listen, Connect, ConnectFails, TypeOK, ThreadState, Calls
  <2> QED BY <1>7, <2>2, <2>3, Zenon DEF Listen, Connect, ConnectFails, TypeOK
<1>8. ASSUME NEW t \in Thread, Accept(t) PROVE TypeOK'
  <2> DEFINE s == thr[t].sock.desc  c == Head(tcp[s].backlog)
  <2>1. thr[t].sock \in Sock /\ s \in Slot
    BY <1>8, Zenon DEF Accept, TypeOK, Disciplined, Sock
  <2>2. tcp[s] \in TcpPcb /\ tcp[s].backlog \in Seq(Slot) /\ tcp[s].backlog # <<>>
    BY <1>8, <2>1, PcbForms, Zenon DEF Accept, TcpPcb
  <2>3. c \in Slot /\ Tail(tcp[s].backlog) \in Seq(Slot)
    BY <2>2
  <2>4. tcp' \in [Slot -> TcpPcb \cup {NoPcb}]
    <3>1. [tcp[s] EXCEPT !.backlog = Tail(@)] \in TcpPcb
      BY <2>2, <2>3, Zenon DEF TcpPcb
    <3> QED BY <1>8, <2>1, <3>1, Zenon DEF Accept, TypeOK
  <2>5. Live(c) => tcp[c].num \in Num /\ [thr[t].sock EXCEPT !.desc = c, !.num = tcp[c].num] \in Sock
    BY <2>1, <2>3, PcbForms, Zenon DEF Sock, TcpPcb
  <2>6. thr' \in [Thread -> ThreadState] /\ given' \subseteq Num
    <3> DEFINE k == [thr[t].sock EXCEPT !.desc = c, !.num = tcp[c].num]
    <3>1. CASE Live(c)
      <4>1. thr' = [thr EXCEPT ![t] = At("alloc", -1, k)] /\ given' = given \cup {tcp[c].num}
        BY <1>8, <3>1, Zenon DEF Accept
      <4>2. At("alloc", -1, k) \in ThreadState
        BY <2>5, <3>1, ThreadStates, Zenon
      <4> HIDE DEF k
      <4> QED BY <2>5, <3>1, <4>1, <4>2, Zenon DEF TypeOK
    <3>2. CASE ~Live(c)
      BY <1>8, <3>2, Zenon DEF Accept, TypeOK
    <3> QED BY <3>1, <3>2, Zenon
  <2> QED BY <1>8, <2>4, <2>6, Zenon DEF Accept, TypeOK
<1>9. ASSUME NEW t \in Thread, Return(t) PROVE TypeOK'
  BY <1>9, ThreadStates, Zenon DEF Return, TypeOK
<1>10. ASSUME NEW l \in Slot, NEW s \in Slot, NewConnection(l, s) PROVE TypeOK'
  <2>1. NewPcb("SYN_RECEIVED", l) \in TcpPcb
    BY <1>10, PcbForms, Zenon DEF NewConnection, TcpState
  <2>2. tcp' \in [Slot -> TcpPcb \cup {NoPcb}] /\ stale' \in BOOLEAN
    BY <1>10, <2>1, Zenon DEF NewConnection, TypeOK
  <2> QED BY <1>10, <2>2, SockAssumption DEF NewConnection, TypeOK
<1>11. ASSUME NEW s \in Slot, Established(s) PROVE TypeOK'
  <2> DEFINE p == tcp[s].parent  up == [tcp EXCEPT ![s].state = "ESTABLISHED"]
  <2>1. p \in Slot /\ up \in [Slot -> TcpPcb \cup {NoPcb}]
    BY <1>11, PcbForms, Zenon DEF Established, TcpState, TcpPcb
  <2>2. Live(p) => up[p] \in TcpPcb
    <3>1. up[p] = IF p = s THEN [tcp[s] EXCEPT !.state = "ESTABLISHED"] ELSE tcp[p]
      BY <2>1, Zenon DEF TypeOK
    <3>2. [tcp[s] EXCEPT !.state = "ESTABLISHED"] \in TcpPcb
      <4>1. tcp[s] \in TcpPcb
        BY <1>11, PcbForms, Zenon DEF Established
      <4>2. "ESTABLISHED" \in TcpState
        BY Zenon DEF TcpState
      <4> QED BY <4>1, <4>2, PcbUpdates, Zenon
    <3> QED BY <2>1, <3>1, <3>2, PcbForms, Zenon
  <2>3. Live(p) => [up EXCEPT ![p].backlog = Append(@, s)] \in [Slot -> TcpPcb \cup {NoPcb}]
    <3> HIDE DEF up
    <3>1. Live(p) => [up[p] EXCEPT !.backlog = Append(@, s)] \in TcpPcb
      <4>1. SUFFICES ASSUME Live(p) PROVE [up[p] EXCEPT !.backlog = Append(@, s)] \in TcpPcb
        BY Zenon
      <4> HIDE DEF p
      <4>2. up[p] \in TcpPcb /\ up[p].backlog \in Seq(Slot)
        BY <2>2, <4>1, PcbUpdates, Zenon
      <4>3. Append(up[p].backlog, s) \in Seq(Slot)
        BY <4>2
      <4> QED BY <4>2, <4>3, PcbUpdates, Zenon
    <3> QED BY <2>1, <3>1, Zenon
  <2>4. tcp' \in [Slot -> TcpPcb \cup {NoPcb}]
    BY <1>11, <2>1, <2>3, Zenon DEF Established
  <2> QED BY <1>11, <2>4, Zenon DEF Established, TypeOK
<1>12. ASSUME NEW s \in Slot, Reset(s) PROVE TypeOK'
  <2>1. tcp' \in [Slot -> TcpPcb \cup {NoPcb}]
    BY <1>12, ReleasedTable, Zenon DEF Reset
  <2>2. \A x \in Drained(s) : Live(x) => tcp[x].num \in Num
    BY PcbForms, Zenon DEF Drained, TcpPcb
  <2> QED BY <1>12, <2>1, <2>2, Zenon DEF Reset, TypeOK
<1>13. ASSUME NEW s \in Slot, TimedOut(s) PROVE TypeOK'
  <2>1. tcp' \in [Slot -> TcpPcb \cup {NoPcb}]
    BY <1>13, PcbForms, Zenon DEF TimedOut, TcpState
  <2> QED BY <1>13, <2>1, Zenon DEF TimedOut, TypeOK
<1> QED
  BY <1>1, <1>2, <1>3, <1>4, <1>5, <1>6, <1>7, <1>8, <1>9, <1>10, <1>11, <1>12, <1>13, Zenon DEF Next, Step, Network

\* A thread that returns to the application leaves the discipline as it is.
LEMMA IdleDisciplined ==
  ASSUME TypeOK, Disciplined, NEW t \in Thread, NEW r, thr' = [thr EXCEPT ![t] = r],
         r = Idle \/ (r.pc \in {"alloc", "proto"} /\ r.sock \in Sock),
         socks' = socks, held' = held
  PROVE  Disciplined'
<1>1. \A u \in Thread : thr'[u] = IF u = t THEN r ELSE thr[u]
  BY Zenon DEF TypeOK
<1>2. r.pc \notin Calls \cup {"clear"} /\ (r.pc # "idle" => r.sock \in Sock)
  BY ThreadStates, Zenon DEF Calls
<1> QED BY <1>1, <1>2 DEF Disciplined

\* A step preserves the discipline.
LEMMA DisciplineKept == TypeOK /\ Disciplined /\ Next => Disciplined'
<1> SUFFICES ASSUME TypeOK, Disciplined, Next PROVE Disciplined'
  BY Zenon
<1>1. ASSUME NEW t \in Thread, NEW ty \in {"STREAM", "DGRAM"}, NEW s \in Slot, Open(t, ty, s) PROVE Disciplined'
  <2> DEFINE k == [ty |-> ty, desc |-> s, num |-> pcbs + 1]
  <2>1. k \in Sock
    BY <1>1, SockAssumption DEF Open, TypeOK, Num, Sock
  <2>2. thr' = [thr EXCEPT ![t] = At("alloc", -1, k)] /\ socks' = socks /\ held' = held
    BY <1>1, Zenon DEF Open
  <2> HIDE DEF k
  <2>3. At("alloc", -1, k).pc = "alloc" /\ At("alloc", -1, k).sock = k
    BY ThreadStates
  <2> QED BY <2>1, <2>2, <2>3, IdleDisciplined, Zenon
<1>2. ASSUME NEW t \in Thread, NEW d \in Desc, Alloc(t, d) PROVE Disciplined'
  <2>1. \A u \in Thread : thr'[u] = IF u = t THEN Idle ELSE thr[u]
    BY <1>2, Zenon DEF Alloc, TypeOK
  <2>2. /\ \A x \in Desc : socks'[x] = IF x = d THEN thr[t].sock ELSE socks[x]
        /\ thr[t].sock \in Sock /\ socks[d] = NoSock /\ held' = held \cup {d} /\ d \notin held
    BY <1>2, Zenon DEF Alloc, TypeOK, Disciplined, FirstFree
  <2>3. \A u \in Thread : thr[u].pc \in Calls \cup {"clear"} => thr[u].d \in Desc /\ thr[u].d # d
    <3>1. \A u \in Thread : thr[u].pc \in Calls => thr[u].d \in Desc /\ thr[u].d # d
      BY <2>2, Zenon DEF Disciplined, TypeOK
    <3>2. \A u \in Thread : thr[u].pc = "clear" => thr[u].sock \in Sock /\ thr[u].d \in Desc /\ socks[thr[u].d] = thr[u].sock
      BY Zenon DEF Disciplined
    <3> QED BY <2>2, <3>1, <3>2, SockAssumption, Zenon
  <2>4. \A x \in held' : socks'[x] # NoSock
    BY <2>2, SockAssumption, Zenon DEF Disciplined, TypeOK
  <2>5. Idle.pc \notin Calls \cup {"clear"} /\ Idle.pc = "idle"
    BY ThreadStates, Zenon DEF Calls
  <2> QED BY <2>1, <2>2, <2>3, <2>4, <2>5 DEF Disciplined
<1>3. ASSUME NEW t \in Thread, NEW d \in Desc, Close(t, d) PROVE Disciplined'
  <2>1. \A u \in Thread : thr'[u] = IF u = t THEN At("clear", d, socks[d]) ELSE thr[u]
    BY <1>3, Zenon DEF Close, TypeOK
  <2>2. socks' = socks /\ held' = held \ {d} /\ d \in held /\ socks[d] \in Sock /\ \A u \in Thread : thr[u].d # d
    BY <1>3, Zenon DEF Close, TypeOK, Disciplined
  <2> QED BY <2>1, <2>2, ThreadStates DEF Disciplined, Calls
<1>4. ASSUME NEW t \in Thread, NEW d \in Desc, NEW call \in Calls \ {"connecting"}, Call(t, d, call) PROVE Disciplined'
  <2>1. \A u \in Thread : thr'[u] = IF u = t THEN At(call, d, socks[d]) ELSE thr[u]
    BY <1>4, Zenon DEF Call, TypeOK
  <2>2. socks' = socks /\ held' = held /\ d \in held /\ socks[d] \in Sock
    BY <1>4, Zenon DEF Call, TypeOK, Disciplined
  <2>3. call # "other" => socks[d].ty = "STREAM"
    BY <1>4, Zenon DEF Call, Calls
  <2> QED BY <2>1, <2>2, <2>3, ThreadStates DEF Disciplined, Calls
<1>5. ASSUME NEW t \in Thread, CloseClear(t) PROVE Disciplined'
  <2>1. \A u \in Thread : thr'[u] = IF u = t THEN At("proto", -1, thr[t].sock) ELSE thr[u]
    BY <1>5, Zenon DEF CloseClear, TypeOK
  <2>2. thr[t].d \in Desc \ held /\ thr[t].sock \in Sock /\ thr[t].pc = "clear" /\ held' = held
    BY <1>5, Zenon DEF CloseClear, Disciplined
  <2>3. \A x \in Desc : x # thr[t].d => socks'[x] = socks[x]
    BY <1>5, Zenon DEF CloseClear, TypeOK
  <2>4. \A u \in Thread : (u # t /\ thr[u].pc \in Calls \cup {"clear"}) => thr[u].d \in Desc /\ thr[u].d # thr[t].d
    BY <2>2, Zenon DEF Disciplined, TypeOK
  <2>5. At("proto", -1, thr[t].sock).pc \notin Calls \cup {"clear"} /\ At("proto", -1, thr[t].sock).sock = thr[t].sock
    BY ThreadStates DEF Calls
  <2>6. \A x \in held' : socks'[x] # NoSock
    BY <2>2, <2>3, Zenon DEF Disciplined, TypeOK
  <2> QED BY <2>1, <2>2, <2>3, <2>4, <2>5, <2>6 DEF Disciplined
<1>6. ASSUME NEW t \in Thread, CloseProto(t) \/ Listen(t) \/ ConnectFails(t) \/ Return(t) PROVE Disciplined'
  <2>1. thr' = [thr EXCEPT ![t] = Idle] /\ socks' = socks /\ held' = held
    BY <1>6, Zenon DEF CloseProto, Listen, ConnectFails, Return
  <2> QED BY <2>1, IdleDisciplined, Zenon
<1>7. ASSUME NEW t \in Thread, Connect(t) PROVE Disciplined'
  <2>1. /\ thr[t].pc = "connect" /\ socks' = socks /\ held' = held /\ thr'[t] = [thr[t] EXCEPT !.pc = "connecting"]
        /\ \A u \in Thread : u # t => thr'[u] = thr[u]
    BY <1>7, Zenon DEF Connect, TypeOK
  <2>2. thr'[t].pc = "connecting" /\ thr'[t].d = thr[t].d /\ thr'[t].sock = thr[t].sock
    BY <2>1 DEF TypeOK, ThreadState
  <2>3. \A u \in Thread : thr'[u].d = thr[u].d /\ thr'[u].sock = thr[u].sock
    BY <2>1, <2>2, Zenon
  <2>4. \A u \in Thread : /\ thr'[u].pc = "clear" <=> thr[u].pc = "clear"
                          /\ thr'[u].pc = "idle" <=> thr[u].pc = "idle"
                          /\ thr'[u].pc \in Calls <=> thr[u].pc \in Calls
                          /\ thr'[u].pc \in Calls \ {"other"} <=> thr[u].pc \in Calls \ {"other"}
    BY <2>1, <2>2, Zenon DEF Calls
  <2> QED BY <2>1, <2>3, <2>4 DEF Disciplined
<1>8. ASSUME NEW t \in Thread, Accept(t) PROVE Disciplined'
  <2> DEFINE s == thr[t].sock.desc  c == Head(tcp[s].backlog)
             k == [thr[t].sock EXCEPT !.desc = c, !.num = tcp[c].num]
  <2>1. socks' = socks /\ held' = held
    BY <1>8, Zenon DEF Accept
  <2>2. CASE Live(c)
    <3>1. thr[t].sock \in Sock /\ s \in Slot
      BY <1>8, Zenon DEF Accept, TypeOK, Disciplined, Sock
    <3>2. tcp[s].backlog \in Seq(Slot) /\ tcp[s].backlog # <<>>
      BY <1>8, <3>1, PcbForms, Zenon DEF Accept, TcpPcb
    <3>3. c \in Slot
      BY <3>2
    <3>4. k \in Sock
      BY <2>2, <3>1, <3>3, PcbForms, Zenon DEF Sock, TcpPcb
    <3>5. thr' = [thr EXCEPT ![t] = At("alloc", -1, k)]
      BY <1>8, <2>2, Zenon DEF Accept
    <3> HIDE DEF k
    <3>6. At("alloc", -1, k).pc = "alloc" /\ At("alloc", -1, k).sock = k
      BY ThreadStates
    <3> QED BY <2>1, <3>4, <3>5, <3>6, IdleDisciplined, Zenon
  <2>3. CASE ~Live(c)
    <3>1. thr' = thr
      BY <1>8, <2>3, Zenon DEF Accept
    <3> QED BY <2>1, <3>1, Zenon DEF Disciplined
  <2> QED BY <2>2, <2>3, Zenon
<1>9. ASSUME Network PROVE Disciplined'
  <2>1. socks' = socks /\ held' = held /\ thr' = thr
    BY <1>9, Zenon DEF Network, NewConnection, Established, Reset, TimedOut
  <2> QED BY <2>1, Zenon DEF Disciplined
<1> QED BY <1>1, <1>2, <1>3, <1>4, <1>5, <1>6, <1>7, <1>8, <1>9, Zenon DEF Next, Step
-----------------------------------------------------------------------------
(* The PCBs and who has them. *)

\* The part of the invariant that is about PCBs.
Owned == NumsFresh /\ NumsUnique /\ UdpOwned /\ (~stale => TcpOwned /\ Backlogs)

SameHolders ==
  /\ Holders' = Holders
  /\ \A h \in Holders : Has(h)' = Has(h)
  /\ \A ty : OfType(ty)' = OfType(ty)

\* Nothing changes for the PCBs if the tables and the holders stay.
LEMMA QuietOwned ==
  ASSUME Owned, SameHolders, UNCHANGED <<tcp, udp, pcbs, given, dropped, stale>>
  PROVE  Owned'
<1>1. \A h \in Holders : Has(h)' = Has(h)
  BY Zenon DEF SameHolders
<1>2. NumsFresh' /\ NumsUnique'
  BY Zenon DEF Owned, SameHolders, NumsFresh, NumsUnique, Live
<1>3. \A ty : \A h \in OfType(ty) : h \in OfType(ty)' /\ Has(h)' = Has(h)
  BY Zenon DEF SameHolders, OfType
<1>4. OfType("DGRAM")' = OfType("DGRAM") /\ OfType("STREAM")' = OfType("STREAM")
  BY Zenon DEF SameHolders
<1>5. UdpOwned'
  BY <1>3, <1>4 DEF Owned, UdpOwned
<1>6. ~stale' => TcpOwned'
  BY <1>3, <1>4 DEF Owned, TcpOwned, LiveNamed, LostDropped, NumHeldOnce, GivenHeld, SynUngiven, Live
<1>7. ~stale' => Backlogs'
  BY DEF Owned, Backlogs, QueuedUngiven, QueuedOnce, Queued, Live
<1> QED BY <1>2, <1>5, <1>6, <1>7, Zenon DEF Owned

\* A PCB changes its state.  One that the application was given and that leaves the states in
\* which tcp.rs is done with it needs a holder.
LEMMA StateOwned ==
  ASSUME TypeOK, Owned, SameHolders, UNCHANGED <<udp, pcbs, given, dropped, stale>>,
         NEW s \in Slot, NEW st \in TcpState \ {"SYN_RECEIVED"}, Live(s), tcp' = [tcp EXCEPT ![s].state = st],
         \/ st \in {"CLOSED", "CLOSING"}
         \/ tcp[s].num \notin given
         \/ tcp[s].state \notin {"CLOSED", "CLOSING"}
         \/ stale
         \/ \E h \in OfType("STREAM") : Has(h).num = tcp[s].num
  PROVE  Owned'
<1>1. tcp[s] \in TcpPcb /\ tcp'[s] = [tcp[s] EXCEPT !.state = st] /\ \A x \in Slot : x # s => tcp'[x] = tcp[x]
  BY PcbForms, Zenon DEF TypeOK
<1>2. tcp'[s].state = st /\ tcp'[s].num = tcp[s].num /\ tcp'[s].backlog = tcp[s].backlog /\ tcp'[s] \in TcpPcb
  BY <1>1 DEF TcpPcb
<1>3. \A x \in Slot : Live(x)' <=> Live(x)
  BY <1>1, <1>2, SockAssumption, Zenon DEF Live
<1>4. \A x \in Slot : tcp'[x].num = tcp[x].num /\ tcp'[x].backlog = tcp[x].backlog
  BY <1>1, <1>2, Zenon
<1>5. \A h \in Holders : Has(h)' = Has(h)
  BY Zenon DEF SameHolders
<1>6. \A ty : \A h \in OfType(ty) : h \in OfType(ty)' /\ Has(h)' = Has(h)
  BY Zenon DEF SameHolders, OfType
<1>7. OfType("DGRAM")' = OfType("DGRAM") /\ OfType("STREAM")' = OfType("STREAM")
  BY Zenon DEF SameHolders
<1>8. NumsFresh' /\ NumsUnique'
  BY <1>3, <1>4 DEF Owned, SameHolders, NumsFresh, NumsUnique
<1>9. UdpOwned'
  BY <1>6, <1>7 DEF Owned, UdpOwned
<1>10. ASSUME ~stale PROVE TcpOwned'
  <2>1. \A h \in OfType("STREAM") : Has(h).desc \in Slot
    BY Zenon DEF OfType, Owned, NumsFresh, Sock
  <2>2. /\ \A h \in OfType("STREAM") : Live(Has(h).desc)' => tcp'[Has(h).desc].num = Has(h).num
        /\ \A h \in OfType("STREAM") : ~Live(Has(h).desc)' => Has(h).num \in dropped
    BY <1>3, <1>4, <1>5, <1>10, <2>1, Zenon DEF Owned, TcpOwned, LiveNamed, LostDropped, OfType
  <2>3. \A x \in Slot : (Live(x)' /\ tcp'[x].num \in given /\ tcp'[x].state \notin {"CLOSED", "CLOSING"})
          => \E h \in OfType("STREAM") : Has(h).num = tcp'[x].num
    BY <1>1, <1>2, <1>3, <1>4, <1>10 DEF Owned, TcpOwned, GivenHeld
  <2>4. \A x \in Slot : (Live(x)' /\ tcp'[x].state = "SYN_RECEIVED") => tcp'[x].num \notin given
    BY <1>1, <1>2, <1>3, <1>4, <1>10, Zenon DEF Owned, TcpOwned, SynUngiven
  <2> QED BY <1>6, <1>7, <1>10, <2>2, <2>3, <2>4 DEF Owned, TcpOwned, LiveNamed, LostDropped, NumHeldOnce, GivenHeld, SynUngiven
<1>11. ASSUME ~stale PROVE Backlogs'
  <2>1. \A x \in Slot : \A i : Queued(x, i)' <=> Queued(x, i)
    BY <1>3, <1>4, Zenon DEF Queued
  <2>2. \A x \in Slot : \A i : Queued(x, i) => tcp[x].backlog[i] \in Slot
    BY PcbForms DEF Queued, TcpPcb
  <2> QED BY <1>1, <1>2, <1>3, <1>4, <1>11, <2>1, <2>2 DEF Owned, Backlogs, QueuedUngiven, QueuedOnce
<1> QED BY <1>8, <1>9, <1>10, <1>11, Zenon DEF Owned

\* A SYN: a PCB for a new connection in a free slot that nothing names, or the end of ~stale.
LEMMA NewConnectionOwned ==
  ASSUME TypeOK, Owned, SameHolders, NEW l \in Slot, NEW s \in Slot, NewConnection(l, s)
  PROVE  Owned'
<1> DEFINE r == NewPcb("SYN_RECEIVED", l)
<1>1. /\ tcp'[s] = r /\ r \in TcpPcb /\ r.num = pcbs + 1 /\ r.state = "SYN_RECEIVED" /\ r.backlog = <<>>
      /\ \A x \in Slot : x # s => tcp'[x] = tcp[x]
      /\ ~Live(s) /\ Live(s)' /\ \A x \in Slot : x # s => (Live(x)' <=> Live(x))
      /\ pcbs \in Nat /\ pcbs' = pcbs + 1 /\ given' = given /\ dropped' = dropped /\ udp' = udp
  <2>1. r \in TcpPcb /\ r.num = pcbs + 1 /\ r.state = "SYN_RECEIVED" /\ r.backlog = <<>>
    BY PcbForms, Zenon DEF NewConnection, NewPcb, TcpState
  <2>2. tcp'[s] = r /\ \A x \in Slot : x # s => tcp'[x] = tcp[x]
    BY Zenon DEF NewConnection, TypeOK
  <2> HIDE DEF r
  <2> QED BY <2>1, <2>2, SockAssumption DEF NewConnection, FirstFree, Live, TypeOK
<1> HIDE DEF r
<1>2. \A h \in Holders : Has(h)' = Has(h)
  BY Zenon DEF SameHolders
<1>3. \A ty : \A h \in OfType(ty) : h \in OfType(ty)' /\ Has(h)' = Has(h)
  BY Zenon DEF SameHolders, OfType
<1>4. OfType("DGRAM")' = OfType("DGRAM") /\ OfType("STREAM")' = OfType("STREAM")
  BY Zenon DEF SameHolders
<1>5. /\ \A x \in Slot : (udp[x] # NoPcb => udp[x] \in Nat) /\ (Live(x) => tcp[x].num \in Nat)
      /\ \A n \in given \cup dropped : n \in Nat
  BY PcbForms DEF TypeOK, Num, TcpPcb
<1>6. NumsFresh'
  <2>1. \A x \in Slot : Live(x)' => tcp'[x].num <= pcbs'
    BY <1>1, <1>5 DEF Owned, NumsFresh
  <2>2. (\A x \in Slot : udp'[x] # NoPcb => udp'[x] <= pcbs') /\ (\A n \in given' \cup dropped' : n <= pcbs')
    BY <1>1, <1>5 DEF Owned, NumsFresh
  <2> QED BY <1>1, <1>2, <2>1, <2>2, Zenon DEF SameHolders, Owned, NumsFresh
<1>7. NumsUnique'
  <2>1. \A x \in Slot : Live(x) => tcp[x].num # pcbs + 1
    BY <1>1, <1>5 DEF Owned, NumsFresh
  <2>2. pcbs + 1 \notin given /\ pcbs + 1 \notin dropped
    BY <1>1, <1>5 DEF Owned, NumsFresh
  <2> QED BY <1>1, <2>1, <2>2, Zenon DEF Owned, NumsUnique
<1>8. UdpOwned'
  BY <1>1, <1>3, <1>4 DEF Owned, UdpOwned
<1>9. ASSUME ~stale' PROVE TcpOwned' /\ Backlogs'
  <2>1. ~stale /\ ~Dangling(s)
    BY <1>9, Zenon DEF NewConnection, TypeOK
  <2>2. \A h \in OfType("STREAM") : Has(h).desc \in Slot /\ Has(h).desc # s
    BY <1>1, <2>1, Zenon DEF OfType, Owned, NumsFresh, Sock, TcpOwned, LiveNamed, LostDropped, Dangling
  <2>3. pcbs + 1 \notin given
    BY <1>1, <1>5 DEF Owned, NumsFresh
  <2>4. TcpOwned'
    <3>1. /\ \A h \in OfType("STREAM") : Live(Has(h).desc)' => tcp'[Has(h).desc].num = Has(h).num
          /\ \A h \in OfType("STREAM") : ~Live(Has(h).desc)' => Has(h).num \in dropped
      BY <1>1, <1>3, <2>1, <2>2, Zenon DEF Owned, TcpOwned, LiveNamed, LostDropped
    <3>2. \A x \in Slot : (Live(x)' /\ tcp'[x].num \in given /\ tcp'[x].state \notin {"CLOSED", "CLOSING"})
            => \E h \in OfType("STREAM") : Has(h).num = tcp'[x].num
      BY <1>1, <2>1, <2>3, Zenon DEF Owned, TcpOwned, GivenHeld
    <3>3. \A x \in Slot : (Live(x)' /\ tcp'[x].state = "SYN_RECEIVED") => tcp'[x].num \notin given
      BY <1>1, <2>1, <2>3, Zenon DEF Owned, TcpOwned, SynUngiven
    <3> QED BY <1>1, <1>3, <1>4, <2>1, <3>1, <3>2, <3>3 DEF Owned, TcpOwned, LiveNamed, LostDropped, NumHeldOnce, GivenHeld, SynUngiven
  <2>5. Backlogs'
    <3>1. \A x \in Slot : \A i : Queued(x, i)' => x # s /\ Queued(x, i) /\ tcp'[x] = tcp[x]
      BY <1>1 DEF Queued
    <3>2. \A x \in Slot : \A i : Queued(x, i) => tcp[x].backlog[i] \in Slot
      BY PcbForms DEF Queued, TcpPcb
    <3>3. \A x \in Slot : \A i : Queued(x, i) => tcp[x].backlog[i] # s
      BY <2>1, Zenon DEF Dangling, Queued, Range
    <3>4. ASSUME NEW x \in Slot, NEW i \in Nat, Queued(x, i)', Live(tcp[x].backlog[i])'
          PROVE  tcp'[tcp[x].backlog[i]].num \notin given /\ tcp'[tcp[x].backlog[i]].state # "SYN_RECEIVED"
      BY <1>1, <2>1, <3>1, <3>2, <3>3, <3>4, Zenon DEF Owned, Backlogs, QueuedUngiven
    <3>5. ASSUME NEW x \in Slot, NEW y \in Slot, NEW i \in Nat, NEW j \in Nat,
                 Queued(x, i)', Queued(y, j)', tcp'[x].backlog[i] = tcp'[y].backlog[j]
          PROVE  x = y /\ i = j
      BY <2>1, <3>1, <3>5 DEF Owned, Backlogs, QueuedOnce
    <3> QED BY <1>1, <3>1, <3>4, <3>5 DEF Backlogs, QueuedUngiven, QueuedOnce
  <2> QED BY <2>4, <2>5, Zenon
<1> QED BY <1>6, <1>7, <1>8, <1>9, Zenon DEF Owned

\* A segment releases PCBs: their numbers are dropped, their holders keep names of free slots.
LEMMA ResetOwned ==
  ASSUME TypeOK, Owned, SameHolders, NEW s \in Slot, Reset(s)
  PROVE  Owned'
<1>1. /\ \A x \in Slot : Live(x)' => Live(x) /\ tcp'[x] = tcp[x]
      /\ \A x \in Slot : ~Live(x)' => ~Live(x) \/ x \in Drained(s)
      /\ \A x \in Drained(s) : ~Live(x)' /\ x \in Slot
  <2>1. \A x \in Drained(s) : x \in Slot
    BY Zenon DEF Drained
  <2> QED BY <2>1, ReleasedTable, Zenon DEF Reset
<1>2. /\ dropped' = dropped \cup {tcp[x].num : x \in {y \in Drained(s) : Live(y)}}
      /\ udp' = udp /\ pcbs' = pcbs /\ given' = given /\ stale' = stale
  BY Zenon DEF Reset
<1>3. \A h \in Holders : Has(h)' = Has(h)
  BY Zenon DEF SameHolders
<1>4. \A ty : \A h \in OfType(ty) : h \in OfType(ty)' /\ Has(h)' = Has(h)
  BY Zenon DEF SameHolders, OfType
<1>5. OfType("DGRAM")' = OfType("DGRAM") /\ OfType("STREAM")' = OfType("STREAM")
  BY Zenon DEF SameHolders
<1>6. NumsFresh'
  BY <1>1, <1>2, <1>3, Zenon DEF SameHolders, Owned, NumsFresh
<1>7. NumsUnique'
  BY <1>1, <1>2, Zenon DEF Owned, NumsUnique
<1>8. UdpOwned'
  BY <1>2, <1>4, <1>5 DEF Owned, UdpOwned
<1>9. ASSUME ~stale PROVE TcpOwned' /\ Backlogs'
  <2>1. \A h \in OfType("STREAM") : Has(h).desc \in Slot
    BY Zenon DEF OfType, Owned, NumsFresh, Sock
  <2>2. /\ \A h \in OfType("STREAM") : Live(Has(h).desc)' => tcp'[Has(h).desc].num = Has(h).num
        /\ \A h \in OfType("STREAM") : ~Live(Has(h).desc)' => Has(h).num \in dropped'
    BY <1>1, <1>2, <1>4, <1>9, <2>1, Zenon DEF Owned, TcpOwned, LiveNamed, LostDropped
  <2>3. TcpOwned'
    BY <1>1, <1>2, <1>4, <1>5, <1>9, <2>2 DEF Owned, TcpOwned, LiveNamed, LostDropped, NumHeldOnce, GivenHeld, SynUngiven
  <2>4. \A x \in Slot : \A i : Queued(x, i)' => Queued(x, i) /\ tcp'[x] = tcp[x]
    BY <1>1, Zenon DEF Queued
  <2>5. \A x \in Slot : \A i : Queued(x, i) => tcp[x].backlog[i] \in Slot
    BY PcbForms DEF Queued, TcpPcb
  <2>6. Backlogs'
    BY <1>1, <1>2, <1>9, <2>4, <2>5 DEF Owned, Backlogs, QueuedUngiven, QueuedOnce
  <2> QED BY <2>3, <2>6, Zenon
<1> QED BY <1>2, <1>6, <1>7, <1>8, <1>9, Zenon DEF Owned

\* The end of a handshake of a new connection: its PCB, which nobody was given and which no
\* backlog has, joins a backlog.
LEMMA QueueOwned ==
  ASSUME TypeOK, Owned, SameHolders, NEW s \in Slot, Established(s), tcp[s].state = "SYN_RECEIVED",
         Live(tcp[s].parent)
  PROVE  Owned'
<1> DEFINE p == tcp[s].parent
<1>1. p \in Slot /\ Live(s) /\ Live(p) /\ tcp[p].backlog \in Seq(Slot) /\ tcp[s] \in TcpPcb /\ tcp[p] \in TcpPcb
  BY PcbForms, PcbUpdates, Zenon DEF Established
<1>2. tcp' = [[tcp EXCEPT ![s].state = "ESTABLISHED"] EXCEPT ![p].backlog = Append(@, s)]
  BY Zenon DEF Established
<1>3. /\ \A x \in Slot : (x # s /\ x # p) => tcp'[x] = tcp[x]
      /\ \A x \in Slot : tcp'[x].state = IF x = s THEN "ESTABLISHED" ELSE tcp[x].state
      /\ \A x \in Slot : Live(x) => tcp'[x].num = tcp[x].num
      /\ \A x \in Slot : Live(x) => tcp'[x].backlog = IF x = p THEN Append(tcp[p].backlog, s) ELSE tcp[x].backlog
      /\ \A x \in Slot : Live(x) => tcp'[x] \in TcpPcb
      /\ \A x \in Slot : ~Live(x) => tcp'[x] = tcp[x]
  <2> DEFINE up == [tcp EXCEPT ![s].state = "ESTABLISHED"]
  <2>1. up[s] = [tcp[s] EXCEPT !.state = "ESTABLISHED"] /\ \A x \in Slot : x # s => up[x] = tcp[x]
    BY Zenon DEF TypeOK
  <2>2. up[s].state = "ESTABLISHED" /\ up[s].num = tcp[s].num /\ up[s].backlog = tcp[s].backlog /\ up[s] \in TcpPcb
    BY <1>1, <2>1 DEF TcpPcb, TcpState
  <2>3. DOMAIN up = Slot
    BY Zenon DEF TypeOK
  <2> HIDE DEF up
  <2>4. up[p] \in TcpPcb /\ up[p].backlog = tcp[p].backlog /\ up[p].num = tcp[p].num
    BY <1>1, <2>1, <2>2, Zenon
  <2>5. tcp'[p] = [up[p] EXCEPT !.backlog = Append(tcp[p].backlog, s)] /\ \A x \in Slot : x # p => tcp'[x] = up[x]
    <3>1. tcp' = [up EXCEPT ![p].backlog = Append(@, s)]
      BY <1>2, Zenon DEF up
    <3> HIDE DEF p
    <3> QED BY <1>1, <2>3, <2>4, <3>1, Zenon
  <2>6. tcp'[p] \in TcpPcb /\ tcp'[p].backlog = Append(tcp[p].backlog, s) /\ tcp'[p].num = tcp[p].num /\ tcp'[p].state = up[p].state
    <3>1. Append(tcp[p].backlog, s) \in Seq(Slot)
      BY <1>1
    <3> HIDE DEF p
    <3> QED BY <2>4, <2>5, <3>1, Zenon DEF TcpPcb
  <2> HIDE DEF p
  <2>7. \A x \in Slot : Live(x) => tcp[x] \in TcpPcb
    BY PcbForms, Zenon
  <2>8. ASSUME NEW x \in Slot
        PROVE  /\ (x # s /\ x # p) => tcp'[x] = tcp[x]
               /\ tcp'[x].state = IF x = s THEN "ESTABLISHED" ELSE tcp[x].state
               /\ tcp'[x].num = tcp[x].num
               /\ tcp'[x].backlog = IF x = p THEN Append(tcp[p].backlog, s) ELSE tcp[x].backlog
               /\ Live(x) => tcp'[x] \in TcpPcb
    <3>1. CASE x = p
      BY <1>1, <2>1, <2>2, <2>6, <3>1, Zenon
    <3>2. CASE x # p /\ x = s
      BY <2>2, <2>5, <3>2, Zenon
    <3>3. CASE x # p /\ x # s
      BY <2>1, <2>5, <2>7, <3>3, Zenon
    <3> QED BY <3>1, <3>2, <3>3, Zenon
  <2> QED BY <1>1, <2>8, Zenon
<1>4. \A x \in Slot : Live(x)' <=> Live(x)
  BY <1>3, SockAssumption, Zenon DEF Live
<1>5. udp' = udp /\ pcbs' = pcbs /\ given' = given /\ dropped' = dropped /\ stale' = stale
  BY Zenon DEF Established
<1>6. \A h \in Holders : Has(h)' = Has(h)
  BY Zenon DEF SameHolders
<1>7. \A ty : \A h \in OfType(ty) : h \in OfType(ty)' /\ Has(h)' = Has(h)
  BY Zenon DEF SameHolders, OfType
<1>8. OfType("DGRAM")' = OfType("DGRAM") /\ OfType("STREAM")' = OfType("STREAM")
  BY Zenon DEF SameHolders
<1> HIDE DEF p
<1>9. NumsFresh' /\ NumsUnique'
  BY <1>3, <1>4, <1>5, <1>6 DEF Owned, SameHolders, NumsFresh, NumsUnique
<1>10. UdpOwned'
  BY <1>5, <1>7, <1>8 DEF Owned, UdpOwned
<1>11. ASSUME ~stale PROVE TcpOwned'
  <2>1. \A h \in OfType("STREAM") : Has(h).desc \in Slot
    BY Zenon DEF OfType, Owned, NumsFresh, Sock
  <2>2. /\ \A h \in OfType("STREAM") : Live(Has(h).desc)' => tcp'[Has(h).desc].num = Has(h).num
        /\ \A h \in OfType("STREAM") : ~Live(Has(h).desc)' => Has(h).num \in dropped
    BY <1>3, <1>4, <1>7, <1>11, <2>1, Zenon DEF Owned, TcpOwned, LiveNamed, LostDropped
  <2>3. tcp[s].num \notin given
    BY <1>1, <1>11, Zenon DEF Owned, TcpOwned, SynUngiven
  <2>4. \A x \in Slot : (Live(x)' /\ tcp'[x].num \in given /\ tcp'[x].state \notin {"CLOSED", "CLOSING"})
          => \E h \in OfType("STREAM") : Has(h).num = tcp'[x].num
    BY <1>3, <1>4, <1>11, <2>3, Zenon DEF Owned, TcpOwned, GivenHeld
  <2>5. \A x \in Slot : (Live(x)' /\ tcp'[x].state = "SYN_RECEIVED") => tcp'[x].num \notin given
    BY <1>3, <1>4, <1>11, Zenon DEF Owned, TcpOwned, SynUngiven
  <2> QED BY <1>5, <1>7, <1>8, <1>11, <2>2, <2>4, <2>5 DEF Owned, TcpOwned, LiveNamed, LostDropped, NumHeldOnce, GivenHeld, SynUngiven
<1>12. ASSUME ~stale PROVE Backlogs'
  <2>1. \A x \in Slot : \A i : Queued(x, i) => tcp[x].backlog[i] \in Slot
    BY PcbForms DEF Queued, TcpPcb
  <2>2. \A x \in Slot : \A i \in Nat : Queued(x, i) => tcp[x].backlog[i] # s
    BY <1>1, <1>12 DEF Owned, Backlogs, QueuedUngiven, QueuedOnce
  <2> DEFINE n == Len(tcp[p].backlog) + 1
  <2>3. \A x \in Slot : \A i \in Nat : Queued(x, i)' =>
          \/ Queued(x, i) /\ tcp'[x].backlog[i] = tcp[x].backlog[i]
          \/ x = p /\ i = n /\ tcp'[x].backlog[i] = s
    <3>1. /\ \A i \in DOMAIN Append(tcp[p].backlog, s) : i \in DOMAIN tcp[p].backlog \/ i = n
          /\ \A i \in DOMAIN tcp[p].backlog : Append(tcp[p].backlog, s)[i] = tcp[p].backlog[i]
          /\ Append(tcp[p].backlog, s)[n] = s
      BY <1>1
    <3> QED BY <1>1, <1>3, <1>4, <3>1, Zenon DEF Queued
  <2> HIDE DEF n
  <2>4. tcp[s].num \notin given
    BY <1>1, <1>12, Zenon DEF Owned, TcpOwned, LiveNamed, LostDropped, NumHeldOnce, GivenHeld, SynUngiven
  <2>5. ASSUME NEW x \in Slot, NEW i \in Nat, Queued(x, i)', Live(tcp'[x].backlog[i])
        PROVE  tcp'[tcp'[x].backlog[i]].num \notin given /\ tcp'[tcp'[x].backlog[i]].state # "SYN_RECEIVED"
    <3>1. CASE Queued(x, i) /\ tcp'[x].backlog[i] = tcp[x].backlog[i]
      BY <1>3, <1>12, <2>1, <2>5, <3>1 DEF Owned, Backlogs, QueuedUngiven, QueuedOnce
    <3>2. CASE tcp'[x].backlog[i] = s
      BY <1>1, <1>3, <2>4, <3>2, Zenon
    <3> QED BY <2>3, <2>5, <3>1, <3>2, Zenon
  <2>6. ASSUME NEW x \in Slot, NEW y \in Slot, NEW i \in Nat, NEW j \in Nat,
               Queued(x, i)', Queued(y, j)', tcp'[x].backlog[i] = tcp'[y].backlog[j]
        PROVE  x = y /\ i = j
    BY <1>12, <2>2, <2>3, <2>6 DEF Owned, Backlogs, QueuedOnce
  <2>7. \A x \in Slot : \A i \in Nat : Queued(x, i)' => tcp'[x].backlog[i] \in Slot
    BY <2>1, <2>3, Zenon
  <2> QED BY <1>4, <1>5, <2>5, <2>6, <2>7, Zenon DEF Backlogs, QueuedUngiven, QueuedOnce
<1> QED BY <1>5, <1>9, <1>10, <1>11, <1>12, Zenon DEF Owned

\* A PCB goes from one holder to another.
LEMMA MoveOwned ==
  ASSUME Owned, UNCHANGED <<tcp, udp, pcbs, given, dropped, stale>>,
         NEW a \in Holders, NEW b, b \notin Holders, Holders' = (Holders \ {a}) \cup {b}, Has(b)' = Has(a),
         \A h \in Holders : h # a => Has(h)' = Has(h)
  PROVE  Owned'
<1> DEFINE was(h) == IF h = b THEN a ELSE h
<1>1. \A ty : \A h \in OfType(ty)' : was(h) \in OfType(ty) /\ Has(h)' = Has(was(h))
  BY Zenon DEF OfType
<1>2. \A ty : \A h \in OfType(ty) : \E g \in OfType(ty)' : Has(g)' = Has(h)
  BY Zenon DEF OfType
<1>3. \A g, h \in Holders' : was(g) = was(h) => g = h
  BY Zenon
<1>4. NumsFresh' /\ NumsUnique'
  <2>1. \A h \in Holders' : was(h) \in Holders /\ Has(h)' = Has(was(h))
    BY Zenon
  <2> HIDE DEF was
  <2>2. \A h \in Holders' : Has(h)' \in Sock /\ Has(h)'.num \in given
    BY <2>1, Zenon DEF Owned, NumsFresh
  <2> QED BY <2>2, Zenon DEF Owned, NumsFresh, NumsUnique, Live
<1>5. \A ty : \A h \in OfType(ty)' : h \in Holders'
  BY Zenon DEF OfType
<1> HIDE DEF was
<1>6. UdpOwned'
  BY <1>1, <1>2, <1>3, <1>5 DEF Owned, UdpOwned
<1>7. ~stale' => TcpOwned'
  <2> SUFFICES ASSUME ~stale PROVE TcpOwned'
    BY Zenon
  <2>1. \A s \in Slot : Live(s)' <=> Live(s)
    BY Zenon DEF Live
  <2>2. /\ \A h \in OfType("STREAM")' : Live(Has(h).desc)' => tcp'[Has(h)'.desc].num = Has(h)'.num
        /\ \A h \in OfType("STREAM")' : ~Live(Has(h).desc)' => Has(h)'.num \in dropped
    BY <1>1 DEF Owned, TcpOwned, LiveNamed, LostDropped, NumHeldOnce, GivenHeld, SynUngiven, Live
  <2>3. \A g, h \in OfType("STREAM")' : Has(g)'.num = Has(h)'.num => g = h
    BY <1>1, <1>3, <1>5 DEF Owned, TcpOwned, LiveNamed, LostDropped, NumHeldOnce, GivenHeld, SynUngiven
  <2>4. \A s \in Slot : (Live(s)' /\ tcp'[s].num \in given' /\ tcp'[s].state \notin {"CLOSED", "CLOSING"})
          => \E h \in OfType("STREAM")' : Has(h)'.num = tcp'[s].num
    BY <1>2, <2>1 DEF Owned, TcpOwned, LiveNamed, LostDropped, NumHeldOnce, GivenHeld, SynUngiven
  <2> QED BY <2>1, <2>2, <2>3, <2>4, Zenon DEF Owned, TcpOwned, LiveNamed, LostDropped, NumHeldOnce, GivenHeld, SynUngiven
<1>8. ~stale' => Backlogs'
  BY DEF Owned, Backlogs, QueuedUngiven, QueuedOnce, Queued, Live
<1> QED BY <1>4, <1>6, <1>7, <1>8, Zenon DEF Owned

\* The numbers after a PCB was made with the next one.
LEMMA NextNum ==
  ASSUME TypeOK, Owned
  PROVE  /\ pcbs \in Nat /\ pcbs + 1 \notin given /\ pcbs + 1 \notin dropped
         /\ \A x \in given \cup dropped : x <= pcbs + 1
         /\ \A x \in Slot : udp[x] # NoPcb => udp[x] # pcbs + 1 /\ udp[x] <= pcbs + 1
         /\ \A x \in Slot : Live(x) => tcp[x].num # pcbs + 1 /\ tcp[x].num <= pcbs + 1
         /\ \A h \in Holders : Has(h).num # pcbs + 1
<1>1. /\ \A x \in Slot : (udp[x] # NoPcb => udp[x] \in Nat) /\ (Live(x) => tcp[x].num \in Nat)
      /\ \A n \in given \cup dropped : n \in Nat
      /\ pcbs \in Nat
  BY PcbForms DEF TypeOK, Num, TcpPcb
<1>2. pcbs + 1 \notin given /\ pcbs + 1 \notin dropped
  BY <1>1 DEF Owned, NumsFresh
<1>3. \A h \in Holders : Has(h).num # pcbs + 1
  BY <1>2, Zenon DEF Owned, NumsFresh
<1> QED BY <1>1, <1>2, <1>3 DEF Owned, NumsFresh

\* open of a datagram socket.
LEMMA OpenUdpOwned ==
  ASSUME TypeOK, Owned, NEW t \in Thread, NEW s \in Slot, Open(t, "DGRAM", s)
  PROVE  Owned'
<1> DEFINE k == [ty |-> "DGRAM", desc |-> s, num |-> pcbs + 1]  a == <<"thread", t>>
<1>1. /\ a \notin Holders /\ Holders' = Holders \cup {a} /\ Has(a)' = k
      /\ \A h \in Holders : Has(h)' = Has(h)
  <2>1. /\ thr[t]' = At("alloc", -1, k) /\ (\A u \in Thread : u # t => thr[u]' = thr[u]) /\ socks' = socks
        /\ thr[t].pc = "idle"
    BY ThreadStates, Zenon DEF Open, TypeOK
  <2>2. ~Holding(t) /\ Holding(t)' /\ thr[t]'.sock = k
    BY <2>1, ThreadStates DEF Holding
  <2> QED BY <2>1, <2>2, HoldersGain, Zenon
<1>2. /\ udp[s] = NoPcb /\ udp'[s] = pcbs + 1 /\ \A x \in Slot : x # s => udp'[x] = udp[x]
      /\ tcp' = tcp /\ dropped' = dropped /\ stale' = stale /\ pcbs' = pcbs + 1 /\ given' = given \cup {pcbs + 1}
      /\ pcbs + 1 # NoPcb
  BY SockAssumption DEF Open, FirstFree, TypeOK, Num
<1>3. k \in Sock /\ k.ty = "DGRAM" /\ k.desc = s /\ k.num = pcbs + 1
  BY SockAssumption DEF Sock, Open, TypeOK, Num
<1> HIDE DEF k, a
<1>4. OfType("DGRAM")' = OfType("DGRAM") \cup {a} /\ OfType("STREAM")' = OfType("STREAM")
  BY <1>1, <1>3, Zenon DEF OfType
<1>5. \A ty : \A h \in OfType(ty) : h \in Holders /\ Has(h)' = Has(h)
  BY <1>1, Zenon DEF OfType
<1>6. \A x \in Slot : Live(x)' <=> Live(x)
  BY <1>2, Zenon DEF Live
<1>7. NumsFresh'
  <2>1. \A h \in Holders' : Has(h)' \in Sock /\ Has(h)'.num \in given'
    BY <1>1, <1>2, <1>3, Zenon DEF Owned, NumsFresh
  <2>2. (\A x \in Slot : udp'[x] # NoPcb => udp'[x] <= pcbs') /\ (\A n \in given' \cup dropped' : n <= pcbs')
    BY <1>2, NextNum
  <2>3. \A x \in Slot : Live(x)' => tcp'[x].num <= pcbs'
    BY <1>2, <1>6, NextNum, Zenon
  <2> QED BY <2>1, <2>2, <2>3, Zenon DEF NumsFresh
<1>8. NumsUnique'
  BY <1>2, <1>6, NextNum DEF Owned, NumsUnique
<1>9. UdpOwned'
  <2>1. \A h \in OfType("DGRAM") : Has(h).desc \in Slot /\ Has(h).num \in Num
    BY Zenon DEF OfType, Owned, NumsFresh, Sock
  <2>2. \A h \in OfType("DGRAM") : Has(h).desc # s
    BY <1>2, <2>1, SockAssumption, Zenon DEF Owned, UdpOwned
  <2>3. \A h \in OfType("DGRAM")' : udp'[Has(h)'.desc] = Has(h)'.num
    BY <1>1, <1>2, <1>3, <1>4, <1>5, <2>1, <2>2 DEF Owned, UdpOwned
  <2>4. \A g, h \in OfType("DGRAM")' : Has(g)'.num = Has(h)'.num => g = h
    BY <1>1, <1>3, <1>4, <1>5, NextNum DEF Owned, UdpOwned
  <2>5. \A x \in Slot : udp'[x] # NoPcb => \E h \in OfType("DGRAM")' : Has(h)'.num = udp'[x]
    BY <1>1, <1>2, <1>3, <1>4, <1>5 DEF Owned, UdpOwned
  <2> QED BY <2>3, <2>4, <2>5, Zenon DEF UdpOwned
<1>10. ASSUME ~stale PROVE TcpOwned'
  <2>1. \A x \in Slot : Live(x) => (tcp[x].num \in given' <=> tcp[x].num \in given)
    BY <1>2, NextNum, Zenon
  <2>2. \A h \in OfType("STREAM") : Has(h).desc \in Slot
    BY Zenon DEF OfType, Owned, NumsFresh, Sock
  <2>3. LiveNamed /\ LostDropped /\ NumHeldOnce /\ GivenHeld /\ SynUngiven
    BY <1>10, Zenon DEF Owned, TcpOwned
  <2>4. \A h \in OfType("STREAM") : Has(h)' = Has(h) /\ (Live(Has(h).desc)' <=> Live(Has(h).desc))
    BY <1>5, <1>6, <2>2, Zenon
  <2>5. LiveNamed' /\ LostDropped'
    BY <1>2, <1>4, <2>3, <2>4, Zenon DEF LiveNamed, LostDropped
  <2>6. NumHeldOnce'
    BY <1>4, <2>3, <2>4, Zenon DEF NumHeldOnce
  <2>7. GivenHeld'
    BY <1>2, <1>4, <1>6, <2>1, <2>3, <2>4, Zenon DEF GivenHeld
  <2>8. SynUngiven'
    BY <1>2, <1>6, <2>1, <2>3, Zenon DEF SynUngiven
  <2> QED BY <2>5, <2>6, <2>7, <2>8, Zenon DEF TcpOwned
<1>11. ASSUME ~stale PROVE Backlogs'
  <2>1. \A x \in Slot : Live(x) => (tcp[x].num \in given' <=> tcp[x].num \in given)
    BY <1>2, NextNum, Zenon
  <2>2. \A x \in Slot : \A i : Queued(x, i) => tcp[x].backlog[i] \in Slot
    BY PcbForms DEF Queued, TcpPcb
  <2>3. \A x \in Slot : \A i : Queued(x, i)' <=> Queued(x, i)
    BY <1>2, <1>6, Zenon DEF Queued
  <2>4. QueuedUngiven'
    <3> SUFFICES ASSUME NEW x \in Slot, NEW i \in Nat, Queued(x, i), Live(tcp[x].backlog[i])
                 PROVE  tcp[tcp[x].backlog[i]].num \notin given' /\ tcp[tcp[x].backlog[i]].state # "SYN_RECEIVED"
      BY <1>2, <1>6, <2>2, <2>3, Zenon DEF QueuedUngiven
    <3>1. tcp[tcp[x].backlog[i]].num \notin given /\ tcp[tcp[x].backlog[i]].state # "SYN_RECEIVED"
      BY <1>11, Zenon DEF Owned, Backlogs, QueuedUngiven
    <3> QED BY <2>1, <2>2, <3>1, Zenon
  <2>5. QueuedOnce
    BY <1>11, Zenon DEF Owned, Backlogs
  <2>6. QueuedOnce'
    BY <1>2, <2>3, <2>5 DEF QueuedOnce
  <2> QED BY <2>4, <2>6, Zenon DEF Backlogs
<1> QED BY <1>2, <1>7, <1>8, <1>9, <1>10, <1>11, Zenon DEF Owned

\* open of a stream: as a SYN for a listener, and the thread has the PCB.
LEMMA OpenTcpOwned ==
  ASSUME TypeOK, Owned, NEW t \in Thread, NEW s \in Slot, Open(t, "STREAM", s)
  PROVE  Owned'
<1> DEFINE k == [ty |-> "STREAM", desc |-> s, num |-> pcbs + 1]  a == <<"thread", t>>  r == NewPcb("CLOSED", s)
<1>1. /\ a \notin Holders /\ Holders' = Holders \cup {a} /\ Has(a)' = k
      /\ \A h \in Holders : Has(h)' = Has(h)
  <2>1. /\ thr[t]' = At("alloc", -1, k) /\ (\A u \in Thread : u # t => thr[u]' = thr[u]) /\ socks' = socks
        /\ thr[t].pc = "idle"
    BY ThreadStates, Zenon DEF Open, TypeOK
  <2>2. ~Holding(t) /\ Holding(t)' /\ thr[t]'.sock = k
    BY <2>1, ThreadStates DEF Holding
  <2> QED BY <2>1, <2>2, HoldersGain, Zenon
<1>2. r \in TcpPcb /\ r.num = pcbs + 1 /\ r.state = "CLOSED" /\ r.backlog = <<>>
  BY PcbForms, Zenon DEF Open, NewPcb, TcpState
<1>3. tcp'[s] = r /\ \A x \in Slot : x # s => tcp'[x] = tcp[x]
  BY Zenon DEF Open, TypeOK
<1>4. k \in Sock /\ k.ty = "STREAM" /\ k.desc = s /\ k.num = pcbs + 1
  BY SockAssumption DEF Sock, Open, TypeOK, Num
<1> HIDE DEF k, a, r
<1>5. /\ ~Live(s) /\ Live(s)' /\ \A x \in Slot : x # s => (Live(x)' <=> Live(x))
      /\ udp' = udp /\ dropped' = dropped /\ pcbs' = pcbs + 1 /\ given' = given \cup {pcbs + 1}
  BY <1>2, <1>3, SockAssumption, Zenon DEF Open, FirstFree, Live
<1>6. OfType("STREAM")' = OfType("STREAM") \cup {a} /\ OfType("DGRAM")' = OfType("DGRAM")
  BY <1>1, <1>4, Zenon DEF OfType
<1>7. \A ty : \A h \in OfType(ty) : h \in Holders /\ Has(h)' = Has(h)
  BY <1>1, Zenon DEF OfType
<1>8. NumsFresh'
  <2>1. \A h \in Holders' : Has(h)' \in Sock /\ Has(h)'.num \in given'
    BY <1>1, <1>4, <1>5, Zenon DEF Owned, NumsFresh
  <2>2. (\A x \in Slot : udp'[x] # NoPcb => udp'[x] <= pcbs') /\ (\A n \in given' \cup dropped' : n <= pcbs')
    BY <1>5, NextNum
  <2>3. \A x \in Slot : Live(x)' => tcp'[x].num <= pcbs'
    BY <1>2, <1>3, <1>5, NextNum
  <2> QED BY <2>1, <2>2, <2>3, Zenon DEF NumsFresh
<1>9. NumsUnique'
  BY <1>2, <1>3, <1>5, NextNum, Zenon DEF Owned, NumsUnique
<1>10. UdpOwned'
  BY <1>5, <1>6, <1>7 DEF Owned, UdpOwned
<1>11. ASSUME ~stale' PROVE TcpOwned' /\ Backlogs'
  <2>1. ~stale /\ ~Dangling(s)
    BY <1>11, Zenon DEF Open, TypeOK
  <2>2. \A h \in OfType("STREAM") : Has(h).desc \in Slot /\ Has(h).desc # s
    BY <1>5, <2>1, Zenon DEF OfType, Owned, NumsFresh, Sock, TcpOwned, LiveNamed, LostDropped, Dangling
  <2>3. \A x \in Slot : Live(x) => (tcp[x].num \in given' <=> tcp[x].num \in given)
    BY <1>5, NextNum, Zenon
  <2>4. TcpOwned'
    <3>1. LiveNamed /\ LostDropped /\ NumHeldOnce /\ GivenHeld /\ SynUngiven
      BY <2>1, Zenon DEF Owned, TcpOwned
    <3>2. \A h \in OfType("STREAM") : /\ Live(Has(h).desc)' <=> Live(Has(h).desc)
                                      /\ tcp'[Has(h)'.desc] = tcp[Has(h).desc]
      BY <1>3, <1>5, <1>7, <2>2, Zenon
    <3>3. Has(a)' = k /\ a \in OfType("STREAM")' /\ Has(a)'.num = pcbs + 1 /\ Has(a)'.desc = s /\ tcp'[s].num = pcbs + 1 /\ Live(s)'
      BY <1>1, <1>2, <1>3, <1>4, <1>5, <1>6, Zenon
    <3>4. \A h \in OfType("STREAM") : Has(h).num # pcbs + 1
      BY <1>7, NextNum, Zenon
    <3>5. LiveNamed'
      BY <1>4, <1>6, <1>7, <3>1, <3>2, <3>3, Zenon DEF LiveNamed
    <3>6. LostDropped'
      BY <1>5, <1>6, <1>7, <3>1, <3>2, <3>3, Zenon DEF LostDropped
    <3>7. NumHeldOnce'
      BY <1>6, <1>7, <3>1, <3>3, <3>4, Zenon DEF NumHeldOnce
    <3>8. GivenHeld'
      <4> SUFFICES ASSUME NEW x \in Slot, Live(x)', tcp'[x].num \in given', tcp'[x].state \notin {"CLOSED", "CLOSING"}
                   PROVE  \E h \in OfType("STREAM")' : Has(h)'.num = tcp'[x].num
        BY Zenon DEF GivenHeld
      <4>1. x # s /\ tcp'[x] = tcp[x] /\ Live(x) /\ tcp[x].num \in given
        BY <1>2, <1>3, <1>5, <2>3, Zenon
      <4>2. PICK h \in OfType("STREAM") : Has(h).num = tcp[x].num
        BY <3>1, <4>1, Zenon DEF GivenHeld
      <4> QED BY <1>6, <1>7, <4>1, <4>2, Zenon
    <3>9. SynUngiven'
      <4> SUFFICES ASSUME NEW x \in Slot, Live(x)', tcp'[x].state = "SYN_RECEIVED" PROVE tcp'[x].num \notin given'
        BY Zenon DEF SynUngiven
      <4>1. x # s /\ tcp'[x] = tcp[x] /\ Live(x)
        BY <1>2, <1>3, <1>5, Zenon
      <4> QED BY <2>3, <3>1, <4>1, Zenon DEF SynUngiven
    <3> QED BY <3>5, <3>6, <3>7, <3>8, <3>9, Zenon DEF TcpOwned
  <2>5. Backlogs'
    <3>1. \A x \in Slot : \A i : Queued(x, i)' => x # s /\ Queued(x, i) /\ tcp'[x] = tcp[x]
      BY <1>2, <1>3, <1>5 DEF Queued
    <3>2. \A x \in Slot : \A i : Queued(x, i) => tcp[x].backlog[i] \in Slot /\ tcp[x].backlog[i] # s
      BY <2>1, PcbForms DEF Queued, TcpPcb, Dangling, Range
    <3>3. QueuedUngiven /\ QueuedOnce
      BY <2>1, Zenon DEF Owned, Backlogs
    <3>4. QueuedUngiven'
      <4> SUFFICES ASSUME NEW x \in Slot, NEW i \in Nat, Queued(x, i)',
                          NEW c, c = tcp'[x].backlog[i], Live(c)'
                   PROVE  tcp'[c].num \notin given' /\ tcp'[c].state # "SYN_RECEIVED"
        BY Zenon DEF QueuedUngiven
      <4>1. Queued(x, i) /\ c = tcp[x].backlog[i] /\ c \in Slot /\ c # s
        BY <3>1, <3>2, Zenon
      <4>2. Live(c) /\ tcp'[c] = tcp[c]
        BY <1>3, <1>5, <4>1, Zenon
      <4>3. tcp[c].num \notin given /\ tcp[c].state # "SYN_RECEIVED"
        BY <3>3, <4>1, <4>2, Zenon DEF QueuedUngiven
      <4> QED BY <2>3, <4>1, <4>2, <4>3, Zenon
    <3>5. QueuedOnce'
      BY <3>1, <3>3, Zenon DEF QueuedOnce
    <3> QED BY <3>4, <3>5, Zenon DEF Backlogs
  <2> QED BY <2>4, <2>5, Zenon
<1> QED BY <1>8, <1>9, <1>10, <1>11, Zenon DEF Owned

\* accept takes a PCB that nobody was given out of the one backlog that has it.
LEMMA AcceptOwned ==
  ASSUME TypeOK, Disciplined, Owned, NEW t \in Thread, Accept(t)
  PROVE  Owned'
<1> DEFINE s == thr[t].sock.desc  b == tcp[s].backlog  c == Head(b)
           k == [thr[t].sock EXCEPT !.desc = c, !.num = tcp[c].num]  a == <<"thread", t>>
<1>1. s \in Slot /\ thr[t].sock \in Sock /\ thr[t].sock.ty = "STREAM" /\ thr[t].pc = "accept"
  BY Zenon DEF Accept, TypeOK, Disciplined, Sock, Calls
<1>2. tcp[s] \in TcpPcb /\ b \in Seq(Slot) /\ b # <<>> /\ Live(s)
  BY <1>1, PcbForms, PcbUpdates, Zenon DEF Accept
<1>3. c \in Slot /\ Tail(b) \in Seq(Slot) /\ 1 \in DOMAIN b /\ b[1] = c
  BY <1>2
<1>4. \A i \in DOMAIN Tail(b) : i \in Nat /\ i + 1 \in DOMAIN b /\ Tail(b)[i] = b[i + 1] /\ i + 1 # 1
  BY <1>2
<1>5. /\ tcp'[s] = [tcp[s] EXCEPT !.backlog = Tail(b)] /\ \A x \in Slot : x # s => tcp'[x] = tcp[x]
      /\ udp' = udp /\ pcbs' = pcbs /\ dropped' = dropped /\ stale' = stale /\ socks' = socks
  BY <1>1, Zenon DEF Accept, TypeOK
<1>6. Live(c) => /\ thr' = [thr EXCEPT ![t] = At("alloc", -1, k)]
                 /\ given' = given \cup {tcp[c].num}
  BY Zenon DEF Accept
<1>7. ~Live(c) => thr' = thr /\ given' = given
  BY Zenon DEF Accept
<1>8. Live(c) => k \in Sock /\ k.ty = "STREAM" /\ k.desc = c /\ k.num = tcp[c].num
  BY <1>1, <1>3, PcbForms, PcbUpdates, Zenon DEF Sock
<1> HIDE DEF k, c
<1>9. tcp'[s].state = tcp[s].state /\ tcp'[s].num = tcp[s].num /\ tcp'[s].backlog = Tail(b) /\ tcp'[s] \in TcpPcb
  <2> HIDE DEF b, s
  <2> QED BY <1>2, <1>3, <1>5, Zenon DEF TcpPcb
<1>10. \A x \in Slot : /\ Live(x)' <=> Live(x)
                       /\ tcp'[x].num = tcp[x].num /\ tcp'[x].state = tcp[x].state
  BY <1>2, <1>5, <1>9, SockAssumption, Zenon DEF Live
<1>11. \A x \in Slot : \A i \in Nat : Queued(x, i)' =>
         \E j \in Nat : /\ Queued(x, j) /\ tcp'[x].backlog[i] = tcp[x].backlog[j] /\ (x = s => j # 1)
                        /\ j = IF x = s THEN i + 1 ELSE i
  <2> SUFFICES ASSUME NEW x \in Slot, NEW i \in Nat, Queued(x, i)'
               PROVE  \E j \in Nat : /\ Queued(x, j) /\ tcp'[x].backlog[i] = tcp[x].backlog[j] /\ (x = s => j # 1)
                                     /\ j = IF x = s THEN i + 1 ELSE i
    BY Zenon
  <2>1. CASE x = s
    <3>1. i \in DOMAIN Tail(b)
      BY <1>9, <2>1, Zenon DEF Queued
    <3>2. Queued(s, i + 1) /\ tcp'[s].backlog[i] = tcp[s].backlog[i + 1] /\ i + 1 # 1
      BY <1>2, <1>4, <1>9, <3>1, Zenon DEF Queued
    <3>3. i + 1 \in Nat
      OBVIOUS
    <3> QED BY <2>1, <3>2, <3>3, Zenon
  <2>2. CASE x # s
    <3>1. Queued(x, i) /\ tcp'[x].backlog[i] = tcp[x].backlog[i]
      BY <1>5, <1>10, <2>2, Zenon DEF Queued
    <3> QED BY <2>2, <3>1, Zenon
  <2> QED BY <2>1, <2>2, Zenon
<1>12. Queued(s, 1) /\ tcp[s].backlog[1] = c
  BY <1>2, <1>3, Zenon DEF Queued
<1>13. \A x \in Slot : \A i : Queued(x, i) => tcp[x].backlog[i] \in Slot
  BY PcbForms DEF Queued, TcpPcb
<1>14. CASE Live(c)
  <2>1. /\ a \notin Holders /\ Holders' = Holders \cup {a} /\ Has(a)' = k
        /\ \A h \in Holders : Has(h)' = Has(h)
    <3>1. thr[t]' = At("alloc", -1, k) /\ (\A u \in Thread : u # t => thr[u]' = thr[u])
      BY <1>6, <1>14, Zenon DEF TypeOK
    <3>2. ~Holding(t) /\ Holding(t)' /\ thr[t]'.sock = k
      BY <1>1, <3>1, ThreadStates DEF Holding
    <3> QED BY <1>5, <3>1, <3>2, HoldersGain, Zenon
  <2> HIDE DEF a, s, b
  <2>2. OfType("STREAM")' = OfType("STREAM") \cup {a} /\ OfType("DGRAM")' = OfType("DGRAM")
    BY <1>8, <1>14, <2>1, Zenon DEF OfType
  <2>3. \A ty : \A h \in OfType(ty) : h \in Holders /\ Has(h)' = Has(h)
    BY <2>1, Zenon DEF OfType
  <2>4. NumsFresh'
    <3>1. \A h \in Holders' : Has(h)' \in Sock /\ Has(h)'.num \in given'
      BY <1>6, <1>8, <1>14, <2>1, Zenon DEF Owned, NumsFresh
    <3> QED BY <1>3, <1>5, <1>6, <1>10, <1>14, <3>1, Zenon DEF Owned, NumsFresh
  <2>5. NumsUnique'
    BY <1>5, <1>10, Zenon DEF Owned, NumsUnique
  <2>6. UdpOwned'
    BY <1>5, <2>2, <2>3 DEF Owned, UdpOwned
  <2>7. ASSUME ~stale PROVE TcpOwned' /\ Backlogs'
    <3>1. tcp[c].num \notin given /\ tcp[c].state # "SYN_RECEIVED"
      BY <1>1, <1>12, <1>14, <2>7, Zenon DEF Owned, Backlogs, QueuedUngiven
    <3>2. \A x \in Slot : (Live(x) /\ x # c) => (tcp[x].num \in given' <=> tcp[x].num \in given)
      BY <1>3, <1>6, <1>14, Zenon DEF Owned, NumsUnique
    <3>3. \A h \in OfType("STREAM") : Has(h).desc \in Slot /\ Has(h).num # tcp[c].num
      BY <3>1, Zenon DEF OfType, Owned, NumsFresh, Sock
    <3>4. /\ \A h \in OfType("STREAM")' : Live(Has(h).desc)' => tcp'[Has(h)'.desc].num = Has(h)'.num
          /\ \A h \in OfType("STREAM")' : ~Live(Has(h).desc)' => Has(h)'.num \in dropped'
      BY <1>3, <1>5, <1>8, <1>10, <1>14, <2>1, <2>2, <2>3, <2>7, <3>3 DEF Owned, TcpOwned, LiveNamed, LostDropped
    <3>5. \A g, h \in OfType("STREAM")' : Has(g)'.num = Has(h)'.num => g = h
      BY <1>8, <1>14, <2>1, <2>2, <2>3, <2>7, <3>3 DEF Owned, TcpOwned, NumHeldOnce
    <3>6. \A x \in Slot : (Live(x)' /\ tcp'[x].num \in given' /\ tcp'[x].state \notin {"CLOSED", "CLOSING"})
            => \E h \in OfType("STREAM")' : Has(h)'.num = tcp'[x].num
      <4> SUFFICES ASSUME NEW x \in Slot, Live(x)', tcp'[x].num \in given', tcp'[x].state \notin {"CLOSED", "CLOSING"}
                   PROVE  \E h \in OfType("STREAM")' : Has(h)'.num = tcp'[x].num
        BY Zenon
      <4>1. CASE x = c
        BY <1>8, <1>10, <1>14, <2>1, <2>2, <4>1, Zenon
      <4>2. CASE x # c
        BY <1>10, <2>2, <2>3, <2>7, <3>2, <4>2, Zenon DEF Owned, TcpOwned, GivenHeld
      <4> QED BY <4>1, <4>2, Zenon
    <3>7. \A x \in Slot : (Live(x)' /\ tcp'[x].state = "SYN_RECEIVED") => tcp'[x].num \notin given'
      BY <1>10, <2>7, <3>1, <3>2, Zenon DEF Owned, TcpOwned, SynUngiven
    <3>8. TcpOwned'
      BY <3>4, <3>5, <3>6, <3>7, Zenon DEF TcpOwned, LiveNamed, LostDropped, NumHeldOnce, GivenHeld, SynUngiven
    <3>9. \A x \in Slot : \A i \in Nat : Queued(x, i)' => tcp'[x].backlog[i] \in Slot /\ tcp'[x].backlog[i] # c
      <4>1. QueuedOnce
        BY <2>7, Zenon DEF Owned, Backlogs
      <4> QED BY <1>1, <1>11, <1>12, <1>13, <4>1 DEF QueuedOnce
    <3>10. ASSUME NEW x \in Slot, NEW i \in Nat, Queued(x, i)', Live(tcp'[x].backlog[i])
           PROVE  tcp'[tcp'[x].backlog[i]].num \notin given' /\ tcp'[tcp'[x].backlog[i]].state # "SYN_RECEIVED"
      BY <1>10, <1>11, <2>7, <3>2, <3>9, <3>10 DEF Owned, Backlogs, QueuedUngiven
    <3>11. ASSUME NEW x \in Slot, NEW y \in Slot, NEW i \in Nat, NEW j \in Nat,
                  Queued(x, i)', Queued(y, j)', tcp'[x].backlog[i] = tcp'[y].backlog[j]
           PROVE  x = y /\ i = j
      BY <1>11, <2>7, <3>11 DEF Owned, Backlogs, QueuedOnce
    <3>12. Backlogs'
      BY <1>10, <3>9, <3>10, <3>11 DEF Backlogs, QueuedUngiven, QueuedOnce
    <3> QED BY <3>8, <3>12, Zenon
  <2> QED BY <1>5, <2>4, <2>5, <2>6, <2>7, Zenon DEF Owned
<1>15. CASE ~Live(c)
  <2>1. SameHolders
    BY <1>5, <1>7, <1>15, HoldersKept, Zenon DEF SameHolders, Holding
  <2> HIDE DEF a, s, b
  <2>2. \A ty : \A h \in OfType(ty) : h \in OfType(ty)' /\ Has(h)' = Has(h)
    BY <2>1, Zenon DEF SameHolders, OfType
  <2>3. OfType("DGRAM")' = OfType("DGRAM") /\ OfType("STREAM")' = OfType("STREAM")
    BY <2>1, Zenon DEF SameHolders
  <2>4. NumsFresh' /\ NumsUnique'
    BY <1>5, <1>7, <1>10, <1>15, <2>1, Zenon DEF SameHolders, Owned, NumsFresh, NumsUnique
  <2>5. UdpOwned'
    BY <1>5, <2>2, <2>3 DEF Owned, UdpOwned
  <2>6. ASSUME ~stale PROVE TcpOwned' /\ Backlogs'
    <3>1. \A h \in OfType("STREAM") : Has(h).desc \in Slot
      BY Zenon DEF OfType, Owned, NumsFresh, Sock
    <3>2. TcpOwned'
      BY <1>5, <1>7, <1>10, <1>15, <2>2, <2>3, <2>6, <3>1 DEF Owned, TcpOwned, LiveNamed, LostDropped, NumHeldOnce, GivenHeld, SynUngiven
    <3>3. ASSUME NEW x \in Slot, NEW i \in Nat, Queued(x, i)', Live(tcp'[x].backlog[i])
          PROVE  tcp'[tcp'[x].backlog[i]].num \notin given' /\ tcp'[tcp'[x].backlog[i]].state # "SYN_RECEIVED"
      BY <1>7, <1>10, <1>11, <1>13, <1>15, <2>6, <3>3 DEF Owned, Backlogs, QueuedUngiven
    <3>4. ASSUME NEW x \in Slot, NEW y \in Slot, NEW i \in Nat, NEW j \in Nat,
                 Queued(x, i)', Queued(y, j)', tcp'[x].backlog[i] = tcp'[y].backlog[j]
          PROVE  x = y /\ i = j
      BY <1>11, <2>6, <3>4 DEF Owned, Backlogs, QueuedOnce
    <3>5. \A x \in Slot : \A i \in Nat : Queued(x, i)' => tcp'[x].backlog[i] \in Slot
      BY <1>11, <1>13
    <3>6. Backlogs'
      BY <1>10, <3>3, <3>4, <3>5 DEF Backlogs, QueuedUngiven, QueuedOnce
    <3> QED BY <3>2, <3>6, Zenon
  <2> QED BY <1>5, <2>4, <2>5, <2>6, Zenon DEF Owned
<1> QED BY <1>14, <1>15, Zenon

\* The end of close: the PCB of a datagram socket is freed; that of a stream is freed with its
\* backlog, left to tcp.rs as closing, or left CLOSED.
LEMMA CloseOwned ==
  ASSUME TypeOK, Disciplined, Owned, NEW t \in Thread, CloseProto(t)
  PROVE  Owned'
<1> DEFINE a == <<"thread", t>>
<1> PICK k \in Sock : k = thr[t].sock
  BY Zenon DEF CloseProto, Disciplined
<1> PICK s \in Slot : s = k.desc
  BY Zenon DEF Sock
<1>1. k \in Sock /\ s \in Slot /\ k.ty \in {"STREAM", "DGRAM"} /\ k.num \in Num
  BY Zenon DEF Sock
<1>2. /\ a \in Holders /\ Has(a) = k /\ Holders' = Holders \ {a}
      /\ \A h \in Holders' : Has(h)' = Has(h)
  <2>1. thr[t]' = Idle /\ (\A u \in Thread : u # t => thr[u]' = thr[u]) /\ socks' = socks
    BY Zenon DEF CloseProto, TypeOK
  <2>2. Holding(t) /\ ~Holding(t)'
    BY <2>1, ThreadStates, Zenon DEF Holding, CloseProto
  <2> QED BY <2>1, <2>2, HoldersLose, Zenon
<1>3. pcbs' = pcbs /\ given' = given /\ dropped' = dropped /\ stale' = stale
  BY Zenon DEF CloseProto
<1>4. /\ k.ty = "STREAM" => tcp' = TcpClosed(s) /\ udp' = udp
      /\ k.ty # "STREAM" => udp' = [udp EXCEPT ![s] = NoPcb] /\ tcp' = tcp
  BY Zenon DEF CloseProto
<1> HIDE DEF a
<1>5. \A ty : OfType(ty)' = OfType(ty) \ {a} /\ \A h \in OfType(ty)' : Has(h)' = Has(h)
  BY <1>2, Zenon DEF OfType
<1>6. \A h \in Holders' : Has(h)' \in Sock /\ Has(h)'.num \in given
  BY <1>2, Zenon DEF Owned, NumsFresh
<1>7. CASE k.ty = "DGRAM"
  <2>1. /\ udp'[s] = NoPcb /\ (\A x \in Slot : x # s => udp'[x] = udp[x]) /\ tcp' = tcp
        /\ \A x \in Slot : Live(x)' <=> Live(x)
    BY <1>1, <1>4, <1>7, Zenon DEF TypeOK, Live
  <2>2. a \in OfType("DGRAM") /\ a \notin OfType("STREAM") /\ udp[s] = k.num
    <3>1. a \in OfType("DGRAM") /\ a \notin OfType("STREAM")
      BY <1>2, <1>7 DEF OfType
    <3>2. \A h \in OfType("DGRAM") : udp[Has(h).desc] = Has(h).num
      BY Zenon DEF Owned, UdpOwned
    <3> QED BY <1>2, <3>1, <3>2, Zenon
  <2>3. NumsFresh' /\ NumsUnique'
    <3>1. NumsFresh'
      BY <1>3, <1>6, <2>1 DEF Owned, NumsFresh
    <3>2. NumsUnique'
      BY <1>3, <2>1 DEF Owned, NumsUnique
    <3> QED BY <3>1, <3>2
  <2>4. UdpOwned'
    <3>1. \A h \in OfType("DGRAM")' : h \in OfType("DGRAM") /\ h # a /\ Has(h)' = Has(h)
      BY <1>5, Zenon
    <3>2. \A h \in OfType("DGRAM")' : Has(h).num # k.num /\ Has(h).desc # s /\ Has(h).desc \in Slot
      <4>1. \A h \in OfType("DGRAM") : Has(h).desc \in Slot
        BY DEF OfType, Owned, NumsFresh, Sock
      <4>2. \A h \in OfType("DGRAM") : udp[Has(h).desc] = Has(h).num /\ (Has(h).num = Has(a).num => h = a)
        BY <2>2, Zenon DEF Owned, UdpOwned
      <4> QED BY <1>2, <2>2, <3>1, <4>1, <4>2, Zenon
    <3>3. \A h \in OfType("DGRAM")' : udp'[Has(h)'.desc] = Has(h)'.num
      <4>1. \A h \in OfType("DGRAM") : udp[Has(h).desc] = Has(h).num
        BY Zenon DEF Owned, UdpOwned
      <4> QED BY <2>1, <3>1, <3>2, <4>1, Zenon
    <3>4. \A x \in Slot : udp'[x] # NoPcb => \E h \in OfType("DGRAM")' : Has(h)'.num = udp'[x]
      <4> SUFFICES ASSUME NEW x \in Slot, udp'[x] # NoPcb PROVE \E h \in OfType("DGRAM")' : Has(h)'.num = udp'[x]
        BY Zenon
      <4>1. x # s /\ udp'[x] = udp[x] /\ udp[x] # k.num
        BY <1>1, <2>1, <2>2 DEF Owned, NumsUnique
      <4>2. PICK h \in OfType("DGRAM") : Has(h).num = udp[x]
        BY <4>1, Zenon DEF Owned, UdpOwned
      <4>3. h # a
        BY <1>2, <4>1, <4>2, Zenon
      <4> QED BY <1>5, <4>1, <4>2, <4>3, Zenon
    <3> QED BY <3>1, <3>3, <3>4 DEF Owned, UdpOwned
  <2>5. OfType("STREAM")' = OfType("STREAM")
    BY <1>5, <2>2, Zenon
  <2>6. ASSUME ~stale PROVE TcpOwned'
    <3>1. \A h \in OfType("STREAM") : Has(h)' = Has(h) /\ Has(h).desc \in Slot
      BY <1>5, <2>5, Zenon DEF OfType, Owned, NumsFresh, Sock
    <3>2. LiveNamed /\ LostDropped /\ NumHeldOnce /\ GivenHeld /\ SynUngiven
      BY <2>6, Zenon DEF Owned, TcpOwned
    <3>3. LiveNamed' /\ LostDropped'
      BY <1>3, <2>1, <2>5, <3>1, <3>2, Zenon DEF LiveNamed, LostDropped
    <3>4. NumHeldOnce'
      BY <2>5, <3>1, <3>2, Zenon DEF NumHeldOnce
    <3>5. GivenHeld' /\ SynUngiven'
      BY <1>3, <2>1, <2>5, <3>1, <3>2, Zenon DEF GivenHeld, SynUngiven
    <3> QED BY <3>3, <3>4, <3>5, Zenon DEF TcpOwned
  <2>7. ASSUME ~stale PROVE Backlogs'
    <3>1. \A x \in Slot : \A i : Queued(x, i)' <=> Queued(x, i)
      BY <2>1, Zenon DEF Queued
    <3>2. \A x \in Slot : \A i : Queued(x, i) => tcp[x].backlog[i] \in Slot
      BY PcbForms DEF Queued, TcpPcb
    <3>3. QueuedUngiven'
      <4> SUFFICES ASSUME NEW x \in Slot, NEW i \in Nat, Queued(x, i), Live(tcp[x].backlog[i])
                   PROVE  tcp[tcp[x].backlog[i]].num \notin given /\ tcp[tcp[x].backlog[i]].state # "SYN_RECEIVED"
        BY <1>3, <2>1, <3>1, <3>2, Zenon DEF QueuedUngiven
      <4> QED BY <2>7, Zenon DEF Owned, Backlogs, QueuedUngiven
    <3>4. QueuedOnce
      BY <2>7, Zenon DEF Owned, Backlogs
    <3>5. QueuedOnce'
      <4> SUFFICES ASSUME NEW x \in Slot, NEW y \in Slot, NEW i \in Nat, NEW j \in Nat, Queued(x, i)', Queued(y, j)',
                          tcp[x].backlog[i] = tcp[y].backlog[j]
                   PROVE  x = y /\ i = j
        BY <2>1, Zenon DEF QueuedOnce
      <4> QED BY <3>1, <3>4, Zenon DEF QueuedOnce
    <3> QED BY <3>3, <3>5, Zenon DEF Backlogs
  <2> QED BY <1>3, <2>3, <2>4, <2>6, <2>7, Zenon DEF Owned
<1>8. CASE k.ty = "STREAM"
  <2>1. a \in OfType("STREAM") /\ a \notin OfType("DGRAM") /\ udp' = udp
    BY <1>2, <1>4, <1>8, Zenon DEF OfType
  <2> DEFINE frees == Live(s) /\ tcp[s].state \in {"LISTEN", "SYN_SENT"}
  <2>2. /\ \A x \in Slot : Live(x)' => /\ Live(x) /\ tcp'[x].num = tcp[x].num /\ tcp'[x].backlog = tcp[x].backlog
                                       /\ tcp'[x].state = tcp[x].state \/ (x = s /\ tcp'[x].state = "CLOSING")
        /\ \A x \in Slot : ~Live(x)' => ~Live(x) \/ (frees /\ x \in Drained(s))
        /\ Live(s)' => tcp'[s].state \in {"CLOSED", "CLOSING"}
    <3>1. CASE frees
      <4>1. tcp' = Released(s)
        BY <1>4, <1>8, <3>1, Zenon DEF TcpClosed
      <4> QED BY <1>1, <3>1, <4>1, ReleasedTable, Zenon
    <3>2. CASE Live(s) /\ tcp[s].state \in {"SYN_RECEIVED", "ESTABLISHED"}
      <4>1. tcp' = [tcp EXCEPT ![s].state = "CLOSING"]
        BY <1>4, <1>8, <3>2, Zenon DEF TcpClosed
      <4>2. tcp[s] \in TcpPcb /\ tcp'[s] = [tcp[s] EXCEPT !.state = "CLOSING"] /\ \A x \in Slot : x # s => tcp'[x] = tcp[x]
        BY <1>1, <3>2, <4>1, PcbForms, Zenon DEF TypeOK
      <4>3. /\ tcp'[s].state = "CLOSING" /\ tcp'[s].num = tcp[s].num /\ tcp'[s].backlog = tcp[s].backlog
            /\ tcp'[s] \in TcpPcb
        BY <4>2, Zenon DEF TcpPcb, TcpState
      <4>4. Live(s)' /\ \A x \in Slot : x # s => (Live(x)' <=> Live(x))
        BY <4>2, <4>3, SockAssumption, Zenon DEF Live
      <4>5. \A x \in Slot : Live(x)' <=> Live(x)
        BY <3>2, <4>4, Zenon
      <4> HIDE DEF frees
      <4> QED BY <1>1, <3>2, <4>2, <4>3, <4>5, Zenon
    <3>3. CASE ~Live(s) \/ tcp[s].state \in {"CLOSED", "CLOSING"}
      <4>1. tcp' = tcp
        BY <1>4, <1>8, <3>3, Zenon DEF TcpClosed
      <4> QED BY <1>1, <3>3, <4>1, Zenon DEF Live
    <3>4. Live(s) => tcp[s].state \in TcpState
      BY <1>1, PcbForms, Zenon DEF TcpPcb
    <3> QED BY <3>1, <3>2, <3>3, <3>4, Zenon DEF TcpState
  <2>3. NumsFresh' /\ NumsUnique'
    BY <1>3, <1>6, <2>1, <2>2, Zenon DEF Owned, NumsFresh, NumsUnique
  <2>4. OfType("DGRAM")' = OfType("DGRAM") /\ \A h \in OfType("DGRAM") : Has(h)' = Has(h)
    BY <1>5, <2>1, Zenon
  <2>5. UdpOwned'
    BY <2>1, <2>4 DEF Owned, UdpOwned
  <2> HIDE DEF frees
  <2>6. ASSUME ~stale PROVE TcpOwned'
    <3>1. \A h \in OfType("STREAM")' : h \in OfType("STREAM") /\ h # a /\ Has(h)' = Has(h)
      BY <1>5, Zenon
    <3>2. \A h \in OfType("STREAM")' : Has(h).num # k.num /\ Has(h).desc \in Slot /\ Has(h).num \in given
      BY <1>2, <2>1, <2>6, <3>1, Zenon DEF Owned, TcpOwned, NumHeldOnce, OfType, NumsFresh, Sock
    <3>3. Live(s) => tcp[s].num = k.num
      BY <1>2, <2>1, <2>6, Zenon DEF Owned, TcpOwned, LiveNamed
    <3>4. \A x \in Drained(s) : x # s => ~Live(x) \/ tcp[x].num \notin given
      BY <1>1, <2>6, DrainedUngiven, Zenon DEF Owned
    <3>5. LiveNamed /\ LostDropped /\ NumHeldOnce
      BY <2>6, Zenon DEF Owned, TcpOwned
    <3>6. ASSUME NEW h \in OfType("STREAM")', NEW d, d = Has(h).desc
          PROVE  /\ Live(d)' => tcp'[d].num = Has(h).num
                 /\ ~Live(d)' => Has(h).num \in dropped
      <4>1. /\ d \in Slot /\ Has(h).num # k.num /\ Has(h).num \in given
            /\ Live(d) => tcp[d].num = Has(h).num
            /\ ~Live(d) => Has(h).num \in dropped
        BY <3>1, <3>2, <3>5, <3>6, Zenon DEF LiveNamed, LostDropped
      <4>2. Live(d) => Live(d)'
        BY <2>2, <3>3, <3>4, <4>1, Zenon
      <4> QED BY <2>2, <4>1, <4>2, Zenon
    <3>7. LiveNamed' /\ LostDropped' /\ NumHeldOnce'
      <4>1. LiveNamed'
        BY <3>1, <3>6, Zenon DEF LiveNamed
      <4>2. LostDropped'
        BY <1>3, <3>1, <3>6, Zenon DEF LostDropped
      <4>3. NumHeldOnce'
        BY <3>1, <3>5, Zenon DEF NumHeldOnce
      <4> QED BY <4>1, <4>2, <4>3, Zenon
    <3>8. \A x \in Slot : (Live(x)' /\ tcp'[x].num \in given' /\ tcp'[x].state \notin {"CLOSED", "CLOSING"})
            => \E h \in OfType("STREAM")' : Has(h)'.num = tcp'[x].num
      <4> SUFFICES ASSUME NEW x \in Slot, Live(x)', tcp'[x].num \in given, tcp'[x].state \notin {"CLOSED", "CLOSING"}
                   PROVE  \E h \in OfType("STREAM")' : Has(h)'.num = tcp'[x].num
        BY <1>3, Zenon
      <4>1. x # s /\ Live(x) /\ tcp'[x].num = tcp[x].num /\ tcp'[x].state = tcp[x].state
        BY <2>2, Zenon
      <4>2. PICK h \in OfType("STREAM") : Has(h).num = tcp[x].num
        BY <2>6, <4>1, Zenon DEF Owned, TcpOwned, GivenHeld
      <4>3. k.num # tcp[x].num
        <5>1. CASE Live(s)
          BY <1>1, <3>3, <4>1, <5>1, Zenon DEF Owned, NumsUnique
        <5>2. CASE ~Live(s)
          <6>1. k.num \in dropped
            BY <1>2, <2>1, <2>6, <5>2, Zenon DEF Owned, TcpOwned, LostDropped
          <6> QED BY <4>1, <6>1, Zenon DEF Owned, NumsUnique
        <5> QED BY <5>1, <5>2, Zenon
      <4>4. h # a
        BY <1>2, <4>2, <4>3, Zenon
      <4> QED BY <1>5, <4>1, <4>2, <4>4, Zenon
    <3>9. \A x \in Slot : (Live(x)' /\ tcp'[x].state = "SYN_RECEIVED") => tcp'[x].num \notin given'
      BY <1>3, <2>2, <2>6, Zenon DEF Owned, TcpOwned, SynUngiven
    <3> QED BY <3>7, <3>8, <3>9, Zenon DEF TcpOwned, GivenHeld, SynUngiven
  <2>7. ASSUME ~stale PROVE Backlogs'
    <3>1. \A x \in Slot : \A i : Queued(x, i)' => Queued(x, i) /\ tcp'[x].backlog = tcp[x].backlog
      BY <2>2, Zenon DEF Queued
    <3>2. \A x \in Slot : \A i : Queued(x, i) => tcp[x].backlog[i] \in Slot
      BY PcbForms DEF Queued, TcpPcb
    <3>3. QueuedUngiven /\ QueuedOnce
      BY <2>7, Zenon DEF Owned, Backlogs
    <3>4. QueuedUngiven'
      <4> SUFFICES ASSUME NEW x \in Slot, NEW i \in Nat, Queued(x, i)',
                          NEW c, c = tcp'[x].backlog[i], Live(c)'
                   PROVE  tcp'[c].num \notin given' /\ tcp'[c].state # "SYN_RECEIVED"
        BY Zenon DEF QueuedUngiven
      <4>1. Queued(x, i) /\ c = tcp[x].backlog[i] /\ c \in Slot
        BY <3>1, <3>2, Zenon
      <4>2. Live(c) /\ tcp'[c].num = tcp[c].num /\ (tcp'[c].state = tcp[c].state \/ tcp'[c].state = "CLOSING")
        BY <2>2, <4>1, Zenon
      <4>3. tcp[c].num \notin given /\ tcp[c].state # "SYN_RECEIVED"
        BY <3>3, <4>1, <4>2, Zenon DEF QueuedUngiven
      <4> QED BY <1>3, <4>2, <4>3, Zenon
    <3>5. QueuedOnce'
      BY <3>1, <3>3 DEF QueuedOnce
    <3> QED BY <3>4, <3>5, Zenon DEF Backlogs
  <2> QED BY <1>3, <2>3, <2>5, <2>6, <2>7, Zenon DEF Owned
<1> QED BY <1>1, <1>7, <1>8, Zenon
-----------------------------------------------------------------------------
(* The theorems. *)

\* A step preserves the part of the invariant that is about PCBs.
LEMMA OwnedKept == TypeOK /\ Disciplined /\ Owned /\ Next => Owned'
<1> SUFFICES ASSUME TypeOK, Disciplined, Owned, Next PROVE Owned'
  BY Zenon
<1>1. ASSUME NEW t \in Thread, NEW ty \in {"STREAM", "DGRAM"}, NEW s \in Slot, Open(t, ty, s) PROVE Owned'
  BY <1>1, OpenTcpOwned, OpenUdpOwned, Zenon
<1>2. ASSUME NEW t \in Thread, NEW d \in Desc, Alloc(t, d) PROVE Owned'
  <2>1. /\ thr[t]' = Idle /\ (\A u \in Thread : u # t => thr[u]' = thr[u]) /\ thr[t].pc = "alloc"
        /\ socks' = [socks EXCEPT ![d] = thr[t].sock] /\ socks[d] = NoSock
    BY <1>2, Zenon DEF Alloc, TypeOK, FirstFree
  <2>2. Holding(t) /\ ~Holding(t)' /\ thr[t].sock # NoSock
    BY <2>1, ThreadStates, SockAssumption, Zenon DEF Holding, Disciplined
  <2>3. UNCHANGED <<tcp, udp, pcbs, given, dropped, stale>>
    BY <1>2, Zenon DEF Alloc
  <2> QED BY <2>1, <2>2, <2>3, HoldersStore, MoveOwned, Zenon
<1>3. ASSUME NEW t \in Thread, CloseClear(t) PROVE Owned'
  <2> DEFINE d == thr[t].d
  <2>1. /\ thr[t]' = At("proto", -1, thr[t].sock) /\ (\A u \in Thread : u # t => thr[u]' = thr[u]) /\ thr[t].pc = "clear"
        /\ socks' = [socks EXCEPT ![d] = NoSock]
    BY <1>3, Zenon DEF CloseClear, TypeOK
  <2>2. ~Holding(t) /\ Holding(t)' /\ thr[t]'.sock = socks[d] /\ socks[d] # NoSock /\ d \in Desc
    BY <2>1, ThreadStates, SockAssumption DEF Holding, Disciplined
  <2>3. UNCHANGED <<tcp, udp, pcbs, given, dropped, stale>>
    BY <1>3, Zenon DEF CloseClear
  <2> HIDE DEF d
  <2> QED BY <2>1, <2>2, <2>3, HoldersClear, MoveOwned, Zenon
<1>4. ASSUME NEW t \in Thread, CloseProto(t) \/ Accept(t) PROVE Owned'
  BY <1>4, CloseOwned, AcceptOwned, Zenon
<1>5. ASSUME NEW t \in Thread,
             \/ \E d \in Desc : Close(t, d)
             \/ \E d \in Desc, call \in Calls \ {"connecting"} : Call(t, d, call)
             \/ Return(t)
      PROVE  Owned'
  <2>1. /\ socks' = socks /\ \A u \in Thread : u # t => thr[u]' = thr[u]
        /\ thr[t].pc \in {"idle"} \cup Calls /\ thr[t]'.pc \in {"idle", "clear"} \cup Calls
        /\ UNCHANGED <<tcp, udp, pcbs, given, dropped, stale>>
    BY <1>5, ThreadStates DEF Close, Call, Return, TypeOK
  <2>2. \A u \in Thread : Holding(u)' = Holding(u) /\ (Holding(u) => thr[u]'.sock = thr[u].sock)
    BY <2>1 DEF Holding, Calls
  <2>3. SameHolders
    BY <2>1, <2>2, HoldersKept, Zenon DEF SameHolders
  <2> QED BY <2>1, <2>3, QuietOwned, Zenon
<1>6. ASSUME NEW t \in Thread, Listen(t) \/ Connect(t) \/ ConnectFails(t) PROVE Owned'
  <2> DEFINE s == thr[t].sock.desc  d == thr[t].d
  <2>1. /\ thr[t].sock \in Sock /\ s \in Slot /\ thr[t].sock.ty = "STREAM" /\ d \in Desc /\ socks[d] = thr[t].sock
        /\ thr[t].pc \in Calls
    BY <1>6, Zenon DEF Listen, Connect, ConnectFails, Disciplined, Calls, Sock, TypeOK
  <2>2. /\ socks' = socks /\ \A u \in Thread : u # t => thr[u]' = thr[u]
        /\ thr[t]'.pc \in {"idle", "connecting"} /\ Live(s)
        /\ UNCHANGED <<udp, pcbs, given, dropped, stale>>
    <3>1. thr[t]'.pc \in {"idle", "connecting"}
      BY <1>6, ThreadStates DEF Listen, Connect, ConnectFails, TypeOK, ThreadState
    <3> QED BY <1>6, <3>1, Zenon DEF Listen, Connect, ConnectFails, TypeOK
  <2>3. \A u \in Thread : Holding(u)' = Holding(u) /\ (Holding(u) => thr[u]'.sock = thr[u].sock)
    BY <2>1, <2>2 DEF Holding, Calls
  <2>4. SameHolders
    BY <2>2, <2>3, HoldersKept, Zenon DEF SameHolders
  <2>5. \E st \in TcpState \ {"SYN_RECEIVED"} : tcp' = [tcp EXCEPT ![s].state = st]
    <3>1. CASE Listen(t)
      BY <3>1, Zenon DEF Listen, TcpState
    <3>2. CASE Connect(t)
      BY <3>2, Zenon DEF Connect, TcpState
    <3>3. CASE ConnectFails(t)
      BY <3>3, Zenon DEF ConnectFails, TcpState
    <3> QED BY <1>6, <3>1, <3>2, <3>3, Zenon
  <2>6. <<"sock", d>> \in OfType("STREAM") /\ Has(<<"sock", d>>) = thr[t].sock
    BY <2>1, HolderCases, SockAssumption, Zenon DEF OfType
  <2>7. stale \/ \E h \in OfType("STREAM") : Has(h).num = tcp[s].num
    BY <2>2, <2>6 DEF Owned, TcpOwned, LiveNamed, LostDropped, NumHeldOnce, GivenHeld, SynUngiven
  <2> HIDE DEF s, d
  <2> QED BY <2>1, <2>2, <2>4, <2>5, <2>7, StateOwned, Zenon
<1>7. ASSUME Network PROVE Owned'
  <2>1. socks' = socks /\ thr' = thr
    BY <1>7, Zenon DEF Network, NewConnection, Established, Reset, TimedOut
  <2>2. SameHolders
    BY <2>1, HoldersKept, Zenon DEF SameHolders, Holding
  <2>3. ASSUME NEW l \in Slot, NEW s \in Slot, NewConnection(l, s) PROVE Owned'
    BY <2>2, <2>3, NewConnectionOwned, Zenon
  <2>4. ASSUME NEW s \in Slot, Reset(s) PROVE Owned'
    BY <2>2, <2>4, ResetOwned, Zenon
  <2>5. ASSUME NEW s \in Slot, TimedOut(s) PROVE Owned'
    <3>1. "CLOSED" \in TcpState \ {"SYN_RECEIVED"}
      BY Zenon DEF TcpState
    <3>2. tcp' = [tcp EXCEPT ![s].state = "CLOSED"] /\ Live(s) /\ UNCHANGED <<udp, pcbs, given, dropped, stale>>
      BY <2>5, Zenon DEF TimedOut
    <3> QED BY <2>2, <3>1, <3>2, StateOwned, Zenon
  <2>6. ASSUME NEW s \in Slot, Established(s) PROVE Owned'
    <3>1. CASE tcp[s].state = "SYN_RECEIVED" /\ Live(tcp[s].parent)
      BY <2>2, <2>6, <3>1, QueueOwned, Zenon
    <3>2. CASE ~(tcp[s].state = "SYN_RECEIVED" /\ Live(tcp[s].parent))
      <4>1. tcp' = [tcp EXCEPT ![s].state = "ESTABLISHED"] /\ Live(s) /\ UNCHANGED <<udp, pcbs, given, dropped, stale>>
        BY <2>6, <3>2, Zenon DEF Established
      <4>2. "ESTABLISHED" \in TcpState \ {"SYN_RECEIVED"}
        BY Zenon DEF TcpState
      <4>3. tcp[s].state \notin {"CLOSED", "CLOSING"}
        BY <2>6, Zenon DEF Established
      <4> QED BY <2>2, <4>1, <4>2, <4>3, StateOwned, Zenon
    <3> QED BY <3>1, <3>2, Zenon
  <2> QED BY <1>7, <2>3, <2>4, <2>5, <2>6, Zenon DEF Network
<1> QED BY <1>1, <1>2, <1>3, <1>4, <1>5, <1>6, <1>7, Zenon DEF Next, Step

\* The invariant holds in every state of the socket layer: types, the discipline of the
\* application, one number for each PCB, and one holder for each PCB of the application.
THEOREM SockInvariant == Spec => []Inv
<1>1. Init => Inv
  <2> SUFFICES ASSUME Init PROVE Inv
    BY Zenon
  <2>1. TypeOK
    <3>1. 0 \in 0..MaxPcbs
      BY SockAssumption
    <3> QED BY <3>1, ThreadStates, Zenon DEF Init, TypeOK
  <2>2. Disciplined
    BY ThreadStates, Zenon DEF Init, Disciplined, Calls
  <2>3. Holders = {}
    BY ThreadStates, Zenon DEF Init, Holders
  <2>4. \A s \in Slot : ~Live(s) /\ udp[s] = NoPcb
    BY Zenon DEF Init, Live
  <2>5. OfType("DGRAM") = {} /\ OfType("STREAM") = {}
    BY <2>3, Zenon DEF OfType
  <2>6. NumsFresh /\ NumsUnique /\ UdpOwned
    BY <2>3, <2>4, <2>5, Zenon DEF NumsFresh, NumsUnique, UdpOwned, Init
  <2>7. TcpOwned /\ Backlogs
    BY <2>4, <2>5, Zenon DEF TcpOwned, LiveNamed, LostDropped, NumHeldOnce, GivenHeld, SynUngiven, Backlogs, QueuedUngiven, QueuedOnce, Queued
  <2> QED BY <2>1, <2>2, <2>6, <2>7, Zenon DEF Inv
<1>2. Inv /\ [Next]_vars => Inv'
  <2> SUFFICES ASSUME Inv, [Next]_vars PROVE Inv'
    BY Zenon
  <2>1. CASE Next
    BY <2>1, TypesKept, DisciplineKept, OwnedKept, Zenon DEF Inv, Owned
  <2>2. CASE UNCHANGED vars
    <3>1. TypeOK' /\ Disciplined'
      BY <2>2, Zenon DEF Inv, TypeOK, Disciplined, vars
    <3>2. \A u \in Thread : Holding(u)' = Holding(u) /\ (Holding(u) => thr[u]'.sock = thr[u].sock)
      BY <2>2, Zenon DEF vars, Holding
    <3>3. SameHolders
      BY <2>2, <3>2, HoldersKept, Zenon DEF SameHolders, vars
    <3>4. Owned'
      BY <2>2, <3>3, QuietOwned, Zenon DEF vars, Inv, Owned
    <3> QED BY <3>1, <3>4, Zenon DEF Inv, Owned
  <2> QED BY <2>1, <2>2, Zenon
<1> QED BY <1>1, <1>2, PTL DEF Spec

\* The types.
THEOREM SockTypes == Spec => []TypeOK
<1>1. Inv => TypeOK
  BY Zenon DEF Inv
<1> QED BY <1>1, SockInvariant, PTL

\* A descriptor names the PCB for which it was made, or for a stream one that a segment
\* released.
THEOREM DescriptorNamesItsPcb == Spec => []RightPcb
<1>1. Inv => RightPcb
  BY Zenon DEF Inv, UdpOwned, TcpOwned, LiveNamed, LostDropped, NumHeldOnce, GivenHeld, SynUngiven, RightPcb
<1> QED BY <1>1, SockInvariant, PTL

\* No PCB has two descriptors.
THEOREM PcbHasOneSocket == Spec => []OneSocketPerPcb
<1>1. Inv => OneSocketPerPcb
  BY Zenon DEF Inv, UdpOwned, TcpOwned, LiveNamed, LostDropped, NumHeldOnce, GivenHeld, SynUngiven, OneSocketPerPcb
<1> QED BY <1>1, SockInvariant, PTL

\* A PCB that the application was given has a descriptor or a call at work on it, or tcp.rs
\* has it CLOSED or closing.
THEOREM PcbsAccountedFor == Spec => []NoOrphan
<1>1. Inv => NoOrphan
  <2> SUFFICES ASSUME Inv PROVE NoOrphan
    BY Zenon
  <2>1. \A s \in Slot : udp[s] # NoPcb => udp[s] \in {Has(h).num : h \in OfType("DGRAM")}
    BY Zenon DEF Inv, UdpOwned
  <2>2. ~stale => \A s \in Slot : (Live(s) /\ tcp[s].num \in given) =>
          tcp[s].num \in {Has(h).num : h \in OfType("STREAM")} \/ tcp[s].state \in {"CLOSED", "CLOSING"}
    BY Zenon DEF Inv, TcpOwned, LiveNamed, LostDropped, NumHeldOnce, GivenHeld, SynUngiven
  <2> QED BY <2>1, <2>2, Zenon DEF NoOrphan
<1> QED BY <1>1, SockInvariant, PTL
=============================================================================
