--------------------------- MODULE TcpStackProofs --------------------------
(***************************************************************************)
(* Proofs about Tcp, for any number of hosts, threads and slots, any       *)
(* sequence space and any faults.  The invariant puts together the types,  *)
(* the account of the receive windows, the uniqueness of connections and   *)
(* the fact that nobody waits on the task of a released PCB, which the     *)
(* typing of the interrupt flag rests on.                                  *)
(***************************************************************************)
EXTENDS Tcp, TcpPcbProofs

\* An application that calls listen and connect only on PCBs no connection has used.
NoRecycle == \A t \in Thread : "recycle" \notin Calls[t]

Waiting(th) == th.pc \in {"wait", "woken"}

WaitersLive ==
  \A t \in Thread : Waiting(thr[t]) => thr[t].desc \in Live(pcbs[ThreadHost[t]])

ThreadsOK == thr \in [Thread -> ThreadState] /\ fds \in [Host -> SUBSET Desc] /\ faults \in 0..MaxFaults

StackInv ==
  /\ pcbs \in [Host -> [Desc -> Pcb \cup {NoPcb}]]
  /\ \A h \in Host : TabOK(pcbs[h])
  /\ ThreadsOK
  /\ WaitersLive

\* The invariant gives the properties.
LEMMA StackInvImplies == StackInv => StackTypeOK /\ WindowAccounting /\ ConnectionUnique
<1> SUFFICES ASSUME StackInv PROVE StackTypeOK /\ WindowAccounting /\ ConnectionUnique
  OBVIOUS
<1>1. StackTypeOK
  BY DEF StackInv, ThreadsOK, StackTypeOK
<1>2. WindowAccounting
  BY DEF StackInv, TabOK, Accounted, WindowAccounting, LivePcb
<1>3. ConnectionUnique
  <2> SUFFICES ASSUME NEW h \in Host, NEW c \in Desc, NEW d \in Desc, LivePcb(h, c), LivePcb(h, d),
                      Active(pcbs[h][c]), Active(pcbs[h][d]), pcbs[h][c].local = pcbs[h][d].local,
                      pcbs[h][c].remote = pcbs[h][d].remote
               PROVE  c = d
    BY DEF ConnectionUnique
  <2> QED BY DEF StackInv, TabOK, SameEndpoints, LivePcb
<1> QED BY <1>1, <1>2, <1>3

\* The waiters of th wait where they did, unless their PCB was released, or on a live PCB.
WaitsOn(th, h, released, tab) ==
  \A u \in Thread : Waiting(th[u]) =>
    \/ /\ Waiting(thr[u]) /\ th[u].desc = thr[u].desc
       /\ ~(ThreadHost[u] = h /\ thr[u].desc \in released)
    \/ ThreadHost[u] = h /\ th[u].desc \in Live(tab)

-----------------------------------------------------------------------------
\* What the helpers on threads yield.
LEMMA ReturnsType ==
  ASSUME NEW th \in [Thread -> ThreadState], NEW t \in Thread, NEW ret \in {"none", "Ok", "Err", "Eof"}
  PROVE  /\ Returns(th, t, ret) \in [Thread -> ThreadState]
         /\ ~Waiting(Returns(th, t, ret)[t])
         /\ \A u \in Thread \ {t} : Returns(th, t, ret)[u] = th[u]
<1> DEFINE x == [th[t] EXCEPT !.pc = "idle", !.desc = NoDesc, !.data = <<>>, !.sent = 0, !.ret = ret]
<1>1. th[t] \in ThreadState /\ NoDesc \in Desc \cup {NoDesc} /\ <<>> \in Seq(Byte) /\ 0 \in Nat
  OBVIOUS
<1>2. x \in ThreadState /\ x.pc = "idle"
  <2> HIDE DEF NoDesc
  <2> QED BY <1>1, Zenon DEF ThreadState
<1>3. Returns(th, t, ret) = [th EXCEPT ![t] = x]
  BY DEF Returns
<1> HIDE DEF x
<1> QED BY <1>2, <1>3 DEF Waiting

\* notify changes no more than the pc of the waiters; those of released PCBs stop waiting.
LEMMA WokenType ==
  ASSUME ThreadsOK, NEW h, NEW notified, NEW released
  PROVE  /\ Woken(h, notified, released) \in [Thread -> ThreadState]
         /\ \A u \in Thread : Waiting(Woken(h, notified, released)[u]) =>
              /\ Waiting(thr[u]) /\ Woken(h, notified, released)[u].desc = thr[u].desc
              /\ ~(ThreadHost[u] = h /\ thr[u].desc \in released)
<1>1. ASSUME NEW u \in Thread, NEW s \in {"lock", "intr", "woken"}
      PROVE  /\ [thr[u] EXCEPT !.pc = s] \in ThreadState
             /\ [thr[u] EXCEPT !.pc = s].pc = s /\ [thr[u] EXCEPT !.pc = s].desc = thr[u].desc
  <2>1. thr[u] \in ThreadState
    BY DEF ThreadsOK
  <2> QED BY <2>1 DEF ThreadState
<1>2. ASSUME NEW u \in Thread
      PROVE  /\ Woken(h, notified, released)[u] \in ThreadState
             /\ Waiting(Woken(h, notified, released)[u]) =>
                  /\ Waiting(thr[u]) /\ Woken(h, notified, released)[u].desc = thr[u].desc
                  /\ ~(ThreadHost[u] = h /\ thr[u].desc \in released)
  <2>0. thr[u] \in ThreadState
    BY DEF ThreadsOK
  <2>1. CASE thr[u].pc \in {"wait", "woken"} /\ OnDesc(u, h, released)
    <3> DEFINE s == IF pcbs[h][thr[u].desc].intr THEN "intr" ELSE "lock"
    <3>1. Woken(h, notified, released)[u] = [thr[u] EXCEPT !.pc = s]
      BY <2>1 DEF Woken, OnDesc
    <3>2. s \in {"lock", "intr"}
      OBVIOUS
    <3> HIDE DEF s
    <3>3. /\ [thr[u] EXCEPT !.pc = s] \in ThreadState
          /\ [thr[u] EXCEPT !.pc = s].pc \in {"lock", "intr"}
      BY <1>1, <3>2, Zenon
    <3> QED BY <3>1, <3>3 DEF Waiting
  <2>2. CASE /\ ~(thr[u].pc \in {"wait", "woken"} /\ OnDesc(u, h, released))
             /\ thr[u].pc = "wait" /\ OnDesc(u, h, notified \ released)
    <3>1. Woken(h, notified, released)[u] = [thr[u] EXCEPT !.pc = "woken"]
      BY <2>2 DEF Woken
    <3> QED BY <1>1, <2>2, <3>1, Zenon DEF Waiting, OnDesc
  <2>3. CASE /\ ~(thr[u].pc \in {"wait", "woken"} /\ OnDesc(u, h, released))
             /\ ~(thr[u].pc = "wait" /\ OnDesc(u, h, notified \ released))
    <3>1. Woken(h, notified, released)[u] = thr[u]
      BY <2>3 DEF Woken
    <3> QED BY <2>0, <2>3, <3>1 DEF Waiting, OnDesc
  <2> QED BY <2>1, <2>2, <2>3
<1>3. Woken(h, notified, released) = [u \in Thread |-> Woken(h, notified, released)[u]]
  BY DEF Woken
<1> QED BY <1>2, <1>3

\* A thread that begins a call.
LEMMA BeginType ==
  ASSUME ThreadsOK, NEW t \in Thread, NEW op \in CallName, NEW d \in Desc
  PROVE  Begin(t, op, d) \in ThreadState /\ ~Waiting(Begin(t, op, d))
<1>1. thr[t] \in ThreadState
  BY DEF ThreadsOK
<1> DEFINE n == IF op \in {"active", "passive"} THEN thr[t].opens + 1 ELSE thr[t].opens
<1>2. n \in Nat
  BY <1>1 DEF ThreadState
<1> DEFINE x == [thr[t] EXCEPT !.pc = "lock", !.op = op, !.desc = d, !.ret = "none", !.opens = n]
<1>3. Begin(t, op, d) = x
  BY DEF Begin
<1>4. x \in ThreadState /\ x.pc = "lock"
  <2>1. op \in CallName \cup {"none"} /\ d \in Desc \cup {NoDesc}
    OBVIOUS
  <2> HIDE DEF n
  <2> QED BY <1>1, <1>2, <2>1, Zenon DEF ThreadState
<1> HIDE DEF x
<1> QED BY <1>3, <1>4 DEF Waiting

\* One thread changes its state.
LEMMA PutThread ==
  ASSUME ThreadsOK, NEW t \in Thread, NEW x \in ThreadState, thr' = [thr EXCEPT ![t] = x]
  PROVE  /\ thr' \in [Thread -> ThreadState] /\ thr'[t] = x
         /\ \A u \in Thread \ {t} : thr'[u] = thr[u]
BY DEF ThreadsOK

\* A thread that only changes its pc.
LEMMA PcType ==
  ASSUME ThreadsOK, NEW t \in Thread, NEW s \in {"idle", "lock", "estab", "wait", "woken", "intr"},
         thr' = [thr EXCEPT ![t].pc = s]
  PROVE  /\ thr' \in [Thread -> ThreadState] /\ thr'[t].pc = s /\ thr'[t].desc = thr[t].desc
         /\ \A u \in Thread \ {t} : thr'[u] = thr[u]
<1> DEFINE x == [thr[t] EXCEPT !.pc = s]
<1>1. thr[t] \in ThreadState
  BY DEF ThreadsOK
<1>2. x \in ThreadState /\ x.pc = s /\ x.desc = thr[t].desc
  BY <1>1 DEF ThreadState
<1>3. thr' = [thr EXCEPT ![t] = x]
  OBVIOUS
<1> HIDE DEF x
<1> QED BY <1>2, <1>3, PutThread, Zenon

\* The endpoints of an active open are free.
LEMMA LocalForFree ==
  ASSUME NEW tab, NEW h \in Host, NEW arg \in Endp, NEW remote, NEW local \in LocalFor(tab, h, arg, remote)
  PROVE  local \in Endp /\ Matches(tab, local, remote) = {}
<1> DEFINE addr == IF arg.addr = ANY THEN HostAddr[h] ELSE arg.addr
           Free(q) == Matches(tab, [addr |-> addr, port |-> q], remote) = {}
<1>1. PICK q \in Port : Free(q) /\ local = [addr |-> addr, port |-> q]
  BY TcpAssumption, Zenon DEF LocalFor, Endp
<1>2. addr \in Addr
  BY TcpAssumption DEF Endp
<1> HIDE DEF addr
<1> QED BY <1>1, <1>2 DEF Endp

\* pcb_select returns a live PCB, and a listening one only when nothing else matches.
LEMMA SelectsProperties ==
  ASSUME NEW tab, NEW local, NEW remote, NEW d \in Desc, Selects(tab, local, remote, d)
  PROVE  /\ d \in Live(tab)
         /\ RemoteMatch(tab[d], remote)
         /\ tab[d].state = "Listen" => \A e \in Matches(tab, local, remote) : tab[e].state = "Listen"
BY DEF Selects, Matches

-----------------------------------------------------------------------------
(***************************************************************************)
(* The invariant is inductive: one step of the proof per action.           *)
(***************************************************************************)
\* No PCB, no call and nothing on the network.
LEMMA InitStackInv == Init => StackInv
<1> SUFFICES ASSUME Init PROVE StackInv
  OBVIOUS
<1>1. \A h \in Host : pcbs[h] = [d \in Desc |-> NoPcb]
  BY DEF Init
<1>2. \A h \in Host : Live(pcbs[h]) = {} /\ TabOK(pcbs[h])
  BY <1>1 DEF Live, TabOK
<1>3. thr \in [Thread -> ThreadState] /\ \A t \in Thread : thr[t].pc = "idle"
  BY DEF Init, ThreadState
<1>4. ThreadsOK
  BY <1>3, TcpAssumption DEF Init, ThreadsOK
<1>5. WaitersLive
  BY <1>3 DEF WaitersLive, Waiting
<1>6. pcbs \in [Host -> [Desc -> Pcb \cup {NoPcb}]]
  BY DEF Init
<1> QED BY <1>2, <1>4, <1>5, <1>6 DEF StackInv

(***************************************************************************)
(* The rounds of send and receive that move text.                          *)
(***************************************************************************)
\* send passes the next n bytes of its argument to output.
NextText(t, n) == SubSeq(thr[t].data, thr[t].sent + 1, thr[t].sent + n)
SendsText(t, n) ==
  LET h == ThreadHost[t]
      d == thr[t].desc
      p == pcbs[h][d]
  IN /\ thr[t].op = "send" /\ d \in Live(pcbs[h]) /\ p.state \in {"Established", "CloseWait"}
     /\ n \in Nat /\ thr[t].sent + n <= Len(thr[t].data) /\ n <= Capacity(p)
     /\ NextText(t, n) \in Seq(Byte) /\ Len(NextText(t, n)) = n
     /\ pcbs' = [pcbs EXCEPT ![h][d] = TextSent(p, NextText(t, n), n)]
     /\ thr' = [thr EXCEPT ![t] = WroteOn(thr[t], n)]
     /\ net' = Transmit(net, <<Output(p, {"ACK", "PSH"}, NextText(t, n))>>)

\* receive hands out the first n bytes of the buffer.
Took(th, text) == [th EXCEPT !.got = @ \o text]
ReadsText(t, n) ==
  LET h == ThreadHost[t]
      d == thr[t].desc
      p == pcbs[h][d]
  IN /\ thr[t].op = "receive" /\ d \in Live(pcbs[h])
     /\ p.state \in {"Established", "FinWait1", "FinWait2", "CloseWait"} /\ n \in 1..Len(p.buf)
     /\ pcbs' = [pcbs EXCEPT ![h][d] = Drained(p, n)]
     /\ thr' = Returns([thr EXCEPT ![t] = Took(thr[t], SubSeq(p.buf, 1, n))], t, "Ok")
     /\ UNCHANGED net

\* The other rounds of the two loops.
Rests(t) ==
  /\ UNCHANGED <<pcbs, net>>
  /\ \/ \E ret \in {"Ok", "Err", "Eof"} : thr' = Returns(thr, t, ret)
     \/ thr[t].desc \in Live(pcbs[ThreadHost[t]]) /\ thr' = [thr EXCEPT ![t].pc = "wait"]

\* A round of send.
LEMMA SendRound == ASSUME StackInv, NEW t \in Thread, SendStep(t) PROVE Rests(t) \/ \E n : SendsText(t, n)
<1> DEFINE h == ThreadHost[t]
           d == thr[t].desc
           p == pcbs[h][d]
           data == thr[t].data
           sent == thr[t].sent
           n == Min({p.mss, Len(data) - sent, Capacity(p)})
<1>1. h \in Host /\ TabOK(pcbs[h]) /\ thr[t] \in ThreadState
  BY TcpAssumption DEF StackInv, ThreadsOK
<1>2. CASE /\ d \in Live(pcbs[h]) /\ p.state \in {"Established", "CloseWait"} /\ thr[t].op = "send"
           /\ Len(data) - sent > 0 /\ pcbs' = [pcbs EXCEPT ![h][d] = TextSent(p, NextText(t, n), n)]
           /\ net' = Transmit(net, <<Output(p, {"ACK", "PSH"}, NextText(t, n))>>)
           /\ thr' = [thr EXCEPT ![t] = WroteOn(thr[t], n)]
  <2>1. data \in Seq(Byte) /\ sent \in Nat
    BY <1>1 DEF ThreadState
  <2>2. p.mss \in Nat /\ Capacity(p) \in Nat
    <3>1. p \in Pcb
      BY <1>1, <1>2, LivePcbs, Zenon
    <3>2. p.mss \in Nat
      BY <3>1 DEF Pcb
    <3> QED BY <3>1, <3>2, CapacityType, Zenon
  <2>3. sent < Len(data)
    <3> DEFINE l == Len(data)
    <3>1. l \in Nat /\ l - sent > 0
      BY <1>2, <2>1, LenType, Zenon
    <3> HIDE DEF l, data, sent
    <3>2. sent < l
      BY <2>1, <3>1
    <3> QED BY <3>2 DEF l
  <2>4. n \in Nat /\ n <= Capacity(p) /\ sent + n <= Len(data) /\ NextText(t, n) \in Seq(Byte)
    <3> HIDE DEF p
    <3> QED BY <2>1, <2>2, <2>3, ChunkType, Zenon DEF NextText
  <2> HIDE DEF n
  <2>5. Len(NextText(t, n)) = n
    BY <2>1, <2>4, PieceLength, Zenon DEF NextText
  <2>6. SendsText(t, n)
    BY <1>2, <2>4, <2>5, Zenon DEF SendsText
  <2> QED BY <2>6
<1>3. CASE ~(Len(data) - sent > 0 /\ d \in Live(pcbs[h]) /\ p.state \in {"Established", "CloseWait"} /\ Capacity(p) > 0)
  BY <1>3, Zenon DEF SendStep, Rests
<1> QED BY <1>2, <1>3, Zenon DEF SendStep, AtLoop, NextText, Rests

\* A round of receive.
LEMMA ReceiveRound == ASSUME StackInv, NEW t \in Thread, ReceiveStep(t) PROVE Rests(t) \/ \E n : ReadsText(t, n)
<1> DEFINE h == ThreadHost[t]
           d == thr[t].desc
           p == pcbs[h][d]
<1>1. h \in Host /\ TabOK(pcbs[h]) /\ thr[t].op = "receive" /\ UNCHANGED net
  BY TcpAssumption, Zenon DEF StackInv, ReceiveStep, AtLoop
<1>2. ASSUME d \in Live(pcbs[h]), p.state \in {"Established", "FinWait1", "FinWait2", "CloseWait"}, p.buf # <<>>,
             NEW len \in RecvLen, NEW n, n = Min({len, Len(p.buf)}),
             pcbs' = [pcbs EXCEPT ![h][d] = Drained(p, n)],
             thr' = Returns([thr EXCEPT ![t] = Took(thr[t], SubSeq(p.buf, 1, n))], t, "Ok")
      PROVE  ReadsText(t, n)
  <2>1. p \in Pcb
    BY <1>1, <1>2, LivePcbs, Zenon
  <2>2. n \in 1..Len(p.buf)
    <3>1. p.buf \in Seq(Byte)
      BY <2>1 DEF Pcb
    <3>2. Len(p.buf) \in Nat /\ Len(p.buf) # 0
      BY <1>2, <3>1, LenType, Zenon
    <3>3. len \in Nat \ {0}
      BY TcpAssumption
    <3> DEFINE l == Len(p.buf)
    <3> HIDE DEF l
    <3>4. Min({len, l}) \in {len, l} /\ Min({len, l}) <= l
      BY <3>2, <3>3, MinProperties, Zenon DEF l
    <3>5. Min({len, l}) \in 1..l
      BY <3>2, <3>3, <3>4 DEF l
    <3> QED BY <1>2, <3>5 DEF l
  <2> QED BY <1>1, <1>2, <2>2, Zenon DEF ReadsText
<1> QED BY <1>1, <1>2, Zenon DEF ReceiveStep, Rests, Took

\* The invariant is inductive.
LEMMA StepStackInv == ASSUME NoRecycle, StackInv PROVE [Next]_vars => StackInv'
\* A step of one host.
<1>HostStep. ASSUME NEW h \in Host, NEW tab, TabOK(tab), pcbs' = [pcbs EXCEPT ![h] = tab], NEW released,
                    Live(pcbs[h]) \ released \subseteq Live(tab), ThreadsOK',
                    WaitsOn(thr', h, released, tab)
      PROVE  StackInv'
  <2> USE <1>HostStep
  <2>1. pcbs'[h] = tab /\ \A g \in Host \ {h} : pcbs'[g] = pcbs[g]
    BY DEF StackInv
  <2>2. pcbs' \in [Host -> [Desc -> Pcb \cup {NoPcb}]]
    BY DEF StackInv, TabOK
  <2>3. \A g \in Host : TabOK(pcbs'[g])
    BY <2>1 DEF StackInv
  <2>4. WaitersLive'
    <3> SUFFICES ASSUME NEW u \in Thread, Waiting(thr'[u]) PROVE thr'[u].desc \in Live(pcbs'[ThreadHost[u]])
      BY DEF WaitersLive
    <3>1. ThreadHost[u] \in Host
      BY TcpAssumption
    <3>2. CASE ThreadHost[u] = h /\ thr'[u].desc \in Live(tab)
      BY <2>1, <3>2
    <3>3. CASE /\ Waiting(thr[u]) /\ thr'[u].desc = thr[u].desc
               /\ ~(ThreadHost[u] = h /\ thr[u].desc \in released)
      <4>1. thr[u].desc \in Live(pcbs[ThreadHost[u]])
        BY <3>3 DEF StackInv, WaitersLive
      <4> QED BY <2>1, <3>1, <3>3, <4>1
    <3> QED BY <3>2, <3>3 DEF WaitsOn
  <2> QED BY <2>2, <2>3, <2>4 DEF StackInv
\* A step that leaves the tables alone and in which nobody starts to wait on a free slot.
<1>ThreadOnly. ASSUME UNCHANGED pcbs, ThreadsOK',
                      \A u \in Thread : Waiting(thr'[u]) => \/ Waiting(thr[u]) /\ thr'[u].desc = thr[u].desc
                                                           \/ thr'[u].desc \in Live(pcbs[ThreadHost[u]])
      PROVE  StackInv'
  BY <1>ThreadOnly DEF StackInv, WaitersLive
\* The count of faults stays within its bound.
<1>FaultType. ASSUME ThreadsOK, NEW kind, Fault(kind) PROVE faults' \in 0..MaxFaults
  BY <1>FaultType, TcpAssumption DEF Fault, ThreadsOK
\* bind and listen change a PCB that is no connection.
<1>QuietPut. ASSUME NEW h \in Host, NEW d \in Live(pcbs[h]), NEW q, Fits(pcbs[h], d, q),
                    pcbs' = [pcbs EXCEPT ![h][d] = q], UNCHANGED <<thr, fds>>, faults' \in 0..MaxFaults
      PROVE  StackInv'
  <2> USE <1>QuietPut
  <2> DEFINE tab == [pcbs[h] EXCEPT ![d] = q]
  <2>1. TabOK(pcbs[h]) /\ d \in Desc
    BY DEF StackInv, Live
  <2>2. TabOK(tab) /\ Live(pcbs[h]) \ {} \subseteq Live(tab)
    BY <2>1, TabPut
  <2>3. pcbs' = [pcbs EXCEPT ![h] = tab]
    OBVIOUS
  <2>4. ThreadsOK'
    BY DEF StackInv, ThreadsOK
  <2>5. WaitsOn(thr', h, {}, tab)
    BY DEF WaitsOn
  <2> QED BY <2>2, <2>3, <2>4, <2>5, <1>HostStep, Zenon
\* pcb_release, with what hangs off its backlog; the tasks released wake everybody up.
<1>ReleaseStep. ASSUME NEW h \in Host, NEW gone, pcbs' = [pcbs EXCEPT ![h] = Without(pcbs[h], gone)],
                       thr' = Woken(h, {}, gone), fds' \in [Host -> SUBSET Desc], faults' \in 0..MaxFaults
      PROVE  StackInv'
  <2> USE <1>ReleaseStep
  <2> DEFINE tab == Without(pcbs[h], gone)
  <2>1. TabOK(pcbs[h]) /\ ThreadsOK
    BY DEF StackInv
  <2>2. TabOK(tab) /\ Live(pcbs[h]) \ gone \subseteq Live(tab)
    BY <2>1, TabWithout
  <2>3. ThreadsOK'
    BY <2>1, WokenType DEF ThreadsOK
  <2>4. WaitsOn(thr', h, gone, tab)
    BY <2>1, WokenType DEF WaitsOn
  <2>5. pcbs' = [pcbs EXCEPT ![h] = tab]
    OBVIOUS
  <2> HIDE DEF tab
  <2> QED BY <2>2, <2>3, <2>4, <2>5, <1>HostStep, Zenon
\* A connection moves on and its task is notified.
<1>NotifyStep. ASSUME NEW h \in Host, NEW d \in Live(pcbs[h]), NEW q, Fits(pcbs[h], d, q), NEW notified,
                      pcbs' = [pcbs EXCEPT ![h][d] = q], thr' = Woken(h, notified, {}),
                      fds' \in [Host -> SUBSET Desc], faults' \in 0..MaxFaults
      PROVE  StackInv'
  <2> USE <1>NotifyStep
  <2> DEFINE tab == [pcbs[h] EXCEPT ![d] = q]
  <2>1. TabOK(pcbs[h]) /\ ThreadsOK /\ d \in Desc
    BY DEF StackInv, Live
  <2>2. TabOK(tab) /\ Live(pcbs[h]) \ {} \subseteq Live(tab)
    BY <2>1, TabPut
  <2>3. ThreadsOK'
    BY <2>1, WokenType DEF ThreadsOK
  <2>4. WaitsOn(thr', h, {}, tab)
    BY <2>1, WokenType DEF WaitsOn
  <2>5. pcbs' = [pcbs EXCEPT ![h] = tab]
    OBVIOUS
  <2> HIDE DEF tab
  <2> QED BY <2>2, <2>3, <2>4, <2>5, <1>HostStep, Zenon
\* A thread starts to wait for the connection it opens.
<1>OpenStep. ASSUME NEW t \in Thread, NEW h \in Host, h = ThreadHost[t], NEW d \in Desc, NEW q,
                    Fits(pcbs[h], d, q), pcbs' = [pcbs EXCEPT ![h][d] = q], NEW op \in CallName,
                    thr' = [thr EXCEPT ![t] = Begin(t, op, d)], UNCHANGED <<fds, faults>>
      PROVE  StackInv'
  <2> USE <1>OpenStep
  <2> DEFINE tab == [pcbs[h] EXCEPT ![d] = q]
             x == Begin(t, op, d)
  <2>1. TabOK(pcbs[h]) /\ ThreadsOK
    BY DEF StackInv
  <2>2. TabOK(tab) /\ Live(pcbs[h]) \ {} \subseteq Live(tab)
    BY <2>1, TabPut
  <2>3. x \in ThreadState /\ ~Waiting(x) /\ thr' = [thr EXCEPT ![t] = x]
    BY <2>1, BeginType
  <2> HIDE DEF x
  <2>4. /\ thr' \in [Thread -> ThreadState] /\ thr'[t] = x
        /\ \A u \in Thread \ {t} : thr'[u] = thr[u]
    BY <2>1, <2>3, PutThread, Zenon
  <2>5. ThreadsOK'
    BY <2>1, <2>4 DEF ThreadsOK
  <2>6. WaitsOn(thr', h, {}, tab)
    BY <2>3, <2>4 DEF WaitsOn
  <2>7. pcbs' = [pcbs EXCEPT ![h] = tab]
    OBVIOUS
  <2> HIDE DEF tab
  <2> QED BY <2>2, <2>5, <2>6, <2>7, <1>HostStep, Zenon
\* The first half of an active open.
<1>StartActiveStep. ASSUME NEW t \in Thread, NEW h \in Host, h = ThreadHost[t], NEW d \in Desc,
                           NEW p \in Pcb, p.buf = <<>>, NEW arg \in Endp, NEW remote \in Endp,
                           NEW local \in LocalFor(pcbs[h], h, arg, remote), NEW iss \in SeqNo,
                           NEW op \in CallName, StartActive(t, op, h, d, p, local, remote, iss),
                           UNCHANGED <<fds, faults>>
      PROVE  StackInv'
  <2> USE <1>StartActiveStep
  <2> DEFINE s == SynSent(p, local, remote, iss)
             nxt == Plus(iss, 1)
             q == [s EXCEPT !.snd_una = iss, !.snd_nxt = nxt, !.state = "SynSent"]
  <2>1. local \in Endp /\ Matches(pcbs[h], local, remote) = {}
    BY LocalForFree, Zenon
  <2>2. Starts(s, local, remote)
    BY <2>1, SynSentStarts
  <2>3. pcbs' = [pcbs EXCEPT ![h][d] = q] /\ thr' = [thr EXCEPT ![t] = Begin(t, op, d)]
    BY DEF StartActive
  <2>4. nxt \in SeqNo
    <3>1. iss \in Int
      BY TcpPcbAssumption DEF SeqNo
    <3> QED BY <3>1, PlusType
  <2> HIDE DEF s, nxt
  <2>5. Starts(q, local, remote) /\ q.state = "SynSent"
    BY <2>2, <2>4, Zenon DEF Starts, Pcb, TcpState
  <2> HIDE DEF q
  <2>6. Accounted(q)
    BY <2>5, StartsAccounted
  <2>7. Fits(pcbs[h], d, q)
    BY <2>1, <2>5, <2>6, FreshFits
  <2> QED BY <2>3, <2>7, <1>OpenStep, Zenon
\* A PCB changes while a thread returns or goes on; nobody starts to wait.
<1>ReturnStep. ASSUME NEW t \in Thread, NEW h \in Host, NEW d \in Live(pcbs[h]), NEW q,
                      Fits(pcbs[h], d, q), pcbs' = [pcbs EXCEPT ![h][d] = q], ThreadsOK',
                      ~Waiting(thr'[t]), \A u \in Thread \ {t} : thr'[u] = thr[u]
      PROVE  StackInv'
  <2> USE <1>ReturnStep
  <2> DEFINE tab == [pcbs[h] EXCEPT ![d] = q]
  <2>1. TabOK(pcbs[h]) /\ d \in Desc
    BY DEF StackInv, Live
  <2>2. TabOK(tab) /\ Live(pcbs[h]) \ {} \subseteq Live(tab)
    BY <2>1, TabPut
  <2>3. WaitsOn(thr', h, {}, tab)
    BY DEF WaitsOn
  <2>4. pcbs' = [pcbs EXCEPT ![h] = tab]
    OBVIOUS
  <2> HIDE DEF tab
  <2> QED BY <2>2, <2>3, <2>4, <1>HostStep, Zenon
\* A thread returns and nothing else happens.
<1>JustReturns. ASSUME NEW t \in Thread, NEW ret \in {"none", "Ok", "Err", "Eof"},
                       UNCHANGED <<pcbs, faults>>, fds' \in [Host -> SUBSET Desc],
                       thr' = Returns(thr, t, ret)
      PROVE  StackInv'
  <2> USE <1>JustReturns
  <2>1. ThreadsOK /\ thr \in [Thread -> ThreadState]
    BY DEF StackInv, ThreadsOK
  <2>2. /\ thr' \in [Thread -> ThreadState] /\ ~Waiting(thr'[t])
        /\ \A u \in Thread \ {t} : thr'[u] = thr[u]
    BY <2>1, ReturnsType
  <2>3. ThreadsOK'
    BY <2>1, <2>2 DEF ThreadsOK
  <2> QED BY <2>2, <2>3, <1>ThreadOnly
\* A thread changes its pc and nothing else happens; it waits only on a live PCB.
<1>JustMoves. ASSUME NEW t \in Thread, NEW s \in {"idle", "lock", "estab", "wait", "woken", "intr"},
                     UNCHANGED <<pcbs, fds, faults>>, thr' = [thr EXCEPT ![t].pc = s],
                     s \in {"wait", "woken"} => thr[t].desc \in Live(pcbs[ThreadHost[t]])
      PROVE  StackInv'
  <2> USE <1>JustMoves
  <2>1. ThreadsOK
    BY DEF StackInv
  <2>2. /\ thr' \in [Thread -> ThreadState] /\ thr'[t].pc = s /\ thr'[t].desc = thr[t].desc
        /\ \A u \in Thread \ {t} : thr'[u] = thr[u]
    BY <2>1, PcType, Zenon
  <2>3. ThreadsOK'
    BY <2>1, <2>2 DEF ThreadsOK
  <2> QED BY <2>2, <2>3, <1>ThreadOnly DEF Waiting
\* open and connect give up.
<1>GiveUpStep. ASSUME NEW t \in Thread, NEW h \in Host, NEW d \in Live(pcbs[h]), GiveUp(t, h, d),
                      UNCHANGED <<fds, faults>>
      PROVE  StackInv'
  <2> USE <1>GiveUpStep
  <2>1. ThreadsOK /\ thr \in [Thread -> ThreadState] /\ TabOK(pcbs[h]) /\ "Err" \in {"none", "Ok", "Err", "Eof"}
    BY DEF StackInv, ThreadsOK
  <2>2. CASE thr[t].op = "connect"
    <3> DEFINE q == [pcbs[h][d] EXCEPT !.state = "Closed"]
    <3>1. pcbs' = [pcbs EXCEPT ![h][d] = q] /\ thr' = Returns(thr, t, "Err")
      BY <2>2 DEF GiveUp
    <3>2. q \in Pcb /\ q.state = "Closed"
      <4>1. pcbs[h][d] \in Pcb
        BY <2>1, LivePcbs
      <4> QED BY <4>1, Zenon DEF Pcb, TcpState
    <3> HIDE DEF q
    <3>3. Fits(pcbs[h], d, q)
      BY <3>2 DEF Fits, Accounted, Active
    <3>4. /\ thr' \in [Thread -> ThreadState] /\ ~Waiting(thr'[t])
          /\ \A u \in Thread \ {t} : thr'[u] = thr[u]
      BY <2>1, <3>1, ReturnsType
    <3>5. ThreadsOK'
      BY <2>1, <3>4 DEF ThreadsOK
    <3> QED BY <3>1, <3>3, <3>4, <3>5, <1>ReturnStep, Zenon
  <2>3. CASE thr[t].op # "connect"
    <3> DEFINE gone == TornDown(pcbs[h], d)
               tab == Without(pcbs[h], gone)
               th == Woken(h, {}, gone)
    <3>1. pcbs' = [pcbs EXCEPT ![h] = tab] /\ thr' = Returns(th, t, "Err")
      BY <2>3 DEF GiveUp
    <3>2. /\ th \in [Thread -> ThreadState]
          /\ \A u \in Thread : Waiting(th[u]) =>
               /\ Waiting(thr[u]) /\ th[u].desc = thr[u].desc
               /\ ~(ThreadHost[u] = h /\ thr[u].desc \in gone)
      BY <2>1, WokenType
    <3>3. TabOK(tab) /\ Live(pcbs[h]) \ gone \subseteq Live(tab)
      BY <2>1, TabWithout
    <3> HIDE DEF gone, tab, th
    <3>4. /\ thr' \in [Thread -> ThreadState] /\ ~Waiting(thr'[t])
          /\ \A u \in Thread \ {t} : thr'[u] = th[u]
      BY <2>1, <3>1, <3>2, ReturnsType
    <3>5. ThreadsOK'
      BY <2>1, <3>4 DEF ThreadsOK
    <3>6. WaitsOn(thr', h, gone, tab)
      BY <3>2, <3>4 DEF WaitsOn
    <3> QED BY <3>1, <3>3, <3>5, <3>6, <1>HostStep, Zenon
  <2> QED BY <2>2, <2>3
\* The MSS is set when a connection is handed to the application.
<1>MssFits. ASSUME NEW tab, TabOK(tab), NEW d \in Live(tab) PROVE Fits(tab, d, [tab[d] EXCEPT !.mss = MSS])
  <2> USE <1>MssFits
  <2> DEFINE q == [tab[d] EXCEPT !.mss = MSS]
  <2>1. tab[d] \in Pcb /\ Accounted(tab[d]) /\ MSS \in Nat
    BY LivePcbs, TcpAssumption
  <2>2. q \in Pcb /\ SameBuffer(tab[d], q) /\ SameEndpoints(tab[d], q) /\ q.state = tab[d].state
    BY <2>1, Zenon DEF Pcb, SameBuffer, SameEndpoints
  <2> HIDE DEF q
  <2>3. Accounted(q) /\ (Active(q) => Active(tab[d]))
    BY <2>1, <2>2 DEF Accounted, Active, SameBuffer
  <2>4. Fits(tab, d, q)
    BY <2>2, <2>3, MovesFits
  <2> QED BY <2>4 DEF q
\* The thread in send counts what it has written.
<1>WroteOnType. ASSUME NEW th \in ThreadState, NEW n \in Nat
      PROVE  WroteOn(th, n) \in ThreadState /\ ~Waiting(WroteOn(th, n))
  <2> USE <1>WroteOnType
  <2> DEFINE a == th.sent + n
             b == th.wrote + n
             x == [th EXCEPT !.pc = "lock", !.sent = a, !.wrote = b]
  <2>1. a \in Nat /\ b \in Nat
    BY DEF ThreadState
  <2>2. WroteOn(th, n) = x
    BY DEF WroteOn
  <2> HIDE DEF a, b
  <2>3. x \in ThreadState /\ x.pc = "lock"
    BY <2>1, Zenon DEF ThreadState
  <2> HIDE DEF x
  <2> QED BY <2>2, <2>3 DEF Waiting
\* The flag of a task belongs to no account.
<1>IntrFits. ASSUME NEW tab, TabOK(tab), NEW d \in Live(tab), NEW flag \in BOOLEAN
      PROVE  LET q == [tab[d] EXCEPT !.intr = flag]
             IN /\ Fits(tab, d, q) /\ q \in Pcb /\ Accounted(q) /\ SameEndpoints(tab[d], q)
                /\ Active(q) => Active(tab[d])
  <2> USE <1>IntrFits
  <2> DEFINE q == [tab[d] EXCEPT !.intr = flag]
  <2>1. tab[d] \in Pcb /\ Accounted(tab[d])
    BY LivePcbs
  <2>2. q \in Pcb /\ SameBuffer(tab[d], q) /\ SameEndpoints(tab[d], q) /\ q.state = tab[d].state
    BY <2>1, Zenon DEF Pcb, SameBuffer, SameEndpoints
  <2> HIDE DEF q
  <2>3. Accounted(q) /\ (Active(q) => Active(tab[d]))
    BY <2>1, <2>2 DEF Accounted, Active, SameBuffer
  <2>4. Fits(tab, d, q)
    BY <2>2, <2>3, MovesFits
  <2> QED BY <2>2, <2>3, <2>4 DEF q
\* A step that no thread notices.
<1>QuietStep. ASSUME NEW h \in Host, NEW tab, TabOK(tab), Live(pcbs[h]) \subseteq Live(tab),
                     pcbs' = [pcbs EXCEPT ![h] = tab], thr' = thr, fds' = fds, faults' \in 0..MaxFaults
      PROVE  StackInv'
  <2> USE <1>QuietStep
  <2>1. ThreadsOK'
    BY DEF StackInv, ThreadsOK
  <2>2. WaitsOn(thr', h, {}, tab)
    BY DEF WaitsOn
  <2> QED BY <2>1, <2>2, <1>HostStep, Zenon
\* A step that notifies some tasks and releases others.
<1>WakingStep. ASSUME NEW h \in Host, NEW tab, TabOK(tab), NEW notified, NEW released,
                      Live(pcbs[h]) \ released \subseteq Live(tab), pcbs' = [pcbs EXCEPT ![h] = tab],
                      thr' = Woken(h, notified, released), fds' = fds, faults' \in 0..MaxFaults
      PROVE  StackInv'
  <2> USE <1>WakingStep
  <2>1. ThreadsOK
    BY DEF StackInv
  <2>2. ThreadsOK'
    BY <2>1, WokenType DEF ThreadsOK
  <2>3. WaitsOn(thr', h, released, tab)
    BY <2>1, WokenType DEF WaitsOn
  <2> QED BY <2>2, <2>3, <1>HostStep, Zenon
\* segment_arrives drops a segment, or only answers it.
<1>DropStep. ASSUME NEW h \in Host, NEW i, NEW out, Outcome(h, i, pcbs[h], thr, out), fds' = fds,
                    faults' \in 0..MaxFaults
      PROVE  StackInv'
  <2> USE <1>DropStep
  <2>1. pcbs' = [pcbs EXCEPT ![h] = pcbs[h]] /\ thr' = thr /\ TabOK(pcbs[h])
    BY DEF Outcome, StackInv
  <2> QED BY <2>1, <1>QuietStep, Zenon
\* segment_arrives releases the PCB.
<1>ResetStep. ASSUME NEW h \in Host, NEW i, NEW d, NEW out, Reset(h, i, d, out), fds' = fds,
                     faults' \in 0..MaxFaults
      PROVE  StackInv'
  <2> USE <1>ResetStep
  <2>1. /\ pcbs' = [pcbs EXCEPT ![h] = Without(pcbs[h], TornDown(pcbs[h], d))]
        /\ thr' = Woken(h, {}, TornDown(pcbs[h], d))
    BY DEF Reset, Outcome
  <2>2. fds' \in [Host -> SUBSET Desc]
    BY DEF StackInv, ThreadsOK
  <2> QED BY <2>1, <2>2, <1>ReleaseStep, Zenon
<1>Socket. ASSUME NEW t \in Thread, Socket(t) PROVE StackInv'
  <2> USE <1>Socket
  <2> DEFINE h == ThreadHost[t]
             q == [EmptyPcb EXCEPT !.mode = "Socket"]
  <2>1. h \in Host /\ TabOK(pcbs[h]) /\ ThreadsOK
    BY TcpAssumption DEF StackInv
  <2>2. PICK d \in Desc : pcbs' = [pcbs EXCEPT ![h][d] = q] /\ fds' = [fds EXCEPT ![h] = @ \cup {d}]
    BY Zenon DEF Socket
  <2>3. q \in Pcb /\ ~Active(q) /\ q.state = "Closed"
    BY EmptyPcbType, Zenon DEF Pcb, Active
  <2> HIDE DEF q
  <2> DEFINE tab == [pcbs[h] EXCEPT ![d] = q]
  <2>4. Fits(pcbs[h], d, q)
    BY <2>3 DEF Fits, Accounted
  <2>5. TabOK(tab) /\ Live(pcbs[h]) \ {} \subseteq Live(tab)
    BY <2>1, <2>4, TabPut
  <2>6. pcbs' = [pcbs EXCEPT ![h] = tab]
    BY <2>2
  <2> DEFINE n == thr[t].opens + 1
             x == [thr[t] EXCEPT !.opens = n]
  <2>7. thr' = [thr EXCEPT ![t] = x]
    BY DEF Socket
  <2>8. x \in ThreadState /\ x.pc = "idle"
    <3>1. thr[t] \in ThreadState /\ thr[t].pc = "idle"
      BY <2>1 DEF ThreadsOK, Socket, MayCall
    <3>2. n \in Nat
      BY <3>1 DEF ThreadState
    <3> HIDE DEF n
    <3> QED BY <3>1, <3>2 DEF ThreadState
  <2> HIDE DEF x, n
  <2>9. /\ thr' \in [Thread -> ThreadState] /\ thr'[t] = x
        /\ \A u \in Thread \ {t} : thr'[u] = thr[u]
    BY <2>1, <2>7, <2>8, PutThread, Zenon
  <2>10. ThreadsOK'
    BY <2>1, <2>2, <2>9 DEF ThreadsOK, Socket
  <2>11. WaitsOn(thr', h, {}, tab)
    BY <2>8, <2>9 DEF WaitsOn, Waiting
  <2> QED
    BY <2>1, <2>5, <2>6, <2>10, <2>11, <1>HostStep, Zenon
\* bind.
<1>Bind. ASSUME NEW t \in Thread, NEW d \in Desc, Bind(t, d) PROVE StackInv'
  <2> USE <1>Bind
  <2> DEFINE h == ThreadHost[t]
  <2>1. h \in Host /\ TabOK(pcbs[h])
    BY TcpAssumption DEF StackInv
  <2>2. PICK local \in BindTo[t] : ~BindRefused(pcbs[h], d, local) /\ pcbs' = [pcbs EXCEPT ![h][d].local = local]
    BY Zenon DEF Bind
  <2>3. d \in Live(pcbs[h]) /\ pcbs[h][d].state = "Closed" /\ local \in Endp
    BY <2>2, TcpAssumption DEF BindRefused
  <2> DEFINE q == [pcbs[h][d] EXCEPT !.local = local]
  <2>4. pcbs[h][d] \in Pcb
    BY <2>1, <2>3, LivePcbs
  <2>5. q \in Pcb /\ q.state = "Closed"
    BY <2>3, <2>4, Zenon DEF Pcb
  <2>6. pcbs' = [pcbs EXCEPT ![h][d] = q]
    BY <2>2
  <2> HIDE DEF q
  <2>7. Fits(pcbs[h], d, q)
    BY <2>5 DEF Fits, Accounted, Active
  <2>8. faults' \in 0..MaxFaults /\ UNCHANGED <<thr, fds>>
    BY DEF Bind, StackInv, ThreadsOK
  <2> QED BY <2>1, <2>3, <2>6, <2>7, <2>8, <1>QuietPut, Zenon
\* listen.
<1>Listen. ASSUME NEW t \in Thread, NEW d \in Desc, Listen(t, d) PROVE StackInv'
  <2> USE <1>Listen
  <2> DEFINE h == ThreadHost[t]
  <2>1. h \in Host /\ TabOK(pcbs[h])
    BY TcpAssumption DEF StackInv
  <2>2. PICK max \in Backlog : pcbs' = [pcbs EXCEPT ![h][d] = [@ EXCEPT !.backlog_max = max, !.state = "Listen"]]
    BY Zenon DEF Listen
  <2>3. d \in Live(pcbs[h]) /\ pcbs[h][d].buf = <<>> /\ max \in Nat
    BY TcpAssumption DEF Listen, ListenRefused, MayUse, Unused, NoRecycle
  <2> DEFINE q == [pcbs[h][d] EXCEPT !.backlog_max = max, !.state = "Listen"]
  <2>4. pcbs[h][d] \in Pcb
    BY <2>1, <2>3, LivePcbs
  <2>5. q \in Pcb /\ q.state = "Listen" /\ q.buf = <<>>
    BY <2>3, <2>4, Zenon DEF Pcb, TcpState
  <2>6. pcbs' = [pcbs EXCEPT ![h][d] = q]
    BY <2>2
  <2> HIDE DEF q
  <2>7. Fits(pcbs[h], d, q)
    BY <2>5 DEF Fits, Accounted, Active
  <2>8. faults' \in 0..MaxFaults /\ UNCHANGED <<thr, fds>>
    BY DEF Listen, StackInv, ThreadsOK
  <2> QED BY <2>1, <2>3, <2>6, <2>7, <2>8, <1>QuietPut, Zenon
\* close.
<1>Close. ASSUME NEW t \in Thread, NEW d \in Desc, Close(t, d) PROVE StackInv'
  <2> USE <1>Close
  <2> DEFINE h == ThreadHost[t]
             p == pcbs[h][d]
             s == IF p.state = "CloseWait" THEN "LastAck" ELSE "FinWait1"
  <2>1. h \in Host /\ TabOK(pcbs[h]) /\ ThreadsOK
    BY TcpAssumption DEF StackInv
  <2>2. fds' \in [Host -> SUBSET Desc] /\ faults' \in 0..MaxFaults
    BY <2>1 DEF Close, ThreadsOK
  <2>3. CASE UNCHANGED <<pcbs, thr>>
    BY <2>1, <2>2, <2>3, <1>ThreadOnly DEF ThreadsOK
  <2>4. CASE /\ pcbs' = [pcbs EXCEPT ![h] = Without(@, TornDown(@, d))]
             /\ thr' = Woken(h, {}, TornDown(pcbs[h], d))
    BY <2>1, <2>2, <2>4, <1>ReleaseStep, Zenon
  <2>5. CASE /\ d \in Live(pcbs[h]) /\ p.state \in {"SynReceived", "Established", "CloseWait"}
             /\ pcbs' = [pcbs EXCEPT ![h][d] = FinSent(p, s)] /\ thr' = Woken(h, {d}, {})
    <3>1. p \in Pcb /\ Active(p) /\ Accounted(p)
      BY <2>1, <2>5, LivePcbs DEF Active
    <3>2. Moves(p, FinSent(p, s))
      BY <3>1, FinSentMoves
    <3>3. Accounted(FinSent(p, s))
      BY <3>1, <3>2, MovesAccounted
    <3>4. Fits(pcbs[h], d, FinSent(p, s))
      BY <2>1, <2>5, <3>2, <3>3, MovesFits DEF Moves
    <3> QED BY <2>1, <2>2, <2>5, <3>4, <1>NotifyStep, Zenon
  <2> QED
    BY <2>3, <2>4, <2>5 DEF Close
\* open, active.
<1>OpenActive. ASSUME NEW t \in Thread, OpenActive(t) PROVE StackInv'
  <2> USE <1>OpenActive
  <2> DEFINE h == ThreadHost[t]
  <2>1. h \in Host
    BY TcpAssumption
  <2>2. PICK d \in Desc, arg \in BindTo[t], remote \in ConnectTo[t], iss \in Iss[h] :
          \E local \in LocalFor(pcbs[h], h, arg, remote) :
            StartActive(t, "active", h, d, EmptyPcb, local, remote, iss)
    BY DEF OpenActive
  <2>3. arg \in Endp /\ remote \in Endp /\ iss \in SeqNo /\ "active" \in CallName
    BY <2>1, TcpAssumption DEF CallName
  <2>4. UNCHANGED <<fds, faults>>
    BY DEF OpenActive
  <2> QED BY <2>1, <2>2, <2>3, <2>4, <1>StartActiveStep, EmptyPcbType, Zenon
\* open, passive.
<1>OpenPassive. ASSUME NEW t \in Thread, OpenPassive(t) PROVE StackInv'
  <2> USE <1>OpenPassive
  <2> DEFINE h == ThreadHost[t]
  <2>1. h \in Host
    BY TcpAssumption
  <2>2. PICK d \in Desc, local \in BindTo[t], remote \in ConnectTo[t] \cup {AnyEndp} :
          /\ pcbs' = [pcbs EXCEPT ![h][d] =
                        [EmptyPcb EXCEPT !.local = local, !.remote = remote, !.state = "Listen"]]
          /\ thr' = [thr EXCEPT ![t] = Begin(t, "passive", d)]
    BY Zenon DEF OpenPassive
  <2> DEFINE q == [EmptyPcb EXCEPT !.local = local, !.remote = remote, !.state = "Listen"]
  <2>3. local \in Endp /\ remote \in Endp /\ "passive" \in CallName
    BY TcpAssumption, TcpPcbAssumption DEF CallName, AnyEndp, Endp
  <2>4. q \in Pcb /\ q.state = "Listen" /\ q.buf = <<>>
    BY <2>3, EmptyPcbType, Zenon DEF Pcb, TcpState
  <2>5. pcbs' = [pcbs EXCEPT ![h][d] = q]
    BY <2>2
  <2> HIDE DEF q
  <2>6. Fits(pcbs[h], d, q)
    BY <2>4 DEF Fits, Accounted, Active
  <2>7. UNCHANGED <<fds, faults>>
    BY DEF OpenPassive
  <2> QED BY <2>1, <2>2, <2>3, <2>5, <2>6, <2>7, <1>OpenStep, Zenon
\* connect.
<1>Connect. ASSUME NEW t \in Thread, NEW d \in Desc, Connect(t, d) PROVE StackInv'
  <2> USE <1>Connect
  <2> DEFINE h == ThreadHost[t]
             p == pcbs[h][d]
  <2>1. h \in Host /\ TabOK(pcbs[h]) /\ ThreadsOK /\ d \in Live(pcbs[h])
    BY TcpAssumption DEF StackInv, Connect
  <2>2. p \in Pcb /\ p.local \in Endp /\ p.buf = <<>>
    <3>1. p \in Pcb
      BY <2>1, LivePcbs
    <3>2. p.buf = <<>>
      BY <2>1 DEF Connect, MayUse, Unused, NoRecycle
    <3> QED BY <3>1, <3>2 DEF Pcb
  <2>3. PICK remote \in ConnectTo[t], iss \in Iss[h] : \E local \in LocalFor(pcbs[h], h, p.local, remote) :
          \/ StartActive(t, "connect", h, d, p, local, remote, iss) /\ UNCHANGED faults
          \/ /\ Fault("output")
             /\ pcbs' = [pcbs EXCEPT ![h][d] = [SynSent(p, local, remote, iss) EXCEPT !.state = "Closed"]]
             /\ thr' = Returns([thr EXCEPT ![t].op = "connect"], t, "Err")
    BY DEF Connect
  <2>4. PICK local \in LocalFor(pcbs[h], h, p.local, remote) :
          \/ StartActive(t, "connect", h, d, p, local, remote, iss) /\ UNCHANGED faults
          \/ /\ Fault("output")
             /\ pcbs' = [pcbs EXCEPT ![h][d] = [SynSent(p, local, remote, iss) EXCEPT !.state = "Closed"]]
             /\ thr' = Returns([thr EXCEPT ![t].op = "connect"], t, "Err")
    BY <2>3
  <2>5. remote \in Endp /\ iss \in SeqNo /\ "connect" \in CallName /\ UNCHANGED fds
    BY <2>1, TcpAssumption DEF CallName, Connect
  <2>6. CASE StartActive(t, "connect", h, d, p, local, remote, iss) /\ UNCHANGED faults
    <3> HIDE DEF p
    <3> QED BY <2>1, <2>2, <2>5, <2>6, <1>StartActiveStep, Zenon
  <2>7. CASE /\ Fault("output")
             /\ pcbs' = [pcbs EXCEPT ![h][d] = [SynSent(p, local, remote, iss) EXCEPT !.state = "Closed"]]
             /\ thr' = Returns([thr EXCEPT ![t].op = "connect"], t, "Err")
    <3> DEFINE s == SynSent(p, local, remote, iss)
               q == [s EXCEPT !.state = "Closed"]
               x == [thr[t] EXCEPT !.op = "connect"]
               th == [thr EXCEPT ![t] = x]
    <3>1. s \in Pcb
      <4> HIDE DEF p
      <4>1. local \in Endp
        BY <2>1, <2>2, LocalForFree, Zenon
      <4> QED BY <2>2, <2>5, <4>1, SynSentStarts DEF Starts
    <3> HIDE DEF s
    <3>2. q \in Pcb /\ q.state = "Closed"
      BY <3>1 DEF Pcb, TcpState
    <3>3. pcbs' = [pcbs EXCEPT ![h][d] = q]
      BY <2>7 DEF s
    <3> HIDE DEF q
    <3>4. Fits(pcbs[h], d, q)
      BY <3>2 DEF Fits, Accounted, Active
    <3>5. x \in ThreadState
      <4>1. thr[t] \in ThreadState
        BY <2>1 DEF ThreadsOK
      <4> QED BY <4>1 DEF ThreadState, CallName
    <3>6. thr' = Returns(th, t, "Err")
      BY <2>7
    <3> HIDE DEF x
    <3>7. th \in [Thread -> ThreadState] /\ \A u \in Thread \ {t} : th[u] = thr[u]
      BY <2>1, <3>5 DEF ThreadsOK
    <3> HIDE DEF th
    <3>8. /\ thr' \in [Thread -> ThreadState] /\ ~Waiting(thr'[t])
          /\ \A u \in Thread \ {t} : thr'[u] = thr[u]
      BY <3>6, <3>7, ReturnsType
    <3>9. ThreadsOK'
      BY <2>1, <2>5, <2>7, <3>8, <1>FaultType, Zenon DEF ThreadsOK
    <3> QED BY <2>1, <3>3, <3>4, <3>8, <3>9, <1>ReturnStep, Zenon
  <2> QED BY <2>4, <2>6, <2>7
\* The loop in which open and connect wait for the connection.
<1>AwaitEstablished. ASSUME NEW t \in Thread, AwaitEstablished(t) PROVE StackInv'
  <2> USE <1>AwaitEstablished
  <2> DEFINE h == ThreadHost[t]
             d == thr[t].desc
  <2>1. h \in Host /\ ThreadsOK /\ UNCHANGED <<fds, faults>>
    BY TcpAssumption DEF StackInv, AwaitEstablished
  <2>2. fds' \in [Host -> SUBSET Desc]
    BY <2>1 DEF ThreadsOK
  <2>3. CASE thr' = Returns(thr, t, "Err") /\ UNCHANGED pcbs
    BY <2>1, <2>2, <2>3, <1>JustReturns
  <2>4. CASE thr' = [thr EXCEPT ![t].pc = "estab"] /\ UNCHANGED pcbs
    BY <2>1, <2>4, <1>JustMoves, Zenon
  <2>5. CASE d \in Live(pcbs[h]) /\ thr' = [thr EXCEPT ![t].pc = "wait"] /\ UNCHANGED pcbs
    BY <2>1, <2>5, <1>JustMoves, Zenon
  <2>6. CASE d \in Live(pcbs[h]) /\ GiveUp(t, h, d)
    BY <2>1, <2>6, <1>GiveUpStep
  <2> QED BY <2>3, <2>4, <2>5, <2>6 DEF AwaitEstablished
\* The end of open and connect.
<1>FinishOpen. ASSUME NEW t \in Thread, FinishOpen(t) PROVE StackInv'
  <2> USE <1>FinishOpen
  <2> DEFINE h == ThreadHost[t]
             d == thr[t].desc
  <2>1. h \in Host /\ ThreadsOK /\ thr \in [Thread -> ThreadState] /\ TabOK(pcbs[h]) /\ UNCHANGED faults
    BY TcpAssumption DEF StackInv, ThreadsOK, FinishOpen
  <2>2. CASE thr' = Returns(thr, t, "Err") /\ UNCHANGED <<pcbs, fds>>
    BY <2>1, <2>2, <1>JustReturns DEF ThreadsOK
  <2>3. CASE /\ d \in Live(pcbs[h]) /\ pcbs' = [pcbs EXCEPT ![h][d].mss = MSS]
             /\ fds' = [fds EXCEPT ![h] = @ \cup {d}] /\ thr' = Returns(thr, t, "Ok")
    <3> DEFINE q == [pcbs[h][d] EXCEPT !.mss = MSS]
    <3>1. Fits(pcbs[h], d, q)
      BY <2>1, <2>3, <1>MssFits
    <3>2. pcbs' = [pcbs EXCEPT ![h][d] = q]
      BY <2>3
    <3> HIDE DEF q
    <3>3. /\ thr' \in [Thread -> ThreadState] /\ ~Waiting(thr'[t])
          /\ \A u \in Thread \ {t} : thr'[u] = thr[u]
      BY <2>1, <2>3, ReturnsType
    <3>4. ThreadsOK'
      BY <2>1, <2>3, <3>3 DEF ThreadsOK, Live
    <3> QED BY <2>1, <2>3, <3>1, <3>2, <3>3, <3>4, <1>ReturnStep, Zenon
  <2> QED BY <2>2, <2>3 DEF FinishOpen
<1>Begin. ASSUME NEW t \in Thread, NEW d \in Desc, Accept(t, d) \/ Send(t, d) \/ Receive(t, d)
      PROVE  StackInv'
  <2> USE <1>Begin
  <2>1. ThreadsOK /\ UNCHANGED <<pcbs, fds, faults>>
    BY DEF StackInv, Accept, Send, Receive
  <2>2. ASSUME NEW x \in ThreadState, ~Waiting(x), thr' = [thr EXCEPT ![t] = x] PROVE StackInv'
    <3>1. /\ thr' \in [Thread -> ThreadState] /\ thr'[t] = x
          /\ \A u \in Thread \ {t} : thr'[u] = thr[u]
      BY <2>1, <2>2, PutThread, Zenon
    <3>2. ThreadsOK'
      BY <2>1, <3>1 DEF ThreadsOK
    <3> QED BY <2>1, <2>2, <3>1, <3>2, <1>ThreadOnly
  <2>3. CASE Accept(t, d)
    <3>1. thr' = [thr EXCEPT ![t] = Begin(t, "accept", d)] /\ "accept" \in CallName
      BY <2>3 DEF Accept, CallName
    <3> QED BY <2>1, <2>2, <3>1, BeginType, Zenon
  <2>4. CASE Receive(t, d)
    <3>1. thr' = [thr EXCEPT ![t] = Begin(t, "receive", d)] /\ "receive" \in CallName
      BY <2>4 DEF Receive, CallName
    <3> QED BY <2>1, <2>2, <3>1, BeginType, Zenon
  <2>5. CASE Send(t, d)
    <3>1. PICK data \in Seq(Byte) : thr' = [thr EXCEPT ![t] = [Begin(t, "send", d) EXCEPT !.data = data]]
      BY <2>5, Zenon DEF Send
    <3> DEFINE b == Begin(t, "send", d)
               x == [b EXCEPT !.data = data]
    <3>2. b \in ThreadState /\ ~Waiting(b)
      <4>1. "send" \in CallName
        BY DEF CallName
      <4> QED BY <2>1, <4>1, BeginType
    <3>3. thr' = [thr EXCEPT ![t] = x]
      BY <3>1
    <3> HIDE DEF b
    <3>4. x \in ThreadState /\ ~Waiting(x)
      BY <3>2 DEF ThreadState, Waiting
    <3> HIDE DEF x
    <3> QED BY <2>2, <3>3, <3>4, Zenon
  <2> QED BY <2>3, <2>4, <2>5
\* The loop of accept.
<1>AcceptStep. ASSUME NEW t \in Thread, AcceptStep(t) PROVE StackInv'
  <2> USE <1>AcceptStep
  <2> DEFINE h == ThreadHost[t]
             d == thr[t].desc
             listening == d \in Live(pcbs[h]) /\ pcbs[h][d].state = "Listen"
             c == Head(pcbs[h][d].backlog)
             popped == Popped(pcbs[h], d)
  <2>1. h \in Host /\ ThreadsOK /\ thr \in [Thread -> ThreadState] /\ TabOK(pcbs[h]) /\ UNCHANGED faults
    BY TcpAssumption, Zenon DEF StackInv, ThreadsOK, AcceptStep
  <2>2. CASE thr' = Returns(thr, t, "Err") /\ UNCHANGED <<pcbs, fds>>
    BY <2>1, <2>2, <1>JustReturns DEF ThreadsOK
  <2>3. CASE listening /\ thr' = [thr EXCEPT ![t].pc = "wait"] /\ UNCHANGED <<pcbs, fds>>
    BY <2>1, <2>3, <1>JustMoves, Zenon
  <2>4. CASE /\ listening /\ pcbs[h][d].backlog # <<>> /\ pcbs' = [pcbs EXCEPT ![h] = popped]
             /\ thr' = [thr EXCEPT ![t].pc = "lock"] /\ UNCHANGED fds
    <3>1. TabOK(popped) /\ Live(popped) = Live(pcbs[h])
      BY <2>1, <2>4, PoppedOK
    <3>2. /\ thr' \in [Thread -> ThreadState] /\ thr'[t].pc = "lock"
          /\ \A u \in Thread \ {t} : thr'[u] = thr[u]
      BY <2>1, <2>4, PcType, Zenon
    <3>3. ThreadsOK'
      BY <2>1, <2>4, <3>2 DEF ThreadsOK
    <3>4. WaitsOn(thr', h, {}, popped)
      BY <3>2 DEF WaitsOn, Waiting
    <3> QED BY <2>1, <2>4, <3>1, <3>3, <3>4, <1>HostStep, Zenon
  <2>5. CASE /\ listening /\ pcbs[h][d].backlog # <<>> /\ c \in Live(pcbs[h])
             /\ pcbs' = [pcbs EXCEPT ![h] = [popped EXCEPT ![c].mss = MSS]]
             /\ fds' = [fds EXCEPT ![h] = @ \cup {c}] /\ thr' = Returns(thr, t, "Ok")
    <3>1. TabOK(popped) /\ Live(popped) = Live(pcbs[h]) /\ c \in Desc
      BY <2>1, <2>5, PoppedOK, Zenon
    <3> DEFINE q == [popped[c] EXCEPT !.mss = MSS]
               tab == [popped EXCEPT ![c] = q]
    <3> HIDE DEF popped, c
    <3>2. TabOK(tab) /\ Live(pcbs[h]) \ {} \subseteq Live(tab)
      <4>1. Fits(popped, c, q)
        BY <2>5, <3>1, <1>MssFits
      <4> HIDE DEF q
      <4>2. TabOK(tab) /\ Live(tab) = Live(popped) \cup {c}
        BY <3>1, <4>1, TabPut, Zenon
      <4> QED BY <3>1, <4>2, Zenon
    <3>3. pcbs' = [pcbs EXCEPT ![h] = tab]
      BY <2>5
    <3> HIDE DEF tab
    <3>4. /\ thr' \in [Thread -> ThreadState] /\ ~Waiting(thr'[t])
          /\ \A u \in Thread \ {t} : thr'[u] = thr[u]
      BY <2>1, <2>5, ReturnsType
    <3>5. ThreadsOK'
      BY <2>1, <2>5, <3>1, <3>4 DEF ThreadsOK
    <3>6. WaitsOn(thr', h, {}, tab)
      BY <3>4 DEF WaitsOn
    <3> QED BY <2>1, <3>2, <3>3, <3>5, <3>6, <1>HostStep, Zenon
  <2> QED BY <2>2, <2>3, <2>4, <2>5, Zenon DEF AcceptStep
\* A round of send or receive that moves no text.
<1>Rests. ASSUME NEW t \in Thread, Rests(t), UNCHANGED <<fds, faults>> PROVE StackInv'
  <2>1. ThreadsOK /\ fds' \in [Host -> SUBSET Desc] /\ ThreadHost[t] \in Host
    BY <1>Rests, TcpAssumption DEF StackInv, ThreadsOK
  <2>2. CASE \E ret \in {"Ok", "Err", "Eof"} : thr' = Returns(thr, t, ret)
    BY <1>Rests, <2>1, <2>2, <1>JustReturns, Zenon DEF Rests
  <2>3. CASE thr[t].desc \in Live(pcbs[ThreadHost[t]]) /\ thr' = [thr EXCEPT ![t].pc = "wait"]
    BY <1>Rests, <2>1, <2>3, <1>JustMoves, Zenon DEF Rests
  <2> QED BY <1>Rests, <2>2, <2>3, Zenon DEF Rests
\* The loop of send.
<1>SendStep. ASSUME NEW t \in Thread, SendStep(t) PROVE StackInv'
  <2> USE <1>SendStep
  <2> DEFINE h == ThreadHost[t]
             d == thr[t].desc
  <2>1. /\ h \in Host /\ ThreadsOK /\ thr \in [Thread -> ThreadState] /\ TabOK(pcbs[h])
        /\ UNCHANGED <<fds, faults>> /\ thr[t] \in ThreadState
    BY TcpAssumption DEF StackInv, ThreadsOK, SendStep
  <2>2. ASSUME NEW n, SendsText(t, n) PROVE StackInv'
    <3> DEFINE q == TextSent(pcbs[h][d], NextText(t, n), n)
               x == WroteOn(thr[t], n)
    <3>1. /\ d \in Live(pcbs[h]) /\ n \in Nat /\ NextText(t, n) \in Seq(Byte)
          /\ pcbs' = [pcbs EXCEPT ![h][d] = q] /\ thr' = [thr EXCEPT ![t] = x]
      BY <2>2, Zenon DEF SendsText
    <3>2. Fits(pcbs[h], d, q)
      BY <2>1, <3>1, TextSentFits
    <3>3. x \in ThreadState /\ ~Waiting(x)
      BY <2>1, <3>1, <1>WroteOnType
    <3> HIDE DEF q, x
    <3>4. /\ thr' \in [Thread -> ThreadState] /\ thr'[t] = x
          /\ \A u \in Thread \ {t} : thr'[u] = thr[u]
      BY <2>1, <3>1, <3>3, PutThread
    <3>5. ThreadsOK' /\ ~Waiting(thr'[t])
      BY <2>1, <3>3, <3>4 DEF ThreadsOK
    <3> QED BY <2>1, <3>1, <3>2, <3>4, <3>5, <1>ReturnStep, Zenon
  <2> QED BY <2>1, <2>2, <1>Rests, SendRound, Zenon
\* The loop of receive.
<1>ReceiveStep. ASSUME NEW t \in Thread, ReceiveStep(t) PROVE StackInv'
  <2> USE <1>ReceiveStep
  <2> DEFINE h == ThreadHost[t]
             d == thr[t].desc
             p == pcbs[h][d]
  <2>1. /\ h \in Host /\ ThreadsOK /\ thr \in [Thread -> ThreadState] /\ TabOK(pcbs[h])
        /\ UNCHANGED <<fds, faults>> /\ thr[t] \in ThreadState
    BY TcpAssumption, Zenon DEF StackInv, ThreadsOK, ReceiveStep
  <2>2. ASSUME NEW n, ReadsText(t, n) PROVE StackInv'
    <3> DEFINE q == Drained(p, n)
               x == Took(thr[t], SubSeq(p.buf, 1, n))
               th == [thr EXCEPT ![t] = x]
    <3>0. /\ d \in Live(pcbs[h]) /\ p.state \in {"Established", "FinWait1", "FinWait2", "CloseWait"}
          /\ n \in 1..Len(p.buf) /\ pcbs' = [pcbs EXCEPT ![h][d] = q] /\ thr' = Returns(th, t, "Ok")
      BY <2>2, Zenon DEF ReadsText
    <3>1. p \in Pcb /\ Accounted(p) /\ Active(p)
      BY <2>1, <3>0, LivePcbs, Zenon DEF Active
    <3>2. p.buf \in Seq(Byte) /\ n \in Nat /\ n <= Len(p.buf)
      <4>1. p.buf \in Seq(Byte)
        BY <3>1, Zenon DEF Pcb
      <4> DEFINE l == Len(p.buf)
      <4>2. l \in Nat /\ n \in 1..l
        BY <3>0, <4>1, LenType, Zenon
      <4> HIDE DEF l
      <4>3. n \in Nat /\ n <= l
        BY <4>2
      <4> QED BY <4>1, <4>3 DEF l
    <3>5. q \in Pcb /\ Accounted(q) /\ SameEndpoints(p, q) /\ q.state = p.state
      <4> HIDE DEF p
      <4> QED BY <3>1, <3>2, DrainedAccounted
    <3>6. SubSeq(p.buf, 1, n) \in Seq(Byte)
      <4>1. \A i \in 1..n : p.buf[i] \in Byte
        BY <3>2
      <4>2. 1 \in Int /\ n \in Int
        BY <3>2
      <4> QED BY <4>1, <4>2
    <3> HIDE DEF q
    <3>7. Fits(pcbs[h], d, q)
      <4>1. Active(q) => Active(p)
        BY <3>5 DEF Active
      <4> QED BY <2>1, <3>0, <3>5, <4>1, MovesFits, Zenon
    <3>9. x \in ThreadState
      <4> DEFINE got == thr[t].got \o SubSeq(p.buf, 1, n)
      <4>1. thr[t].got \in Seq(Byte)
        BY <2>1 DEF ThreadState
      <4>2. got \in Seq(Byte)
        BY <3>6, <4>1, SeqTypes, Zenon
      <4>3. x = [thr[t] EXCEPT !.got = got]
        BY Zenon DEF Took
      <4> HIDE DEF got, x
      <4> QED BY <2>1, <4>2, <4>3, Zenon DEF ThreadState
    <3> HIDE DEF x
    <3>10. th \in [Thread -> ThreadState] /\ \A u \in Thread \ {t} : th[u] = thr[u]
      BY <2>1, <3>9
    <3> HIDE DEF th
    <3>11. /\ thr' \in [Thread -> ThreadState] /\ ~Waiting(thr'[t])
           /\ \A u \in Thread \ {t} : thr'[u] = thr[u]
      BY <3>0, <3>10, ReturnsType
    <3>12. ThreadsOK'
      BY <2>1, <3>11 DEF ThreadsOK
    <3> QED BY <2>1, <3>0, <3>7, <3>11, <3>12, <1>ReturnStep, Zenon
  <2> QED BY <2>1, <2>2, <1>Rests, ReceiveRound, Zenon
\* wait_after returns.
<1>WaitReturns. ASSUME NEW t \in Thread, WaitReturns(t) PROVE StackInv'
  <2> USE <1>WaitReturns
  <2> DEFINE h == ThreadHost[t]
             d == thr[t].desc
  <2>1. h \in Host /\ ThreadsOK /\ TabOK(pcbs[h]) /\ UNCHANGED <<fds, faults>>
    BY TcpAssumption DEF StackInv, WaitReturns
  <2>2. d \in Live(pcbs[h])
    BY Zenon DEF StackInv, WaitersLive, Waiting, WaitReturns
  <2>3. CASE thr' = [thr EXCEPT ![t].pc = "lock"] /\ UNCHANGED pcbs
    BY <2>1, <2>3, <1>JustMoves, Zenon
  <2>4. ASSUME thr' = [thr EXCEPT ![t].pc = "intr"], NEW flag \in BOOLEAN,
               pcbs' = [pcbs EXCEPT ![h][d].intr = flag]
        PROVE  StackInv'
    <3> DEFINE q == [pcbs[h][d] EXCEPT !.intr = flag]
    <3>1. Fits(pcbs[h], d, q)
      BY <2>1, <2>2, <1>IntrFits
    <3>2. pcbs' = [pcbs EXCEPT ![h][d] = q]
      BY <2>4
    <3> HIDE DEF q
    <3>3. /\ thr' \in [Thread -> ThreadState] /\ thr'[t].pc = "intr"
          /\ \A u \in Thread \ {t} : thr'[u] = thr[u]
      BY <2>1, <2>4, PcType, Zenon
    <3>4. ThreadsOK' /\ ~Waiting(thr'[t])
      BY <2>1, <3>3 DEF ThreadsOK, Waiting
    <3> QED BY <2>1, <2>2, <3>1, <3>2, <3>3, <3>4, <1>ReturnStep, Zenon
  <2> QED BY <2>3, <2>4, Zenon DEF WaitReturns
\* A call gives up because of an interrupt.
<1>Interrupted. ASSUME NEW t \in Thread, Interrupted(t) PROVE StackInv'
  <2> USE <1>Interrupted
  <2> DEFINE h == ThreadHost[t]
             d == thr[t].desc
             ret == IF thr[t].op = "send" /\ thr[t].sent > 0 THEN "Ok" ELSE "Err"
  <2>1. h \in Host /\ ThreadsOK /\ UNCHANGED <<fds, faults>>
    BY TcpAssumption DEF StackInv, Interrupted
  <2>2. CASE d \in Live(pcbs[h]) /\ GiveUp(t, h, d)
    BY <2>1, <2>2, <1>GiveUpStep
  <2>3. CASE thr' = Returns(thr, t, ret) /\ UNCHANGED pcbs
    <3>1. ret \in {"none", "Ok", "Err", "Eof"} /\ fds' \in [Host -> SUBSET Desc]
      BY <2>1 DEF ThreadsOK
    <3> HIDE DEF ret
    <3> QED BY <2>1, <2>3, <3>1, <1>JustReturns
  <2> QED BY <2>2, <2>3 DEF Interrupted
\* task::isr sets the interrupt flag of every PCB.
<1>Interrupt. ASSUME NEW h \in Host, Interrupt(h) PROVE StackInv'
  <2> USE <1>Interrupt
  <2> DEFINE old == pcbs[h]
             tab == [d \in Desc |-> IF d \in Live(old) THEN [old[d] EXCEPT !.intr = TRUE] ELSE NoPcb]
  <2>1. TabOK(old) /\ ThreadsOK
    BY DEF StackInv
  <2>2. pcbs' = [pcbs EXCEPT ![h] = tab] /\ thr' = thr /\ fds' = fds /\ Fault("interrupt")
    BY DEF Interrupt
  <2>3. faults' \in 0..MaxFaults
    BY <2>1, <2>2, <1>FaultType
  <2> HIDE DEF old
  <2>4. ASSUME NEW d \in Live(old)
        PROVE  /\ tab[d] \in Pcb /\ Accounted(tab[d]) /\ SameEndpoints(old[d], tab[d])
               /\ Active(tab[d]) => Active(old[d])
    <3> DEFINE q == [old[d] EXCEPT !.intr = TRUE]
    <3>1. tab[d] = q
      BY <2>4 DEF Live
    <3>2. q \in Pcb /\ Accounted(q) /\ SameEndpoints(old[d], q) /\ (Active(q) => Active(old[d]))
      BY <2>1, <2>4, <1>IntrFits, Zenon
    <3> HIDE DEF tab, q
    <3> QED BY <3>1, <3>2
  <2>5. tab \in [Desc -> Pcb \cup {NoPcb}]
    BY <2>4, Zenon
  <2>6. Live(tab) = Live(old)
    BY <2>4, TcpPcbAssumption DEF Live
  <2> HIDE DEF tab
  <2>7. TabOK(tab)
    BY <2>1, <2>4, <2>5, <2>6, TabMap
  <2> QED BY <2>2, <2>3, <2>6, <2>7, <1>QuietStep, Zenon DEF old
\* segment_arrives, all its cases.
<1>SegmentArrives. ASSUME NEW h \in Host, NEW i, SegmentArrives(h, i) PROVE StackInv'
  <2> USE <1>SegmentArrives
  \* A segment for a listening PCB.
  <2>ArrivesListen. ASSUME NEW seg \in Segment, NEW d \in Desc, Selects(pcbs[h], seg.dst, seg.src, d), ArrivesListen(h, i, seg, d), fds' = fds, faults' \in 0..MaxFaults
        PROVE  StackInv'
    <3> USE <2>ArrivesListen
    <3> DEFINE tab == pcbs[h]
    <3>1. /\ TabOK(tab) /\ d \in Live(tab) /\ tab[d].state = "Listen" /\ Iss[h] \subseteq SeqNo
          /\ \A e \in Matches(tab, seg.dst, seg.src) : tab[e].state = "Listen"
      BY SelectsProperties, TcpAssumption DEF StackInv, ArrivesListen
    <3>2. CASE \E out : Outcome(h, i, tab, thr, out)
      BY <3>2, <1>DropStep
    <3>3. ASSUME NEW c \in Desc, NEW p \in Pcb, p.buf = <<>>, NEW iss \in SeqNo, NEW out,
                 Outcome(h, i, [tab EXCEPT ![c] = SynArrives(p, seg, iss)], thr, out)
          PROVE  StackInv'
      <4> DEFINE q == SynArrives(p, seg, iss)
      <4>1. Starts(q, seg.dst, seg.src) /\ Active(q)
        BY <3>3, SynArrivesStarts
      <4> DEFINE new == [tab EXCEPT ![c] = q]
      <4>2. pcbs' = [pcbs EXCEPT ![h] = new] /\ thr' = thr
        BY <3>3 DEF Outcome
      <4> HIDE DEF q
      <4>3. Accounted(q)
        BY <4>1, StartsAccounted DEF Active
      <4>4. Fits(tab, c, q)
        BY <3>1, <4>1, <4>3, FreshFits, Zenon
      <4>5. TabOK(new) /\ Live(new) = Live(tab) \cup {c}
        BY <3>1, <4>4, TabPut
      <4> HIDE DEF new
      <4>6. Live(tab) \subseteq Live(new)
        BY <4>5
      <4> QED BY <4>2, <4>5, <4>6, <1>QuietStep, Zenon
    <3>4. [EmptyPcb EXCEPT !.parent_desc = d] \in Pcb /\ [EmptyPcb EXCEPT !.parent_desc = d].buf = <<>>
      BY EmptyPcbType, Zenon DEF Pcb
    <3>5. tab[d] \in Pcb /\ tab[d].buf = <<>>
      BY <3>1, LivePcbs DEF Accounted
    <3> QED BY <3>1, <3>2, <3>3, <3>4, <3>5, Zenon DEF ArrivesListen, Dropped, Answered
  \* A segment for a PCB in SYN_SENT.
  <2>ArrivesSynSent. ASSUME NEW seg \in Segment, NEW d \in Desc, Selects(pcbs[h], seg.dst, seg.src, d), ArrivesSynSent(h, i, seg, d), fds' = fds, faults' \in 0..MaxFaults
        PROVE  StackInv'
    <3> USE <2>ArrivesSynSent
    <3> DEFINE tab == pcbs[h]
               p == tab[d]
               q == SynSentSyn(p, seg)
               new == [tab EXCEPT ![d] = q]
    <3>1. TabOK(tab) /\ d \in Live(tab) /\ p \in Pcb /\ Accounted(p) /\ Active(p)
      BY SelectsProperties, LivePcbs, Zenon DEF StackInv, ArrivesSynSent, Active
    <3>2. Moves(p, q)
      BY <3>1, SynSentSynMoves
    <3>3. CASE \E out : Outcome(h, i, tab, thr, out)
      BY <3>3, <1>DropStep
    <3>4. CASE Reset(h, i, d, <<>>)
      BY <3>4, <1>ResetStep
    <3>5. TabOK(new) /\ Live(new) = Live(tab) \cup {d}
      <4> HIDE DEF q
      <4>1. Accounted(q) /\ q \in Pcb /\ SameEndpoints(p, q) /\ (Active(q) => Active(p))
        BY <3>1, <3>2, MovesAccounted DEF Moves
      <4>2. Fits(tab, d, q)
        BY <3>1, <4>1, MovesFits
      <4> QED BY <3>1, <4>2, TabPut
    <3>6. CASE \E out : Outcome(h, i, new, thr, out) \/ Outcome(h, i, new, Woken(h, {d}, {}), out)
      <4>1. pcbs' = [pcbs EXCEPT ![h] = new] /\ (thr' = thr \/ thr' = Woken(h, {d}, {}))
        BY <3>6 DEF Outcome
      <4> HIDE DEF new
      <4>2. Live(tab) \subseteq Live(new) /\ Live(tab) \ {} \subseteq Live(new)
        BY <3>5
      <4> QED BY <3>5, <4>1, <4>2, <1>QuietStep, <1>WakingStep, Zenon
    <3> QED BY <3>3, <3>4, <3>6, Zenon DEF ArrivesSynSent, Dropped, Answered
  \* A segment that segment_arrives stops at before it is processed.
  <2>ArrivesRefused. ASSUME NEW seg \in Segment, NEW d \in Desc, ArrivesRefused(h, i, seg, d), fds' = fds, faults' \in 0..MaxFaults
        PROVE  StackInv'
    <3> USE <2>ArrivesRefused
    <3>1. CASE \E out : Outcome(h, i, pcbs[h], thr, out)
      BY <3>1, <1>DropStep
    <3>2. CASE \E out : Reset(h, i, d, out)
      BY <3>2, <1>ResetStep
    <3> QED BY <3>1, <3>2, Zenon DEF ArrivesRefused, Dropped, Answered
  \* A segment whose ACK, text and FIN are processed.
  <2>ArrivesInOrder. ASSUME NEW seg \in Segment, NEW d \in Desc, Selects(pcbs[h], seg.dst, seg.src, d), pcbs[h][d].state \notin {"Closed", "Listen", "SynSent"}, ArrivesInOrder(h, i, seg, d), fds' = fds, faults' \in 0..MaxFaults
        PROVE  StackInv'
    <3> USE <2>ArrivesInOrder
    <3> DEFINE tab == pcbs[h]
               p == tab[d]
               acked == ProcessAck(p, seg)
               done == ProcessFin(ProcessText(acked, seg), seg)
    <3>1. TabOK(tab) /\ d \in Live(tab) /\ p \in Pcb /\ Accounted(p)
      BY SelectsProperties, LivePcbs DEF StackInv
    <3>2. Active(p)
      BY DEF Active
    <3>3. Moves(p, acked) /\ Active(acked)
      BY <3>1, <3>2, ProcessAckMoves, Zenon DEF ArrivesInOrder
    <3>4. acked \in Pcb /\ Accounted(acked) /\ SameEndpoints(p, acked)
      <4> HIDE DEF acked
      <4> QED BY <3>1, <3>3, MovesAccounted, Zenon DEF Moves
    <3>5. ~TextRefused(acked, seg) => done \in Pcb /\ Accounted(done) /\ SameEndpoints(p, done)
      BY <3>1, <3>2, ArrivalAccounted, Zenon DEF ArrivesInOrder
    <3>6. PICK q, notified, out :
            /\ Outcome(h, i, WithParent(tab, d, p, q), Woken(h, notified, {}), out)
            /\ q = acked \/ (q = done /\ ~TextRefused(acked, seg))
      BY Zenon DEF ArrivesInOrder
    <3>7. q \in Pcb /\ Accounted(q) /\ SameEndpoints(p, q)
      BY <3>4, <3>5, <3>6, Zenon
    <3> DEFINE new == WithParent(tab, d, p, q)
    <3>8. TabOK(new) /\ Live(new) = Live(tab)
      BY <3>1, <3>2, <3>7, WithParentOK, Zenon
    <3>9. pcbs' = [pcbs EXCEPT ![h] = new] /\ thr' = Woken(h, notified, {})
      BY <3>6, Zenon DEF Outcome
    <3> HIDE DEF new
    <3>10. Live(tab) \ {} \subseteq Live(new)
      BY <3>8
    <3> QED BY <3>8, <3>9, <3>10, <1>WakingStep, Zenon
  <2> DEFINE seg == net[h][i]
  <2>1. seg \in Segment /\ fds' = fds
    BY Zenon DEF SegmentArrives
  <2>2. faults' \in 0..MaxFaults
    BY <1>FaultType, Zenon DEF SegmentArrives, StackInv, ThreadsOK
  <2>3. CASE ArrivesClosed(h, i, seg)
    <3>1. PICK out : Outcome(h, i, pcbs[h], thr, out)
      BY <2>3 DEF ArrivesClosed, Dropped, Answered
    <3> QED BY <2>1, <2>2, <3>1, <1>DropStep, Zenon
  <2>4. ASSUME NEW d \in Desc, Selects(pcbs[h], seg.dst, seg.src, d),
               \/ ArrivesListen(h, i, seg, d)
               \/ ArrivesSynSent(h, i, seg, d)
               \/ /\ pcbs[h][d].state \notin {"Closed", "Listen", "SynSent"}
                  /\ ArrivesRefused(h, i, seg, d) \/ ArrivesInOrder(h, i, seg, d)
        PROVE  StackInv'
    <3> HIDE DEF seg
    <3> QED BY <2>1, <2>2, <2>4, <2>ArrivesListen, <2>ArrivesSynSent, <2>ArrivesRefused, <2>ArrivesInOrder, Zenon
  <2> QED BY <2>3, <2>4, Zenon DEF SegmentArrives
\* on_timer.
<1>OnTimer. ASSUME NEW h \in Host, OnTimer(h) PROVE StackInv'
  <2> USE <1>OnTimer
  <2> DEFINE tab == pcbs[h]
             elapsed == {d \in Live(tab) : TimeWaitElapsed(tab[d])}
             released == UNION {TornDown(tab, d) : d \in elapsed}
             kept == Live(tab) \ released
             new == [d \in Desc |-> IF d \in kept THEN Ticked(tab[d]) ELSE NoPcb]
             notified == {d \in kept : DeadlineExceeded(tab[d])}
  <2>1. TabOK(tab)
    BY DEF StackInv
  <2>2. /\ pcbs' = [pcbs EXCEPT ![h] = new] /\ thr' = Woken(h, notified, released)
        /\ fds' = fds /\ faults' \in 0..MaxFaults
    BY DEF OnTimer, StackInv, ThreadsOK
  <2>3. ASSUME NEW d \in kept
        PROVE  d \in Desc /\ d \in Live(tab) /\ tab[d] \in Pcb /\ Accounted(tab[d])
               /\ ~TimeWaitElapsed(tab[d])
    <3>1. d \in Live(tab) /\ d \notin elapsed
      BY <2>3, TornDownSelf
    <3> QED BY <2>1, <3>1, LivePcbs DEF Live
  <2> HIDE DEF tab, kept
  <2>4. \A d \in kept : /\ new[d] \in Pcb /\ Accounted(new[d]) /\ SameEndpoints(tab[d], new[d])
                        /\ Active(new[d]) => Active(tab[d])
    BY <2>3, TickedFits
  <2>5. new \in [Desc -> Pcb \cup {NoPcb}] /\ \A d \in Desc \ kept : new[d] = NoPcb
    BY <2>4, Zenon
  <2> HIDE DEF new
  <2>6. Live(new) = kept
    BY <2>3, <2>4, <2>5, TcpPcbAssumption DEF Live
  <2>7. TabOK(new)
    BY <2>1, <2>3, <2>4, <2>5, <2>6, TabMap
  <2>8. Live(tab) \ released \subseteq Live(new)
    BY <2>6 DEF kept
  <2> HIDE DEF released, notified
  <2> QED BY <2>2, <2>7, <2>8, <1>WakingStep, Zenon DEF tab
\* The network touches nothing the invariant speaks of.
<1>Network. ASSUME NEW kind, Fault(kind), UNCHANGED <<pcbs, thr, fds>> PROVE StackInv'
  <2> USE <1>Network
  <2>1. faults' \in 0..MaxFaults
    BY <1>FaultType DEF StackInv
  <2> QED BY <2>1 DEF StackInv, ThreadsOK, WaitersLive
<1>1. ASSUME NEW t \in Thread, ThreadCall(t) PROVE StackInv'
  BY <1>1, <1>Socket, <1>OpenActive, <1>OpenPassive, <1>Bind, <1>Listen, <1>Connect, <1>Begin,
     <1>Close DEF ThreadCall
<1>2. ASSUME NEW t \in Thread, ThreadStep(t) PROVE StackInv'
  BY <1>2, <1>AwaitEstablished, <1>FinishOpen, <1>AcceptStep, <1>SendStep, <1>ReceiveStep,
     <1>WaitReturns, <1>Interrupted DEF ThreadStep
<1>3. ASSUME NEW h \in Host, OnTimer(h) \/ Interrupt(h) PROVE StackInv'
  BY <1>3, <1>OnTimer, <1>Interrupt
<1>4. ASSUME NEW h \in Host, NEW i, PeerSends(h) \/ Lose(h, i) \/ Duplicate(h, i) PROVE StackInv'
  <2>1. UNCHANGED <<pcbs, thr, fds>> /\ \E kind : Fault(kind)
    BY <1>4 DEF PeerSends, Lose, Duplicate
  <2> QED BY <2>1, <1>Network
<1>5. ASSUME NEW h \in Host, NEW i, SegmentArrives(h, i) PROVE StackInv'
  BY <1>5, <1>SegmentArrives
<1>6. CASE UNCHANGED vars
  BY <1>6 DEF vars, StackInv, ThreadsOK, WaitersLive
<1> QED BY <1>1, <1>2, <1>3, <1>4, <1>5, <1>6 DEF Next

\* Whatever arrives, is lost, duplicated or reordered, however many threads call into the
\* stack and whenever they are interrupted: the stack's state keeps its type, every PCB's
\* receive window accounts for its buffer, and no two PCBs are the same connection.  The
\* applications are those that never listen or connect on a PCB a connection has used.
THEOREM TcpInvariant ==
  ASSUME NoRecycle PROVE Spec => [](StackTypeOK /\ WindowAccounting /\ ConnectionUnique)
<1>1. StackInv /\ [Next]_vars => StackInv'
  BY StepStackInv
<1> QED BY <1>1, InitStackInv, StackInvImplies, PTL DEF Spec

\* No two PCBs of a host are the same connection, since pcb_select is asked in the critical
\* section that gives a PCB its endpoints.
COROLLARY ConnectionsUnique == ASSUME NoRecycle PROVE Spec => []ConnectionUnique
BY TcpInvariant, PTL

\* No thread waits on the task of a PCB that was released: pcb_release notifies before the
\* slot is cleared, so a blocked call always finds its PCB or an answer.
THEOREM NobodyWaitsOnReleased == ASSUME NoRecycle PROVE Spec => []WaitersLive
<1>1. StackInv /\ [Next]_vars => StackInv'
  BY StepStackInv
<1>2. StackInv => WaitersLive
  BY DEF StackInv
<1> QED BY <1>1, <1>2, InitStackInv, PTL DEF Spec
-----------------------------------------------------------------------------
(***************************************************************************)
(* What a step puts on the network.                                        *)
(***************************************************************************)
\* The segments the network holds for a host.
Arriving(h) == {seg \in Segment : \E i \in DOMAIN net[h] : net[h][i] = seg}

\* The segments a step may send for host h: the RSTs, ACKs and FINs of the PCBs it finds, the
\* ACKs and SYNs of the PCBs it leaves, what send passes to output, what is sent again, the
\* replies to segments nobody accounts for, and the ACK for the text of a segment with a FIN.
EmitsPlain(h, seg) ==
  \/ \E d \in Live(pcbs[h]) : seg = Output(pcbs[h][d], {"RST"}, <<>>)
  \/ \E d \in Live(pcbs[h]) : Active(pcbs[h][d]) /\ seg = Output(pcbs[h][d], {"ACK"}, <<>>)
  \/ \E d \in Live(pcbs[h]) :
       LET p == pcbs[h][d]
       IN /\ p.state \in {"SynReceived", "Established", "CloseWait"}
          /\ pcbs'[h][d] = FinSent(p, IF p.state = "CloseWait" THEN "LastAck" ELSE "FinWait1")
          /\ seg = Output(p, {"ACK", "FIN"}, <<>>)
  \/ \E d \in Live(pcbs'[h]), flg \in {{"ACK"}, {"SYN"}, {"SYN", "ACK"}} :
       Active(pcbs'[h][d]) /\ seg = Output(pcbs'[h][d], flg, <<>>)

EmitsText(h, seg) ==
  \E t \in Thread, n \in Nat :
    /\ ThreadHost[t] = h /\ SendsText(t, n)
    /\ seg = Output(pcbs[h][thr[t].desc], {"ACK", "PSH"}, NextText(t, n))

EmitsAgain(h, seg) ==
  \E d \in Live(pcbs[h]) : \E i \in DOMAIN pcbs[h][d].queue :
    LET p == pcbs[h][d]
        e == p.queue[i]
    IN seg = OutputSegment(e.seq, p.rcv_nxt, e.flg, p.rcv_wnd, e.data, p.local, p.remote)

EmitsReply(h, seg) ==
  \E in \in Arriving(h) :
    \/ seg = ResetReply(in)
    \/ \E d \in Live(pcbs[h]) :
         LET acked == ProcessAck(pcbs[h][d], in)
         IN /\ Active(pcbs[h][d]) /\ RemoteMatch(pcbs[h][d], in.src)
            /\ "RST" \notin in.flg /\ "FIN" \in in.flg /\ HasText(acked, in) /\ ~TextRefused(acked, in)
            /\ seg = Output(ProcessText(acked, in), {"ACK"}, <<>>)

Emits(h, seg) == EmitsPlain(h, seg) \/ EmitsText(h, seg) \/ EmitsAgain(h, seg) \/ EmitsReply(h, seg)

\* The networks that hold segments of S, each at the host it is addressed to.
Nets(S) == {n \in [Host -> Seq(S)] : \A h \in Host : \A i \in DOMAIN n[h] : n[h][i].dst.addr = HostAddr[h]}

\* Everything on the network before a step, and everything the step sends, is in S.
EmitsIn(S) ==
  /\ net \in Nets(S)
  /\ \A h \in Host : \A seg : Emits(h, seg) => seg \in S
  /\ "peer" \in Faults => PeerSegment \subseteq S

\* A step leaves on the network what was there and what it sends.
LEMMA StepNet ==
  ASSUME NoRecycle, StackInv, NEW S, EmitsIn(S) PROVE [Next]_vars => net' \in Nets(S)
\* ip::output delivers what it is given.
<1>AddressedType. ASSUME NEW out \in Seq(S), NEW addr
      PROVE  Addressed(out, addr) \in Seq({s \in S : s.dst.addr = addr})
  <2> USE <1>AddressedType
  <2> DEFINE ss == [i \in DOMAIN out |-> IF out[i].dst.addr = addr THEN <<out[i]>> ELSE <<>>]
  <2>1. DOMAIN out = 1..Len(out) /\ Len(out) \in Nat /\ \A i \in DOMAIN out : out[i] \in S
    OBVIOUS
  <2> DEFINE T == {s \in S : s.dst.addr = addr}
  <2>2. ss \in [1..Len(out) -> Seq(T)]
    <3>1. ASSUME NEW i \in 1..Len(out) PROVE ss[i] \in Seq(T)
      <4>1. CASE out[i].dst.addr = addr
        <5>1. out[i] \in T /\ ss[i] = <<out[i]>>
          BY <2>1, <4>1
        <5> HIDE DEF ss, T
        <5> QED BY <5>1, SeqTypes, Zenon
      <4>2. CASE out[i].dst.addr # addr
        <5>1. ss[i] = <<>>
          BY <2>1, <4>2
        <5> HIDE DEF ss, T
        <5> QED BY <5>1, SeqTypes, Zenon
      <4> QED BY <4>1, <4>2
    <3>2. ss = [i \in 1..Len(out) |-> ss[i]]
      BY <2>1
    <3> HIDE DEF ss, T
    <3> QED BY <3>1, <3>2
  <2>3. Addressed(out, addr) = Joined(ss)
    BY DEF Addressed
  <2> HIDE DEF ss, T
  <2>4. ss \in Seq(Seq(T))
    BY <2>1, <2>2
  <2>5. Addressed(out, addr) \in Seq(T)
    BY <2>3, <2>4, JoinedType, Zenon
  <2> QED BY <2>5 DEF T
\* What a network holds for a host is addressed to it.
<1>OneAddress. ASSUME NEW n
      PROVE  n \in Nets(S) <=> n = [h \in Host |-> n[h]] /\ \A h \in Host : n[h] \in Seq({s \in S : s.dst.addr = HostAddr[h]})
  <2> USE <1>OneAddress
  <2> DEFINE T(h) == {s \in S : s.dst.addr = HostAddr[h]}
  <2>1. ASSUME n \in Nets(S), NEW h \in Host PROVE n[h] \in Seq(T(h))
    <3>1. n[h] \in Seq(S) /\ \A i \in DOMAIN n[h] : n[h][i].dst.addr = HostAddr[h]
      BY <2>1 DEF Nets
    <3>2. \A i \in DOMAIN n[h] : n[h][i] \in T(h)
      BY <3>1
    <3> HIDE DEF T
    <3> QED BY <3>1, <3>2
  <2>2. ASSUME NEW h \in Host, n[h] \in Seq(T(h))
        PROVE  n[h] \in Seq(S) /\ \A i \in DOMAIN n[h] : n[h][i].dst.addr = HostAddr[h]
    <3>1. \A i \in DOMAIN n[h] : n[h][i] \in T(h)
      BY <2>2
    <3> QED BY <2>2, <3>1
  <2> HIDE DEF T
  <2> QED BY <2>1, <2>2 DEF Nets, T
\* One host's part is replaced.
<1>NetPut. ASSUME NEW n \in Nets(S), NEW h \in Host, NEW s \in Seq({x \in S : x.dst.addr = HostAddr[h]})
      PROVE  [n EXCEPT ![h] = s] \in Nets(S)
  <2> USE <1>NetPut
  <2> DEFINE m == [n EXCEPT ![h] = s]
  <2>1. n = [g \in Host |-> n[g]] /\ \A g \in Host : n[g] \in Seq({x \in S : x.dst.addr = HostAddr[g]})
    BY <1>OneAddress
  <2>2. m = [g \in Host |-> m[g]] /\ m[h] = s /\ \A g \in Host \ {h} : m[g] = n[g]
    BY <2>1
  <2> HIDE DEF m
  <2>3. \A g \in Host : m[g] \in Seq({x \in S : x.dst.addr = HostAddr[g]})
    BY <2>1, <2>2
  <2> QED BY <2>2, <2>3, <1>OneAddress DEF m
\* Every host gets what is addressed to it.
<1>TransmitType. ASSUME NEW n \in Nets(S), NEW out \in Seq(S) PROVE Transmit(n, out) \in Nets(S)
  <2> USE <1>TransmitType
  <2>1. ASSUME NEW h \in Host PROVE n[h] \o Addressed(out, HostAddr[h]) \in Seq({s \in S : s.dst.addr = HostAddr[h]})
    <3> DEFINE T == {s \in S : s.dst.addr = HostAddr[h]}
    <3>1. Addressed(out, HostAddr[h]) \in Seq(T)
      BY <1>AddressedType
    <3>2. n[h] \in Seq(T)
      BY <1>OneAddress
    <3> HIDE DEF T
    <3>3. n[h] \o Addressed(out, HostAddr[h]) \in Seq(T)
      BY <3>1, <3>2, SeqTypes, Zenon
    <3> QED BY <3>3 DEF T
  <2> DEFINE m == Transmit(n, out)
  <2>2. \A h \in Host : m[h] \in Seq({s \in S : s.dst.addr = HostAddr[h]})
    BY <2>1 DEF Transmit
  <2>3. m = [h \in Host |-> m[h]]
    BY DEF Transmit
  <2> HIDE DEF m
  <2>4. m \in Nets(S)
    BY <2>2, <2>3, <1>OneAddress, Zenon
  <2> QED BY <2>4 DEF m
\* A segment leaves the network.
<1>RemovedType. ASSUME NEW n \in Nets(S), NEW h \in Host, NEW i \in DOMAIN n[h]
      PROVE  [n EXCEPT ![h] = SubSeq(@, 1, i - 1) \o SubSeq(@, i + 1, Len(@))] \in Nets(S)
  <2> USE <1>RemovedType
  <2> DEFINE T == {s \in S : s.dst.addr = HostAddr[h]}
             s == n[h]
             a == SubSeq(s, 1, i - 1)
             b == SubSeq(s, i + 1, Len(s))
  <2>1. s \in Seq(T) /\ i \in 1..Len(s) /\ Len(s) \in Nat
    BY <1>OneAddress
  <2> HIDE DEF s, T
  <2>2. a \in Seq(T) /\ b \in Seq(T)
    BY <2>1
  <2> HIDE DEF a, b
  <2>3. a \o b \in Seq(T)
    BY <2>2, SeqTypes, Zenon
  <2> QED BY <2>3, <1>NetPut DEF a, b, s, T
\* A step that sends one segment.
<1>OneSent. ASSUME NEW h \in Host, NEW seg, Emits(h, seg), net' = Transmit(net, <<seg>>) PROVE net' \in Nets(S)
  <2> USE <1>OneSent
  <2>1. seg \in S
    BY DEF EmitsIn
  <2>2. <<seg>> \in Seq(S)
    BY <2>1, SeqTypes, Zenon
  <2> QED BY <2>2, <1>TransmitType, Zenon DEF EmitsIn
\* A release sends RSTs.
<1>ResetsSent. ASSUME NEW h \in Host, NEW d PROVE ReleaseResets(pcbs[h], d) \in Seq(S)
  <2> USE <1>ResetsSent
  <2>1. \A c \in Live(pcbs[h]) : Output(pcbs[h][c], {"RST"}, <<>>) \in S
    BY Zenon DEF EmitsIn, Emits, EmitsPlain
  <2> QED BY <2>1, ReleaseResetsType
\* The SYN of an active open.
<1>StartActiveNet. ASSUME NEW t, NEW op, NEW h \in Host, NEW d \in Desc, NEW p \in Pcb, p.buf = <<>>,
                          NEW local \in Endp, NEW remote \in Endp, NEW iss \in SeqNo,
                          StartActive(t, op, h, d, p, local, remote, iss)
      PROVE  net' \in Nets(S)
  <2> USE <1>StartActiveNet
  <2> DEFINE q == Dialled(p, local, remote, iss)
  <2>1. q \in Pcb /\ Active(q)
    BY StartedState DEF Active
  <2>2. pcbs' = [pcbs EXCEPT ![h][d] = q] /\ net' = Transmit(net, <<Output(q, {"SYN"}, <<>>)>>)
    BY Zenon DEF StartActive, Dialled
  <2> HIDE DEF q
  <2>3. pcbs'[h][d] = q
    BY <2>2, Zenon DEF StackInv
  <2>4. d \in Live(pcbs'[h])
    BY <2>1, <2>3, TcpPcbAssumption DEF Live
  <2>5. Emits(h, Output(q, {"SYN"}, <<>>))
    BY <2>1, <2>3, <2>4, Zenon DEF Emits, EmitsPlain
  <2> QED BY <2>2, <2>5, <1>OneSent
\* open gives up and releases its PCB.
<1>GiveUpNet. ASSUME NEW t, NEW h \in Host, NEW d, GiveUp(t, h, d) PROVE net' \in Nets(S)
  <2> USE <1>GiveUpNet
  <2>1. CASE net' = net
    BY <2>1 DEF EmitsIn
  <2>2. CASE net' = Transmit(net, ReleaseResets(pcbs[h], d))
    BY <2>2, <1>ResetsSent, <1>TransmitType, Zenon DEF EmitsIn
  <2> QED BY <2>1, <2>2 DEF GiveUp
\* A segment is taken from the network and others are sent.
<1>OutcomeNet. ASSUME NEW h \in Host, NEW i \in DOMAIN net[h], NEW tab, NEW th, NEW out \in Seq(S),
                      Outcome(h, i, tab, th, out)
      PROVE  net' \in Nets(S)
  <2> USE <1>OutcomeNet
  <2> DEFINE n == [net EXCEPT ![h] = SubSeq(@, 1, i - 1) \o SubSeq(@, i + 1, Len(@))]
  <2>1. n \in Nets(S)
    BY <1>RemovedType DEF EmitsIn
  <2>2. net' = Transmit(n, out)
    BY DEF Outcome
  <2> HIDE DEF n
  <2> QED BY <2>1, <2>2, <1>TransmitType
\* One that is dropped.
<1>DroppedNet. ASSUME NEW h \in Host, NEW i \in DOMAIN net[h], Dropped(h, i) PROVE net' \in Nets(S)
  BY <1>DroppedNet, SeqTypes, <1>OutcomeNet, Zenon DEF Dropped
\* segment_arrives sends one segment.
<1>OutcomeOne. ASSUME NEW h \in Host, NEW i \in DOMAIN net[h], NEW tab, NEW th, NEW seg, Emits(h, seg),
                      Outcome(h, i, tab, th, <<seg>>)
      PROVE  net' \in Nets(S)
  <2> USE <1>OutcomeOne
  <2>1. seg \in S
    BY DEF EmitsIn
  <2> QED BY <2>1, SeqTypes, <1>OutcomeNet, Zenon
\* One that resets its connection.
<1>ResetNet. ASSUME NEW h \in Host, NEW i \in DOMAIN net[h], NEW d, NEW out \in Seq(S), Reset(h, i, d, out)
      PROVE  net' \in Nets(S)
  <2> USE <1>ResetNet
  <2> DEFINE resets == ReleaseResets(pcbs[h], d)
  <2>1. resets \in Seq(S)
    BY <1>ResetsSent
  <2>2. out \o resets \in Seq(S)
    BY <2>1, SeqTypes, Zenon
  <2> QED BY <2>2, <1>OutcomeNet, Zenon DEF Reset
\* The reply to a segment that no connection accounts for.
<1>RepliedNet. ASSUME NEW h \in Host, NEW i \in DOMAIN net[h], NEW seg \in Segment, seg = net[h][i],
                      Answered(h, i, ResetReply(seg))
      PROVE  net' \in Nets(S)
  <2> USE <1>RepliedNet
  <2>1. Emits(h, ResetReply(seg))
    BY Zenon DEF Emits, EmitsReply, Arriving
  <2> QED BY <2>1, <1>OutcomeOne DEF Answered
\* close.
<1>Close. ASSUME NEW t \in Thread, NEW d \in Desc, Close(t, d) PROVE net' \in Nets(S)
  <2> USE <1>Close
  <2> DEFINE h == ThreadHost[t]
  <2>1. h \in Host
    BY TcpAssumption
  <2>2. CASE net' = net
    BY <2>2 DEF EmitsIn
  <2>3. CASE net' = Transmit(net, ReleaseResets(pcbs[h], d))
    BY <2>1, <2>3, <1>ResetsSent, <1>TransmitType, Zenon DEF EmitsIn
  <2> DEFINE p == pcbs[h][d]
             q == FinSent(p, IF p.state = "CloseWait" THEN "LastAck" ELSE "FinWait1")
  <2>4. CASE /\ d \in Live(pcbs[h]) /\ p.state \in {"SynReceived", "Established", "CloseWait"}
             /\ pcbs' = [pcbs EXCEPT ![h][d] = q] /\ net' = Transmit(net, <<Output(p, {"ACK", "FIN"}, <<>>)>>)
    <3>0. pcbs'[h][d] = q
      <4> HIDE DEF q
      <4> QED BY <2>1, <2>4 DEF StackInv, Live
    <3>1. Emits(h, Output(pcbs[h][d], {"ACK", "FIN"}, <<>>))
      BY <2>4, <3>0, Zenon DEF Emits, EmitsPlain
    <3> QED BY <2>1, <2>4, <3>1, <1>OneSent
  <2> QED BY <2>2, <2>3, <2>4, Zenon DEF Close
\* connect and an active open.
<1>Connect. ASSUME NEW t \in Thread, NEW d \in Desc, Connect(t, d) PROVE net' \in Nets(S)
  <2> USE <1>Connect
  <2> DEFINE h == ThreadHost[t]
             p == pcbs[h][d]
  <2>1. h \in Host /\ p \in Pcb /\ p.buf = <<>>
    <3>1. h \in Host /\ d \in Live(pcbs[h]) /\ p.buf = <<>>
      BY TcpAssumption DEF Connect, MayUse, Unused, NoRecycle
    <3> QED BY <3>1, LivePcbs DEF StackInv
  <2>0. PICK remote \in ConnectTo[t], iss \in Iss[h] : \E local \in LocalFor(pcbs[h], h, p.local, remote) :
          StartActive(t, "connect", h, d, p, local, remote, iss) \/ UNCHANGED net
    BY Zenon DEF Connect
  <2>2. PICK local \in LocalFor(pcbs[h], h, p.local, remote) :
          StartActive(t, "connect", h, d, p, local, remote, iss) \/ UNCHANGED net
    BY <2>0, Zenon
  <2>3. remote \in Endp /\ iss \in SeqNo /\ p.local \in Endp
    BY <2>1, TcpAssumption, Zenon DEF Pcb
  <2>4. local \in Endp
    BY <2>1, <2>3, LocalForFree, Zenon
  <2>5. CASE UNCHANGED net
    BY <2>5 DEF EmitsIn
  <2>6. CASE StartActive(t, "connect", h, d, p, local, remote, iss)
    <3> HIDE DEF h, p
    <3> QED BY <2>1, <2>3, <2>4, <2>6, <1>StartActiveNet
  <2> QED BY <2>2, <2>5, <2>6
\* An active open.
<1>OpenActive. ASSUME NEW t \in Thread, OpenActive(t) PROVE net' \in Nets(S)
  <2> USE <1>OpenActive
  <2> DEFINE h == ThreadHost[t]
  <2>1. h \in Host /\ EmptyPcb \in Pcb /\ EmptyPcb.buf = <<>>
    BY TcpAssumption, EmptyPcbType DEF EmptyPcb
  <2>0. PICK d \in Desc, arg \in BindTo[t], remote \in ConnectTo[t], iss \in Iss[h] :
          \E local \in LocalFor(pcbs[h], h, arg, remote) : StartActive(t, "active", h, d, EmptyPcb, local, remote, iss)
    BY Zenon DEF OpenActive
  <2>2. PICK local \in LocalFor(pcbs[h], h, arg, remote) : StartActive(t, "active", h, d, EmptyPcb, local, remote, iss)
    BY <2>0, Zenon
  <2>3. arg \in Endp /\ remote \in Endp /\ iss \in SeqNo
    BY <2>1, TcpAssumption
  <2>4. local \in Endp
    BY <2>1, <2>3, LocalForFree, Zenon
  <2> QED BY <2>1, <2>2, <2>3, <2>4, <1>StartActiveNet, Zenon
\* send.
<1>SendStep. ASSUME NEW t \in Thread, SendStep(t) PROVE net' \in Nets(S)
  <2> DEFINE h == ThreadHost[t]
  <2>1. h \in Host
    BY TcpAssumption
  <2>2. CASE Rests(t)
    BY <2>2 DEF EmitsIn, Rests
  <2>3. ASSUME NEW n, SendsText(t, n) PROVE net' \in Nets(S)
    <3> DEFINE seg == Output(pcbs[h][thr[t].desc], {"ACK", "PSH"}, NextText(t, n))
    <3>1. n \in Nat /\ net' = Transmit(net, <<seg>>)
      BY <2>3, Zenon DEF SendsText
    <3>2. Emits(h, seg)
      BY <2>3, <3>1, Zenon DEF Emits, EmitsText
    <3> HIDE DEF seg
    <3> QED BY <2>1, <3>1, <3>2, <1>OneSent
  <2> QED BY <1>SendStep, <2>2, <2>3, SendRound
\* segment_arrives, all its cases.
<1>SegmentArrives. ASSUME NEW h \in Host, NEW i \in DOMAIN net[h], SegmentArrives(h, i)
      PROVE  net' \in Nets(S)
  <2> USE <1>SegmentArrives
  \* A SYN that a listening PCB takes.
  <2>ArrivesListen. ASSUME NEW seg \in Segment, seg = net[h][i], NEW d \in Live(pcbs[h]), ArrivesListen(h, i, seg, d)
        PROVE  net' \in Nets(S)
    <3> USE <2>ArrivesListen
    <3> DEFINE tab == pcbs[h]
    <3>1. TabOK(tab) /\ tab[d] \in Pcb /\ Accounted(tab[d]) /\ EmptyPcb \in Pcb
      BY LivePcbs, EmptyPcbType DEF StackInv
    <3>2. ASSUME NEW c \in Desc, NEW p \in Pcb, p.buf = <<>>, NEW iss \in SeqNo,
                 Outcome(h, i, [tab EXCEPT ![c] = SynArrives(p, seg, iss)], thr,
                         <<Output(SynArrives(p, seg, iss), {"SYN", "ACK"}, <<>>)>>)
          PROVE  net' \in Nets(S)
      <4> DEFINE q == SynArrives(p, seg, iss)
      <4>1. q \in Pcb /\ Active(q)
        BY <3>2, SynArrivesStarts, Zenon DEF Starts
      <4> HIDE DEF q
      <4>2. pcbs' = [pcbs EXCEPT ![h] = [tab EXCEPT ![c] = q]]
        BY <3>2 DEF Outcome, q
      <4>3. pcbs'[h][c] = q
        BY <4>2 DEF StackInv
      <4>4. c \in Live(pcbs'[h])
        BY <4>1, <4>3, TcpPcbAssumption DEF Live
      <4>5. Emits(h, Output(q, {"SYN", "ACK"}, <<>>))
        BY <4>1, <4>3, <4>4, Zenon DEF Emits, EmitsPlain
      <4> QED BY <3>2, <4>5, <1>OutcomeOne, Zenon DEF q
    <3>3. CASE Dropped(h, i)
      BY <3>3, <1>DroppedNet
    <3>4. CASE Answered(h, i, ResetReply(seg))
      BY <3>4, <1>RepliedNet
    <3>5. CASE \E c \in Desc, iss \in Iss[h] :
                 LET q == SynArrives([EmptyPcb EXCEPT !.parent_desc = d], seg, iss)
                 IN Outcome(h, i, [tab EXCEPT ![c] = q], thr, <<Output(q, {"SYN", "ACK"}, <<>>)>>)
      <4>1. [EmptyPcb EXCEPT !.parent_desc = d] \in Pcb /\ [EmptyPcb EXCEPT !.parent_desc = d].buf = <<>>
        <5>1. d \in Desc
          BY DEF Live
        <5> QED BY <3>1, <5>1, Zenon DEF Pcb, EmptyPcb
      <4>2. Iss[h] \subseteq SeqNo
        BY TcpAssumption, Zenon
      <4> QED BY <3>2, <3>5, <4>1, <4>2, Zenon
    <3>6. CASE /\ tab[d].state = "Listen"
               /\ \E iss \in Iss[h] :
                    LET q == SynArrives(tab[d], seg, iss)
                    IN Outcome(h, i, [tab EXCEPT ![d] = q], thr, <<Output(q, {"SYN", "ACK"}, <<>>)>>)
      <4>1. tab[d].buf = <<>> /\ d \in Desc
        BY <3>1, <3>6, Zenon DEF Accounted, Live
      <4>2. Iss[h] \subseteq SeqNo
        BY TcpAssumption, Zenon
      <4> QED BY <3>1, <3>2, <3>6, <4>1, <4>2, Zenon
    <3> QED BY <3>3, <3>4, <3>5, <3>6, Zenon DEF ArrivesListen
  \* A segment for a PCB in SYN_SENT.
  <2>ArrivesSynSent. ASSUME NEW seg \in Segment, seg = net[h][i], NEW d \in Live(pcbs[h]), ArrivesSynSent(h, i, seg, d)
        PROVE  net' \in Nets(S)
    <3> USE <2>ArrivesSynSent
    <3> DEFINE tab == pcbs[h]
               p == tab[d]
               q == SynSentSyn(p, seg)
    <3>1. p \in Pcb /\ Active(p) /\ d \in Desc
      BY LivePcbs, Zenon DEF StackInv, ArrivesSynSent, Active, Live
    <3>2. q \in Pcb
      BY <3>1, SynSentSynMoves, Zenon DEF Moves
    <3>3. ASSUME NEW th, NEW flg \in {{"ACK"}, {"SYN", "ACK"}}, q.state \in {"Established", "SynReceived"},
                 Outcome(h, i, [tab EXCEPT ![d] = q], th, <<Output(q, flg, <<>>)>>)
          PROVE  net' \in Nets(S)
      <4> HIDE DEF q
      <4>1. pcbs' = [pcbs EXCEPT ![h] = [tab EXCEPT ![d] = q]]
        BY <3>3 DEF Outcome
      <4>2. pcbs'[h][d] = q
        BY <3>1, <4>1 DEF StackInv
      <4>3. d \in Live(pcbs'[h])
        BY <3>1, <3>2, <4>2, TcpPcbAssumption DEF Live
      <4>0. Active(q)
        BY <3>3 DEF Active
      <4>4. Emits(h, Output(q, flg, <<>>))
        BY <3>3, <4>0, <4>2, <4>3, Zenon DEF Emits, EmitsPlain
      <4> QED BY <3>3, <4>4, <1>OutcomeOne, Zenon
    <3>4. CASE Dropped(h, i)
      BY <3>4, <1>DroppedNet
    <3>5. CASE Answered(h, i, ResetReply(seg))
      BY <3>5, <1>RepliedNet
    <3>6. CASE Reset(h, i, d, <<>>)
      BY <3>6, SeqTypes, <1>ResetNet, Zenon
    <3> QED BY <3>3, <3>4, <3>5, <3>6, Zenon DEF ArrivesSynSent
  \* A segment that segment_arrives stops at before it is processed.
  <2>ArrivesRefused. ASSUME NEW seg \in Segment, seg = net[h][i], NEW d \in Live(pcbs[h]), pcbs[h][d].state \notin {"Closed", "Listen", "SynSent"}, ArrivesRefused(h, i, seg, d)
        PROVE  net' \in Nets(S)
    <3> USE <2>ArrivesRefused
    <3> DEFINE p == pcbs[h][d]
    <3>1. Emits(h, Output(p, {"ACK"}, <<>>)) /\ Emits(h, Output(p, {"RST"}, <<>>))
      BY Zenon DEF Emits, EmitsPlain, Active
    <3>2. <<>> \in Seq(S) /\ <<Output(p, {"RST"}, <<>>)>> \in Seq(S)
      <4> DEFINE rst == Output(p, {"RST"}, <<>>)
      <4>1. rst \in S
        BY <3>1 DEF EmitsIn
      <4> HIDE DEF rst
      <4> QED BY <4>1, SeqTypes, Zenon DEF rst
    <3>3. CASE Dropped(h, i)
      BY <3>3, <1>DroppedNet
    <3>4. CASE Answered(h, i, ResetReply(seg))
      BY <3>4, <1>RepliedNet
    <3>5. CASE Answered(h, i, Output(p, {"ACK"}, <<>>))
      BY <3>1, <3>5, <1>OutcomeOne DEF Answered
    <3>6. CASE Reset(h, i, d, <<>>)
      BY <3>2, <3>6, <1>ResetNet, Zenon
    <3>7. CASE Reset(h, i, d, <<Output(p, {"RST"}, <<>>)>>)
      BY <3>2, <3>7, <1>ResetNet, Zenon
    <3> QED BY <3>3, <3>4, <3>5, <3>6, <3>7, Zenon DEF ArrivesRefused
  \* A segment whose ACK, text and FIN are processed.
  <2>ArrivesInOrder. ASSUME NEW seg \in Segment, seg = net[h][i], NEW d \in Live(pcbs[h]), pcbs[h][d].state \notin {"Closed", "Listen", "SynSent"}, RemoteMatch(pcbs[h][d], seg.src), ArrivesInOrder(h, i, seg, d)
        PROVE  net' \in Nets(S)
    <3> USE <2>ArrivesInOrder
    <3> DEFINE tab == pcbs[h]
               p == tab[d]
               acked == ProcessAck(p, seg)
               read == ProcessText(acked, seg)
               done == ProcessFin(read, seg)
    <3>1. p \in Pcb /\ Accounted(p) /\ Active(p) /\ d \in Desc
      BY LivePcbs DEF StackInv, Active, Live
    <3>2. acked \in Pcb /\ Active(acked)
      BY <3>1, ProcessAckMoves DEF Moves
    <3>3. ~TextRefused(acked, seg) => done \in Pcb /\ Active(done)
      BY <3>1, ArrivalAccounted, Zenon DEF ArrivesInOrder
    <3>4. ASSUME NEW q \in Pcb, Active(q), NEW th, NEW out, Outcome(h, i, WithParent(tab, d, p, q), th, out)
          PROVE  Output(q, {"ACK"}, <<>>) \in S
      <4>1. pcbs'[h] = WithParent(tab, d, p, q)
        BY <3>4 DEF Outcome, StackInv
      <4>2. pcbs'[h][d] = q
        BY <3>1, <4>1 DEF WithParent
      <4>3. d \in Live(pcbs'[h])
        BY <3>1, <3>4, <4>2, TcpPcbAssumption DEF Live
      <4>4. Emits(h, Output(q, {"ACK"}, <<>>))
        BY <3>4, <4>2, <4>3, Zenon DEF Emits, EmitsPlain
      <4> QED BY <4>4, Zenon DEF EmitsIn
    <3>5. CASE TextRefused(acked, seg)
      <4>1. PICK th : Outcome(h, i, WithParent(tab, d, p, acked), th, <<Output(acked, {"ACK"}, <<>>)>>)
        BY <3>5, Zenon DEF ArrivesInOrder
      <4> HIDE DEF acked
      <4> DEFINE ack == Output(acked, {"ACK"}, <<>>)
      <4>2. ack \in S
        BY <3>2, <3>4, <4>1, Zenon
      <4>3. <<ack>> \in Seq(S)
        BY <4>2, SeqTypes, Zenon
      <4> QED BY <4>1, <4>3, <1>OutcomeNet, Zenon
    <3>6. CASE ~TextRefused(acked, seg)
      <4> DEFINE one == IF HasText(acked, seg) THEN <<Output(read, {"ACK"}, <<>>)>> ELSE <<>>
                 two == IF "FIN" \in seg.flg THEN <<Output(done, {"ACK"}, <<>>)>> ELSE <<>>
      <4>1. PICK th : Outcome(h, i, WithParent(tab, d, p, done), th, one \o two)
        BY <3>6, Zenon DEF ArrivesInOrder
      <4>3. Output(done, {"ACK"}, <<>>) \in S
        <5> HIDE DEF done, one, two
        <5> QED BY <3>3, <3>4, <3>6, <4>1, Zenon
      <4>2. HasText(acked, seg) => Output(read, {"ACK"}, <<>>) \in S
        <5>1. CASE "FIN" \in seg.flg /\ HasText(acked, seg)
          <6>3. seg.flg \cap {"RST", "SYN", "ACK"} = {"ACK"}
            BY Zenon DEF ArrivesInOrder
          <6>2. "RST" \notin seg.flg
            BY <6>3
          <6>0. "RST" \notin seg.flg /\ seg \in Arriving(h)
            BY <6>2, <2>ArrivesInOrder, Zenon DEF Arriving
          <6>1. Emits(h, Output(read, {"ACK"}, <<>>))
            BY <3>1, <3>6, <5>1, <6>0, Zenon DEF Emits, EmitsReply
          <6> QED BY <6>1 DEF EmitsIn
        <5>2. CASE "FIN" \notin seg.flg
          <6>1. done = read
            BY <5>2, Zenon DEF ProcessFin
          <6> QED BY <4>3, <6>1
        <5> QED BY <5>1, <5>2
      <4> DEFINE a == Output(read, {"ACK"}, <<>>)
                 b == Output(done, {"ACK"}, <<>>)
      <4>4. one \o two \in Seq(S)
        <5>1. ((one = <<a>> /\ a \in S) \/ one = <<>>) /\ two \in {<<b>>, <<>>} /\ b \in S
          BY <4>2, <4>3, Zenon
        <5> HIDE DEF a, b, one, two
        <5>2. one \in Seq(S) /\ two \in Seq(S)
          BY <5>1, SeqTypes, Zenon
        <5> QED BY <5>2, SeqTypes, Zenon
      <4> HIDE DEF one, two, done
      <4> QED BY <4>1, <4>4, <1>OutcomeNet, Zenon
    <3> QED BY <3>5, <3>6
  <2>1. PICK seg : seg = net[h][i] /\ seg \in Segment
    BY Zenon DEF SegmentArrives
  <2>2. CASE ArrivesClosed(h, i, seg)
    <3>1. Dropped(h, i) \/ Answered(h, i, ResetReply(seg))
      BY <2>2, Zenon DEF ArrivesClosed
    <3> QED BY <2>1, <3>1, <1>DroppedNet, <1>RepliedNet
  <2>3. ASSUME NEW d \in Desc, Selects(pcbs[h], seg.dst, seg.src, d),
               \/ ArrivesListen(h, i, seg, d)
               \/ ArrivesSynSent(h, i, seg, d)
               \/ /\ pcbs[h][d].state \notin {"Closed", "Listen", "SynSent"}
                  /\ ArrivesRefused(h, i, seg, d) \/ ArrivesInOrder(h, i, seg, d)
        PROVE  net' \in Nets(S)
    <3>1. d \in Live(pcbs[h]) /\ RemoteMatch(pcbs[h][d], seg.src)
      BY <2>3, SelectsProperties, Zenon
    <3> QED BY <2>1, <2>3, <3>1, <2>ArrivesListen, <2>ArrivesSynSent, <2>ArrivesRefused, <2>ArrivesInOrder, Zenon
  <2> QED BY <2>1, <2>2, <2>3, Zenon DEF SegmentArrives
\* on_timer.
<1>OnTimer. ASSUME NEW h \in Host, OnTimer(h) PROVE net' \in Nets(S)
  <2> USE <1>OnTimer
  <2> DEFINE tab == pcbs[h]
             elapsed == {d \in Live(tab) : TimeWaitElapsed(tab[d])}
             released == UNION {TornDown(tab, d) : d \in elapsed}
             kept == Live(tab) \ released
             sends == [d \in Desc |-> CASE d \in elapsed -> ReleaseResets(tab, d)
                                         [] d \in kept -> RetransSegments(tab[d])
                                         [] OTHER -> <<>>]
  <2>1. net' = Transmit(net, ForEachDesc(sends))
    BY DEF OnTimer
  <2>2. ASSUME NEW d \in Live(tab) PROVE RetransSegments(tab[d]) \in Seq(S)
    <3>1. tab[d] \in Pcb
      BY LivePcbs DEF StackInv
    <3>2. \A n \in DOMAIN tab[d].queue :
            LET e == tab[d].queue[n]
            IN OutputSegment(e.seq, tab[d].rcv_nxt, e.flg, tab[d].rcv_wnd, e.data, tab[d].local, tab[d].remote) \in S
      BY <2>2, Zenon DEF EmitsIn, Emits, EmitsAgain
    <3> QED BY <3>1, <3>2, RetransType
  <2>3. \A d \in Desc : ReleaseResets(tab, d) \in Seq(S)
    BY <1>ResetsSent
  <2> HIDE DEF elapsed, released
  <2>4. \A d \in Desc : sends[d] \in Seq(S)
    BY <2>2, <2>3, SeqTypes
  <2> HIDE DEF sends
  <2> QED BY <2>1, <2>4, ForEachDescType, <1>TransmitType, Zenon DEF EmitsIn
\* The network loses or repeats a segment.
<1>Network. ASSUME NEW h \in Host, NEW i \in DOMAIN net[h], Lose(h, i) \/ Duplicate(h, i)
      PROVE  net' \in Nets(S)
  <2> USE <1>Network
  <2>1. CASE Lose(h, i)
    BY <2>1, <1>RemovedType DEF Lose, EmitsIn
  <2>2. CASE Duplicate(h, i)
    <3> DEFINE T == {s \in S : s.dst.addr = HostAddr[h]}
    <3>0. net \in Nets(S)
      BY DEF EmitsIn
    <3>1. net[h] \in Seq(T)
      BY <3>0, <1>OneAddress
    <3> HIDE DEF T
    <3>2. Append(net[h], net[h][i]) \in Seq(T)
      BY <3>1
    <3> QED BY <2>2, <3>2, <1>NetPut, Zenon DEF Duplicate, EmitsIn, T
  <2> QED BY <2>1, <2>2
\* A peer of another kind sends.
<1>PeerSends. ASSUME NEW h \in Host, PeerSends(h) PROVE net' \in Nets(S)
  <2> USE <1>PeerSends
  <2>1. PICK seg \in PeerSegment : net' = Transmit(net, <<seg>>)
    BY DEF PeerSends
  <2>2. seg \in S
    BY DEF EmitsIn, PeerSends, Fault
  <2> QED BY <2>1, <2>2, SeqTypes, <1>TransmitType, Zenon DEF EmitsIn
<1>1. net' = net => net' \in Nets(S)
  BY DEF EmitsIn
<1>2. ASSUME NEW t \in Thread, ThreadCall(t) PROVE net' \in Nets(S)
  BY <1>1, <1>2, <1>OpenActive, <1>Connect, <1>Close, Zenon
     DEF ThreadCall, Socket, OpenPassive, Bind, Listen, Accept, Send, Receive
<1>3. ASSUME NEW t \in Thread, ThreadStep(t) PROVE net' \in Nets(S)
  <2>1. CASE AwaitEstablished(t)
    <3>1. ThreadHost[t] \in Host
      BY TcpAssumption
    <3> QED BY <1>1, <2>1, <3>1, <1>GiveUpNet DEF AwaitEstablished
  <2>2. CASE Interrupted(t)
    <3>1. ThreadHost[t] \in Host
      BY TcpAssumption
    <3> QED BY <1>1, <2>2, <3>1, <1>GiveUpNet, Zenon DEF Interrupted
  <2>3. CASE SendStep(t)
    BY <2>3, <1>SendStep
  <2>4. CASE FinishOpen(t) \/ AcceptStep(t) \/ ReceiveStep(t) \/ WaitReturns(t)
    BY <1>1, <2>4, Zenon DEF FinishOpen, AcceptStep, ReceiveStep, WaitReturns
  <2> QED BY <1>3, <2>1, <2>2, <2>3, <2>4, Zenon DEF ThreadStep
<1>4. ASSUME NEW h \in Host, OnTimer(h) \/ Interrupt(h) \/ PeerSends(h) PROVE net' \in Nets(S)
  BY <1>1, <1>4, <1>OnTimer, <1>PeerSends DEF Interrupt
<1>5. ASSUME NEW h \in Host, NEW i \in DOMAIN net[h], SegmentArrives(h, i) \/ Lose(h, i) \/ Duplicate(h, i)
      PROVE  net' \in Nets(S)
  BY <1>5, <1>SegmentArrives, <1>Network
<1> QED BY <1>1, <1>2, <1>3, <1>4, <1>5, Zenon DEF Next, vars

\* What a step sends is well formed.
LEMMA EmitsType ==
  ASSUME StackInv, StackInv', net \in Nets(Segment) PROVE EmitsIn(Segment)
<1>1. "peer" \in Faults => PeerSegment \subseteq Segment
  BY TcpAssumption
<1>2. <<>> \in Seq(Byte)
  OBVIOUS
<1>3. \A h \in Host : /\ \A d \in Live(pcbs[h]) : pcbs[h][d] \in Pcb /\ Accounted(pcbs[h][d])
                      /\ \A d \in Live(pcbs'[h]) : pcbs'[h][d] \in Pcb
  <2>1. \A h \in Host : TabOK(pcbs[h]) /\ TabOK(pcbs'[h])
    BY DEF StackInv
  <2> QED BY <2>1, LivePcbs
<1>4. ASSUME NEW h \in Host, NEW seg, EmitsPlain(h, seg) PROVE seg \in Segment
  <2>1. \A flg \in {{"ACK"}, {"RST"}, {"ACK", "FIN"}, {"SYN"}, {"SYN", "ACK"}} : flg \in SUBSET Flag
    BY DEF Flag
  <2>2. PICK p \in Pcb : \E flg \in SUBSET Flag : seg = Output(p, flg, <<>>)
    BY <1>3, <1>4, <2>1, Zenon DEF EmitsPlain
  <2>3. PICK flg \in SUBSET Flag : seg = Output(p, flg, <<>>)
    BY <2>2
  <2> QED BY <1>2, <2>3, OutputType, Zenon
<1>5. ASSUME NEW h \in Host, NEW seg, EmitsText(h, seg) PROVE seg \in Segment
  <2>1. PICK t \in Thread, n \in Nat :
          /\ ThreadHost[t] = h /\ thr[t].desc \in Live(pcbs[h]) /\ NextText(t, n) \in Seq(Byte)
          /\ seg = Output(pcbs[h][thr[t].desc], {"ACK", "PSH"}, NextText(t, n))
    BY <1>5, Zenon DEF EmitsText, SendsText
  <2>2. {"ACK", "PSH"} \in SUBSET Flag
    BY DEF Flag
  <2> QED BY <1>3, <2>1, <2>2, OutputType, Zenon
<1>6. ASSUME NEW h \in Host, NEW seg, EmitsAgain(h, seg) PROVE seg \in Segment
  <2>1. PICK d \in Live(pcbs[h]) : \E i \in DOMAIN pcbs[h][d].queue :
          LET p == pcbs[h][d]
              e == p.queue[i]
          IN seg = OutputSegment(e.seq, p.rcv_nxt, e.flg, p.rcv_wnd, e.data, p.local, p.remote)
    BY <1>6, Zenon DEF EmitsAgain
  <2> DEFINE p == pcbs[h][d]
  <2>2. PICK i \in DOMAIN p.queue :
          LET e == p.queue[i]
          IN seg = OutputSegment(e.seq, p.rcv_nxt, e.flg, p.rcv_wnd, e.data, p.local, p.remote)
    BY <2>1, Zenon
  <2> DEFINE e == p.queue[i]
  <2>3. p \in Pcb
    BY <1>3
  <2> HIDE DEF p
  <2>4. e \in TcpQueueEntry
    BY <2>2, <2>3 DEF Pcb
  <2>5. e.seq \in SeqNo /\ e.flg \in SUBSET Flag /\ e.data \in Seq(Byte)
    BY <2>4 DEF TcpQueueEntry
  <2>6. p.rcv_nxt \in SeqNo /\ p.rcv_wnd \in Window /\ p.local \in Endp /\ p.remote \in Endp
    BY <2>3 DEF Pcb
  <2> QED BY <2>2, <2>5, <2>6, Zenon DEF OutputSegment, Segment
<1>7. ASSUME NEW h \in Host, NEW seg, EmitsReply(h, seg) PROVE seg \in Segment
  <2>1. PICK in \in Segment :
          \/ seg = ResetReply(in)
          \/ \E d \in Live(pcbs[h]) :
               LET acked == ProcessAck(pcbs[h][d], in)
               IN /\ Active(pcbs[h][d]) /\ ~TextRefused(acked, in)
                  /\ seg = Output(ProcessText(acked, in), {"ACK"}, <<>>)
    BY <1>7 DEF EmitsReply, Arriving
  <2>2. CASE seg = ResetReply(in)
    BY <2>2, ResetReplyType
  <2>3. ASSUME NEW d \in Live(pcbs[h]), Active(pcbs[h][d]), ~TextRefused(ProcessAck(pcbs[h][d], in), in),
               seg = Output(ProcessText(ProcessAck(pcbs[h][d], in), in), {"ACK"}, <<>>)
        PROVE  seg \in Segment
    <3> DEFINE p == pcbs[h][d]
               acked == ProcessAck(p, in)
    <3>1. p \in Pcb /\ Accounted(p)
      BY <1>3
    <3>2. Moves(p, acked) /\ Active(acked)
      BY <2>3, <3>1, ProcessAckMoves
    <3> HIDE DEF acked
    <3>3. acked \in Pcb /\ Accounted(acked)
      BY <2>3, <3>1, <3>2, MovesAccounted, Zenon DEF Moves
    <3>4. ~TextRefused(acked, in)
      BY <2>3 DEF acked
    <3>5. ProcessText(acked, in) \in Pcb
      BY <3>2, <3>3, <3>4, ProcessTextAccounted
    <3>6. {"ACK"} \in SUBSET Flag
      BY DEF Flag
    <3>7. Output(ProcessText(acked, in), {"ACK"}, <<>>) \in Segment
      BY <1>2, <3>5, <3>6, OutputType, Zenon
    <3> QED BY <2>3, <3>7 DEF acked
  <2> QED BY <2>1, <2>2, <2>3
<1> QED BY <1>1, <1>4, <1>5, <1>6, <1>7 DEF EmitsIn, Emits

\* Type correctness of the whole stack: windows and sequence numbers stay within their widths,
\* the threads and the descriptors within their types, and every segment that output, the timer
\* or the replies of segment_arrives put on the wire is well formed.
THEOREM TcpTypes == ASSUME NoRecycle PROVE Spec => []TypeOK
<1> DEFINE Inv == StackInv /\ net \in Nets(Segment)
<1>1. Init => Inv
  <2> SUFFICES ASSUME Init PROVE net \in Nets(Segment)
    BY InitStackInv
  <2>1. <<>> \in Seq(Segment) /\ DOMAIN <<>> = {}
    OBVIOUS
  <2> QED BY <2>1 DEF Init, Nets
<1>2. Inv /\ [Next]_vars => Inv'
  <2> SUFFICES ASSUME Inv, [Next]_vars PROVE Inv'
    OBVIOUS
  <2>1. StackInv'
    BY StepStackInv
  <2>2. EmitsIn(Segment)
    BY <2>1, EmitsType
  <2> QED BY <2>1, <2>2, StepNet
<1>3. Inv => TypeOK
  BY StackInvImplies DEF TypeOK, Nets
<1> QED BY <1>1, <1>2, <1>3, PTL DEF Spec
=============================================================================
