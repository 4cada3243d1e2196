------------------------------ MODULE TcpProofs ------------------------------
(***************************************************************************)
(* What a step may do to a PCB, and what follows from it.  Every action of *)
(* Tcp is first classified: each PCB after the step is untouched, changed  *)
(* in one of ten named ways, or new.  The theorems are then about those    *)
(* ways and not about the actions: what is unacknowledged is queued, the   *)
(* states follow the diagram, and nobody waits for what already happened.  *)
(***************************************************************************)
EXTENDS TcpStackProofs

(***************************************************************************)
(* What a step may do to one PCB: the kinds of change, each with what the  *)
(* code guarantees about it.                                               *)
(***************************************************************************)
\* Nobody is left waiting on the task of the PCB in slot d.
Told(h, d) == \A t \in Thread : ThreadHost[t] = h /\ thr'[t].desc = d => thr'[t].pc # "wait"

SameLink(p, q) ==
  /\ q.state = p.state /\ q.mode = p.mode /\ q.iss = p.iss /\ q.parent_desc = p.parent_desc
  /\ q.rcv_nxt = p.rcv_nxt /\ q.snd_wnd = p.snd_wnd /\ q.remote = p.remote
  /\ q.local # p.local => p.state = "Closed" /\ \E t \in Thread : "bind" \in Calls[t]
  /\ SameSend(p, q) /\ SameBuffer(p, q)

Untouched(h, d, p, q) == SameLink(p, q) /\ (p.backlog = <<>> => q.backlog = <<>> \/ Told(h, d))

Empties(p, q) ==
  /\ p.state \in {"Established", "FinWait1", "FinWait2", "CloseWait"}
  /\ \E n \in 1..Len(p.buf) : q = Drained(p, n)
  /\ \E t \in Thread : \E n : ReadsText(t, n)

Listens(p, q) ==
  /\ p.state = "Closed" /\ Unused(p) /\ \E t \in Thread : "listen" \in Calls[t]
  /\ \E max : q = [p EXCEPT !.backlog_max = max, !.state = "Listen"]

Dials(h, d, p, q) ==
  /\ Unused(p) /\ \E t \in Thread : ThreadHost[t] = h /\ Connect(t, d)
  /\ \E local, remote \in Endp, iss \in SeqNo :
       q \in {Dialled(p, local, remote, iss), [SynSent(p, local, remote, iss) EXCEPT !.state = "Closed"]}

GivesUp(h, d, p, q) ==
  /\ q = [p EXCEPT !.state = "Closed"]
  /\ \E t \in Thread :
       ThreadHost[t] = h /\ thr[t].op = "connect" /\ thr[t].desc = d /\ thr[t].pc \in {"lock", "intr"}

Finishes(h, d, p, q) ==
  /\ p.state \in {"SynReceived", "Established", "CloseWait"} /\ Told(h, d)
  /\ q = FinSent(p, IF p.state = "CloseWait" THEN "LastAck" ELSE "FinWait1")
  /\ \E t \in Thread : ThreadHost[t] = h /\ "close" \in Calls[t]

Writes(p, q) ==
  /\ p.state \in {"Established", "CloseWait"}
  /\ \E text \in Seq(Byte) : Len(text) <= Capacity(p) /\ q = TextSent(p, text, Len(text))
  /\ \E t \in Thread : \E n : SendsText(t, n)

Takes(h, p, q) ==
  /\ p.state = "Listen" /\ p.mode = "Rfc"
  /\ \E seg \in Arriving(h), iss \in Iss[h] :
       "RST" \notin seg.flg /\ "SYN" \in seg.flg /\ q = SynArrives(p, seg, iss)

Answers(h, d, p, q) ==
  /\ p.state = "SynSent" /\ q.state \in {"SynReceived", "Established"}
  /\ q.state = "Established" => Told(h, d)
  /\ \E seg \in Arriving(h) :
       /\ "RST" \notin seg.flg /\ "SYN" \in seg.flg /\ RemoteMatch(p, seg.src)
       /\ ~SynSentBadAck(p, seg) /\ q = SynSentSyn(p, seg)

\* The PCB after the 5th check and after the last step, and whether its task was notified.
AckProcessed(p, seg, q, wakes) ==
  /\ q = ProcessAck(p, seg) /\ TextRefused(q, seg)
  /\ wakes = (p.state = "SynReceived" \/ (p.state = "Closing" /\ q.state = "TimeWait"))

AllProcessed(p, seg, q, wakes) ==
  LET acked == ProcessAck(p, seg)
      read == ProcessText(acked, seg)
  IN /\ ~TextRefused(acked, seg) /\ q = ProcessFin(read, seg)
     /\ wakes = (\/ p.state = "SynReceived" \/ (p.state = "Closing" /\ acked.state = "TimeWait")
                 \/ HasText(acked, seg) \/ FinWakes(read, seg))

Processes(h, d, p, q) ==
  /\ p.state \notin {"Closed", "Listen", "SynSent", "LastAck"}
  /\ \E seg \in Arriving(h), wakes \in BOOLEAN :
       /\ seg.flg \cap {"RST", "SYN", "ACK"} = {"ACK"} /\ RemoteMatch(p, seg.src)
       /\ p.state = "SynReceived" => SynReceivedGoodAck(p, seg)
       /\ ~AckTooNew(p, seg)
       /\ AckProcessed(p, seg, q, wakes) \/ AllProcessed(p, seg, q, wakes)
       /\ wakes => Told(h, d)

Ticks(h, d, p, q) == ~TimeWaitElapsed(p) /\ q = Ticked(p) /\ (DeadlineExceeded(p) => Told(h, d))

PcbStep(h, d, p, q) ==
  \/ Untouched(h, d, p, q) \/ Empties(p, q) \/ Listens(p, q) \/ Dials(h, d, p, q) \/ GivesUp(h, d, p, q)
  \/ Finishes(h, d, p, q) \/ Writes(p, q) \/ Takes(h, p, q) \/ Answers(h, d, p, q)
  \/ Processes(h, d, p, q) \/ Ticks(h, d, p, q)

\* A thread of the host opens its next connection.
Opens(t, h, op) ==
  ThreadHost[t] = h /\ op \in Calls[t] /\ thr[t].opens < MaxOpens /\ thr'[t].opens = thr[t].opens + 1

NewPcb(h, q) ==
  \/ q = [EmptyPcb EXCEPT !.mode = "Socket"] /\ \E t \in Thread : "socket" \in Calls[t]
  \/ \E t \in Thread : \E arg \in BindTo[t], remote \in ConnectTo[t], local \in Endp, iss \in Iss[h] :
       /\ Opens(t, h, "active") /\ local.addr = (IF arg.addr = ANY THEN HostAddr[h] ELSE arg.addr)
       /\ q = Dialled(EmptyPcb, local, remote, iss)
  \/ /\ \E t \in Thread : Opens(t, h, "passive")
     /\ \E local, remote \in Endp :
          q = [EmptyPcb EXCEPT !.local = local, !.remote = remote, !.state = "Listen"]
  \/ \E seg \in Arriving(h), iss \in Iss[h], l \in Live(pcbs[h]) :
       /\ pcbs[h][l].mode = "Socket"
       /\ "SYN" \in seg.flg /\ q = SynArrives([EmptyPcb EXCEPT !.parent_desc = l], seg, iss)

\* Every PCB of a host after a step comes from the one in its slot or is new.
SlotStep(h, d) ==
  IF d \in Live(pcbs[h]) THEN PcbStep(h, d, pcbs[h][d], pcbs'[h][d]) ELSE NewPcb(h, pcbs'[h][d])
Steps ==
  \A h \in Host :
    /\ \A d \in Live(pcbs'[h]) : SlotStep(h, d)
    /\ \E d : Live(pcbs'[h]) \subseteq Live(pcbs[h]) \cup {d}

-----------------------------------------------------------------------------
(***************************************************************************)
(* Every step of the stack is made of these.                               *)
(***************************************************************************)
\* Every step of the stack.
LEMMA StepSteps == ASSUME NoRecycle, StackInv PROVE [Next]_vars => Steps
\* A PCB that did not change at all.
<1>SameUntouched. ASSUME NEW h, NEW d, NEW p PROVE PcbStep(h, d, p, p)
  BY <1>SameUntouched DEF PcbStep, Untouched, SameLink, SameSend, SameBuffer
\* A step on the table of one host.
<1>TableSteps. ASSUME NEW h \in Host, NEW tab, pcbs' = [pcbs EXCEPT ![h] = tab],
                      \A d \in Live(tab) : d \in Live(pcbs[h]) /\ PcbStep(h, d, pcbs[h][d], tab[d])
      PROVE  Steps
  <2> USE <1>TableSteps
  <2>1. pcbs'[h] = tab /\ \A g \in Host \ {h} : pcbs'[g] = pcbs[g]
    BY DEF StackInv
  <2>2. \A g \in Host : Live(pcbs'[g]) \subseteq Live(pcbs[g])
    BY <2>1
  <2>3. ASSUME NEW g \in Host, NEW d \in Live(pcbs'[g]) PROVE SlotStep(g, d)
    BY <2>1, <2>2, <1>SameUntouched DEF SlotStep
  <2> QED BY <2>2, <2>3, Zenon DEF Steps
\* A step on one slot.
<1>SlotSteps. ASSUME NEW h \in Host, NEW d \in Desc, NEW q, pcbs' = [pcbs EXCEPT ![h][d] = q],
                     IF d \in Live(pcbs[h]) THEN PcbStep(h, d, pcbs[h][d], q) ELSE NewPcb(h, q)
      PROVE  Steps
  <2> USE <1>SlotSteps
  <2> DEFINE tab == [pcbs[h] EXCEPT ![d] = q]
  <2>1. pcbs' = [pcbs EXCEPT ![h] = tab]
    OBVIOUS
  <2>2. pcbs[h] \in [Desc -> Pcb \cup {NoPcb}]
    BY DEF StackInv
  <2>3. tab[d] = q /\ \A e \in Desc \ {d} : tab[e] = pcbs[h][e]
    BY <2>2
  <2> HIDE DEF tab
  <2>4. pcbs'[h] = tab /\ \A g \in Host \ {h} : pcbs'[g] = pcbs[g]
    BY <2>1 DEF StackInv
  <2>5. \A e \in Live(tab) : e \in Desc /\ (e # d => e \in Live(pcbs[h]))
    BY <2>3 DEF Live
  <2>6. ASSUME NEW g \in Host, NEW e \in Live(pcbs'[g]) PROVE SlotStep(g, e)
    BY <2>3, <2>4, <2>5, <1>SameUntouched DEF SlotStep
  <2>7. ASSUME NEW g \in Host PROVE Live(pcbs'[g]) \subseteq Live(pcbs[g]) \cup {d}
    BY <2>4, <2>5
  <2> QED BY <2>6, <2>7, Zenon DEF Steps
\* pcb_release leaves the others as they are.
<1>ReleaseSteps. ASSUME NEW h \in Host, NEW gone, pcbs' = [pcbs EXCEPT ![h] = Without(pcbs[h], gone)]
      PROVE  Steps
  <2> USE <1>ReleaseSteps
  <2> DEFINE tab == Without(pcbs[h], gone)
  <2>1. \A e \in Live(tab) : e \in Live(pcbs[h]) /\ tab[e] = pcbs[h][e]
    BY DEF Live, Without
  <2> HIDE DEF tab
  <2>2. \A e \in Live(tab) : e \in Live(pcbs[h]) /\ PcbStep(h, e, pcbs[h][e], tab[e])
    BY <2>1, <1>SameUntouched
  <2> QED BY <2>2, <1>TableSteps, Zenon DEF tab
\* A step that leaves the PCBs alone.
<1>SameSteps. ASSUME UNCHANGED pcbs PROVE Steps
  BY <1>SameSteps, <1>SameUntouched DEF Steps, SlotStep
\* notify leaves nobody waiting.
<1>WokenTold. ASSUME ThreadsOK, NEW h, NEW notified, NEW released, thr' = Woken(h, notified, released),
                     NEW d \in notified
      PROVE  Told(h, d)
  <2> USE <1>WokenTold
  <2> SUFFICES ASSUME NEW t \in Thread, ThreadHost[t] = h, thr'[t].desc = d PROVE thr'[t].pc # "wait"
    BY DEF Told
  <2>0. thr[t] \in ThreadState
    BY DEF ThreadsOK
  <2> DEFINE s == IF pcbs[h][thr[t].desc].intr THEN "intr" ELSE "lock"
  <2>1. thr'[t] \in {[thr[t] EXCEPT !.pc = s], [thr[t] EXCEPT !.pc = "woken"], thr[t]}
    BY DEF Woken
  <2>2. [thr[t] EXCEPT !.pc = s].pc = s /\ [thr[t] EXCEPT !.pc = "woken"].pc = "woken"
    BY <2>0 DEF ThreadState
  <2>3. s # "wait"
    OBVIOUS
  <2>4. CASE thr'[t] = thr[t] /\ thr[t].pc = "wait"
    <3>1. thr[t].desc = d
      BY <2>4
    <3>2. CASE d \in released
      <4>1. thr'[t] = [thr[t] EXCEPT !.pc = s]
        BY <2>4, <3>1, <3>2 DEF Woken, OnDesc
      <4> HIDE DEF s
      <4> QED BY <2>2, <2>3, <4>1
    <3>3. CASE d \notin released
      <4>1. thr'[t] = [thr[t] EXCEPT !.pc = "woken"]
        BY <2>4, <3>1, <3>3 DEF Woken, OnDesc
      <4> QED BY <2>2, <4>1
    <3> QED BY <3>2, <3>3
  <2> HIDE DEF s
  <2> QED BY <2>1, <2>2, <2>3, <2>4, Zenon
\* open and connect give up.
<1>GiveUpSteps. ASSUME NEW t \in Thread, NEW h \in Host, h = ThreadHost[t], thr[t].pc \in {"lock", "intr"},
                       NEW d \in Live(pcbs[h]), d = thr[t].desc, GiveUp(t, h, d)
      PROVE  Steps
  <2> USE <1>GiveUpSteps
  <2> DEFINE p == pcbs[h][d]
             q == [p EXCEPT !.state = "Closed"]
  <2>1. CASE thr[t].op = "connect"
    <3>1. pcbs' = [pcbs EXCEPT ![h][d] = q]
      BY <2>1, Zenon DEF GiveUp
    <3>2. GivesUp(h, d, p, q)
      BY <2>1, Zenon DEF GivesUp
    <3>3. PcbStep(h, d, p, q) /\ d \in Desc
      BY <3>2, Zenon DEF PcbStep, Live
    <3> HIDE DEF q
    <3> QED BY <3>1, <3>3, <1>SlotSteps, Zenon
  <2>2. CASE thr[t].op # "connect"
    BY <2>2, <1>ReleaseSteps DEF GiveUp
  <2> QED BY <2>1, <2>2
<1>DropSteps. ASSUME NEW h \in Host, NEW i, NEW out, Outcome(h, i, pcbs[h], thr, out) PROVE Steps
  <2> USE <1>DropSteps
  <2>1. pcbs' = [pcbs EXCEPT ![h] = pcbs[h]] /\ pcbs \in [Host -> [Desc -> Pcb \cup {NoPcb}]]
    BY DEF Outcome, StackInv
  <2>2. UNCHANGED pcbs
    BY <2>1
  <2> QED BY <2>2, <1>SameSteps
\* segment_arrives releases the PCB.
<1>ResetSteps. ASSUME NEW h \in Host, NEW i, NEW d, NEW out, Reset(h, i, d, out) PROVE Steps
  <2> USE <1>ResetSteps
  <2>1. pcbs' = [pcbs EXCEPT ![h] = Without(pcbs[h], TornDown(pcbs[h], d))]
    BY DEF Reset, Outcome
  <2> QED BY <2>1, <1>ReleaseSteps, Zenon
\* A table with one slot replaced.
<1>PutSteps. ASSUME NEW h \in Host, NEW i, NEW d \in Desc, NEW q, NEW th, NEW out,
                    Outcome(h, i, [pcbs[h] EXCEPT ![d] = q], th, out),
                    IF d \in Live(pcbs[h]) THEN PcbStep(h, d, pcbs[h][d], q) ELSE NewPcb(h, q)
      PROVE  Steps
  <2> USE <1>PutSteps
  <2>1. pcbs' = [pcbs EXCEPT ![h] = [pcbs[h] EXCEPT ![d] = q]] /\ pcbs \in [Host -> [Desc -> Pcb \cup {NoPcb}]]
    BY DEF Outcome, StackInv
  <2>2. pcbs' = [pcbs EXCEPT ![h][d] = q]
    BY <2>1
  <2> QED BY <2>2, <1>SlotSteps, Zenon
\* A segment whose ACK, or whose ACK, text and FIN are processed: the PCB changes that way, the parent
\* of a new connection has it in its backlog and is told, and nothing else changes.
<1>ProcessedSteps. ASSUME NEW h \in Host, NEW i, NEW seg \in Arriving(h), NEW d \in Live(pcbs[h]),
                          pcbs[h][d].state \notin {"Closed", "Listen", "SynSent"},
                          RemoteMatch(pcbs[h][d], seg.src), ArrivesInOrder(h, i, seg, d), NEW q,
                          NEW wakes \in BOOLEAN, NEW out,
                          Outcome(h, i, WithParent(pcbs[h], d, pcbs[h][d], q),
                                  Woken(h, Notified(pcbs[h], d, pcbs[h][d], wakes), {}), out),
                          AckProcessed(pcbs[h][d], seg, q, wakes) \/ AllProcessed(pcbs[h][d], seg, q, wakes)
      PROVE  Steps
  <2> USE <1>ProcessedSteps
  <2> DEFINE tab == pcbs[h]
             p == tab[d]
  <2>1. d \in Desc /\ ThreadsOK /\ TabOK(tab)
    BY DEF StackInv, Live
  <2>3. /\ p.state = "SynReceived" => SynReceivedGoodAck(p, seg)
        /\ ~AckTooNew(p, seg) /\ p.state # "LastAck"
        /\ seg.flg \cap {"RST", "SYN", "ACK"} = {"ACK"}
    BY Zenon DEF ArrivesInOrder
  <2> DEFINE new == WithParent(tab, d, p, q)
             notified == Notified(tab, d, p, wakes)
  <2>4. pcbs' = [pcbs EXCEPT ![h] = new] /\ thr' = Woken(h, notified, {})
    BY Zenon DEF Outcome
  <2>5. wakes => Told(h, d)
    BY <2>1, <2>4, <1>WokenTold DEF Notified
  <2>6. PcbStep(h, d, p, q)
    <3>1. Processes(h, d, p, q)
      BY <2>3, <2>5, Zenon DEF Processes
    <3> QED BY <3>1, Zenon DEF PcbStep
  <2>7. ASSUME NEW c \in Live(new) PROVE c \in Live(tab) /\ PcbStep(h, c, tab[c], new[c])
    <3>1. c \in Desc
      BY DEF Live
    <3>2. CASE c = d
      <4>1. new[c] = q
        BY <3>2, <2>1 DEF WithParent
      <4> QED BY <2>6, <3>2, <4>1
    <3>3. CASE c # d /\ c \notin ParentOf(tab, p)
      <4>1. new[c] = tab[c]
        BY <3>1, <3>3 DEF WithParent
      <4> QED BY <2>7, <3>1, <4>1, <1>SameUntouched DEF Live
    <3>4. CASE c # d /\ c \in ParentOf(tab, p)
      <4>1. new[c] = [tab[c] EXCEPT !.backlog = Append(@, d)]
        BY <3>1, <3>4 DEF WithParent
      <4>2. c \in Live(tab)
        BY <3>4 DEF ParentOf
      <4>3. tab[c] \in Pcb
        BY <2>1, <4>2, LivePcbs
      <4>4. Told(h, c)
        <5>1. c \in notified
          BY <3>4 DEF Notified
        <5> HIDE DEF notified
        <5> QED BY <2>1, <2>4, <5>1, <1>WokenTold
      <4>5. SameLink(tab[c], new[c])
        <5> DEFINE a == tab[c]
                   b == new[c]
        <5>1. a \in Pcb /\ b = [a EXCEPT !.backlog = Append(@, d)]
          BY <4>1, <4>3
        <5> HIDE DEF a, b
        <5>2. SameLink(a, b)
          BY <5>1 DEF SameLink, SameSend, SameBuffer, Pcb
        <5> QED BY <5>2 DEF a, b
      <4> QED BY <4>2, <4>4, <4>5, Zenon DEF PcbStep, Untouched
    <3> QED BY <3>2, <3>3, <3>4
  <2> HIDE DEF new
  <2> QED BY <2>4, <2>7, <1>TableSteps, Zenon
<1>BeginOpens. ASSUME NEW t \in Thread, NEW op \in {"active", "passive"}, NEW d, thr' = [thr EXCEPT ![t] = Begin(t, op, d)]
      PROVE  thr'[t].opens = thr[t].opens + 1
  <2>1. thr \in [Thread -> ThreadState] /\ thr[t] \in ThreadState
    BY DEF StackInv, ThreadsOK
  <2>2. thr'[t] = Begin(t, op, d)
    BY <1>BeginOpens, <2>1, Zenon
  <2>3. Begin(t, op, d).opens = thr[t].opens + 1
    BY <2>1 DEF Begin, ThreadState
  <2> QED BY <2>2, <2>3
<1>Socket. ASSUME NEW t \in Thread, Socket(t) PROVE Steps
  <2> USE <1>Socket
  <2> DEFINE h == ThreadHost[t]
             q == [EmptyPcb EXCEPT !.mode = "Socket"]
  <2>1. h \in Host
    BY TcpAssumption
  <2>2. PICK d \in Desc : Allocates(pcbs[h], d) /\ pcbs' = [pcbs EXCEPT ![h][d] = q]
    BY Zenon DEF Socket
  <2>3. NewPcb(h, q) /\ d \notin Live(pcbs[h])
    BY <2>2 DEF NewPcb, Allocates, Socket, MayCall
  <2> HIDE DEF q, h
  <2> QED BY <2>1, <2>2, <2>3, <1>SlotSteps, Zenon
\* bind.
<1>Bind. ASSUME NEW t \in Thread, NEW d \in Desc, Bind(t, d) PROVE Steps
  <2> USE <1>Bind
  <2> DEFINE h == ThreadHost[t]
  <2>1. h \in Host /\ TabOK(pcbs[h])
    BY TcpAssumption DEF StackInv
  <2>2. PICK local : ~BindRefused(pcbs[h], d, local) /\ pcbs' = [pcbs EXCEPT ![h][d].local = local]
    BY Zenon DEF Bind
  <2> DEFINE p == pcbs[h][d]
             q == [p EXCEPT !.local = local]
  <2>3. d \in Live(pcbs[h]) /\ p.state = "Closed" /\ "bind" \in Calls[t]
    BY <2>2 DEF BindRefused, Bind, MayCall
  <2>4. p \in Pcb
    BY <2>1, <2>3, LivePcbs
  <2>5. pcbs' = [pcbs EXCEPT ![h][d] = q]
    BY <2>2
  <2> HIDE DEF h
  <2>6. Untouched(h, d, p, q)
    <3> HIDE DEF p
    <3> QED BY <2>3, <2>4 DEF Untouched, SameLink, SameSend, SameBuffer, Pcb
  <2> HIDE DEF q
  <2> QED BY <2>1, <2>3, <2>5, <2>6, <1>SlotSteps, Zenon DEF PcbStep
\* listen.
<1>Listen. ASSUME NEW t \in Thread, NEW d \in Desc, Listen(t, d) PROVE Steps
  <2> USE <1>Listen
  <2> DEFINE h == ThreadHost[t]
             p == pcbs[h][d]
  <2>1. h \in Host
    BY TcpAssumption
  <2>2. PICK max : pcbs' = [pcbs EXCEPT ![h][d] = [@ EXCEPT !.backlog_max = max, !.state = "Listen"]]
    BY Zenon DEF Listen
  <2>3. d \in Live(pcbs[h]) /\ Unused(p) /\ p.state = "Closed" /\ "listen" \in Calls[t]
    BY DEF Listen, ListenRefused, MayUse, NoRecycle, MayCall
  <2> DEFINE q == [p EXCEPT !.backlog_max = max, !.state = "Listen"]
  <2>4. pcbs' = [pcbs EXCEPT ![h][d] = q]
    BY <2>2, Zenon
  <2>5. Listens(p, q)
    BY <2>3, Zenon DEF Listens
  <2> HIDE DEF q, h
  <2> QED BY <2>1, <2>3, <2>4, <2>5, <1>SlotSteps, Zenon DEF PcbStep
\* close.
<1>Close. ASSUME NEW t \in Thread, NEW d \in Desc, Close(t, d) PROVE Steps
  <2> USE <1>Close
  <2> DEFINE h == ThreadHost[t]
             p == pcbs[h][d]
             s == IF p.state = "CloseWait" THEN "LastAck" ELSE "FinWait1"
  <2>1. h \in Host /\ ThreadsOK /\ "close" \in Calls[t]
    BY TcpAssumption DEF StackInv, Close, MayCall
  <2>2. CASE UNCHANGED pcbs
    BY <2>2, <1>SameSteps
  <2>3. CASE pcbs' = [pcbs EXCEPT ![h] = Without(@, TornDown(@, d))]
    BY <2>1, <2>3, <1>ReleaseSteps, Zenon
  <2>4. CASE /\ d \in Live(pcbs[h]) /\ p.state \in {"SynReceived", "Established", "CloseWait"}
             /\ pcbs' = [pcbs EXCEPT ![h][d] = FinSent(p, s)] /\ thr' = Woken(h, {d}, {})
    <3>1. Told(h, d)
      BY <2>1, <2>4, <1>WokenTold, Zenon
    <3>2. Finishes(h, d, p, FinSent(p, s))
      BY <2>1, <2>4, <3>1 DEF Finishes
    <3> HIDE DEF p, h, s
    <3>3. pcbs[h][d] = p
      BY DEF p, h
    <3> QED BY <2>1, <2>4, <3>2, <3>3, <1>SlotSteps, Zenon DEF PcbStep
  <2> QED BY <2>2, <2>3, <2>4 DEF Close
\* connect: only the owner of the PCB dials, and only on one no connection has used.
<1>Connect. ASSUME NEW t \in Thread, NEW d \in Desc, Connect(t, d) PROVE Steps
  <2> USE <1>Connect
  <2> DEFINE h == ThreadHost[t]
             p == pcbs[h][d]
  <2>1. h \in Host /\ TabOK(pcbs[h])
    BY TcpAssumption DEF StackInv
  <2>2. d \in Live(pcbs[h]) /\ Unused(p)
    BY DEF Connect, MayUse, NoRecycle
  <2>3. p \in Pcb /\ p.local \in Endp
    <3>1. p \in Pcb
      BY <2>1, <2>2, LivePcbs, Zenon
    <3> HIDE DEF p
    <3> QED BY <3>1 DEF Pcb
  <2>4. PICK remote \in ConnectTo[t], iss \in Iss[h] : \E local \in LocalFor(pcbs[h], h, p.local, remote) :
          pcbs' \in {[pcbs EXCEPT ![h][d] = Dialled(p, local, remote, iss)],
                     [pcbs EXCEPT ![h][d] = [SynSent(p, local, remote, iss) EXCEPT !.state = "Closed"]]}
    BY Zenon DEF Connect, StartActive, Dialled
  <2>5. remote \in Endp /\ iss \in SeqNo
    BY <2>1, TcpAssumption
  <2>6. PICK local \in LocalFor(pcbs[h], h, p.local, remote) :
          pcbs' \in {[pcbs EXCEPT ![h][d] = Dialled(p, local, remote, iss)],
                     [pcbs EXCEPT ![h][d] = [SynSent(p, local, remote, iss) EXCEPT !.state = "Closed"]]}
    BY <2>4
  <2>7. local \in Endp
    BY <2>1, <2>3, <2>6, LocalForFree, Zenon
  <2>8. ASSUME NEW q \in {Dialled(p, local, remote, iss), [SynSent(p, local, remote, iss) EXCEPT !.state = "Closed"]},
               pcbs' = [pcbs EXCEPT ![h][d] = q]
        PROVE  Steps
    <3>1. Dials(h, d, p, q)
      BY <2>2, <2>5, <2>7, <2>8, Zenon DEF Dials
    <3> HIDE DEF p, h
    <3>2. pcbs[h][d] = p
      BY DEF p, h
    <3> QED BY <2>1, <2>2, <2>8, <3>1, <3>2, <1>SlotSteps, Zenon DEF PcbStep
  <2> HIDE DEF p
  <2> QED BY <2>6, <2>8, Zenon
\* An active open.
<1>OpenActive. ASSUME NEW t \in Thread, OpenActive(t) PROVE Steps
  <2> USE <1>OpenActive
  <2> DEFINE h == ThreadHost[t]
  <2>1. h \in Host
    BY TcpAssumption
  <2>2. PICK d \in Desc, arg \in BindTo[t], remote \in ConnectTo[t], iss \in Iss[h] :
          /\ Allocates(pcbs[h], d)
          /\ \E local \in LocalFor(pcbs[h], h, arg, remote) :
               StartActive(t, "active", h, d, EmptyPcb, local, remote, iss)
    BY DEF OpenActive
  <2>3. PICK local \in LocalFor(pcbs[h], h, arg, remote) :
          StartActive(t, "active", h, d, EmptyPcb, local, remote, iss)
    BY <2>2, Zenon
  <2>4. remote \in Endp /\ iss \in SeqNo /\ arg \in Endp
    BY <2>1, TcpAssumption
  <2> HIDE DEF h
  <2>5. local \in Endp
    BY <2>1, <2>3, <2>4, LocalForFree, Zenon
  <2> DEFINE q == Dialled(EmptyPcb, local, remote, iss)
  <2>8. Opens(t, h, "active")
    <3>1. "active" \in Calls[t] /\ thr[t].opens < MaxOpens /\ thr' = [thr EXCEPT ![t] = Begin(t, "active", d)]
      BY <2>3, Zenon DEF OpenActive, MayCall, StartActive
    <3> QED BY <3>1, <1>BeginOpens, Zenon DEF Opens, h
  <2>9. local.addr = IF arg.addr = ANY THEN HostAddr[h] ELSE arg.addr
    <3>1. PICK n : local = [addr |-> IF arg.addr = ANY THEN HostAddr[h] ELSE arg.addr, port |-> n]
      BY <2>3, Zenon DEF LocalFor
    <3> QED BY <3>1
  <2>6. NewPcb(h, q) /\ d \notin Live(pcbs[h])
    BY <2>2, <2>4, <2>5, <2>8, <2>9, Zenon DEF NewPcb, Allocates
  <2>7. pcbs' = [pcbs EXCEPT ![h][d] = q]
    BY <2>3, Zenon DEF StartActive, Dialled
  <2> HIDE DEF q
  <2> QED BY <2>1, <2>6, <2>7, <1>SlotSteps, Zenon
\* A passive open.
<1>OpenPassive. ASSUME NEW t \in Thread, OpenPassive(t) PROVE Steps
  <2> USE <1>OpenPassive
  <2> DEFINE h == ThreadHost[t]
  <2>1. h \in Host
    BY TcpAssumption
  <2>2. PICK d \in Desc, local \in BindTo[t], remote \in ConnectTo[t] \cup {AnyEndp} :
          /\ Allocates(pcbs[h], d)
          /\ pcbs' = [pcbs EXCEPT ![h][d] =
                        [EmptyPcb EXCEPT !.local = local, !.remote = remote, !.state = "Listen"]]
          /\ thr' = [thr EXCEPT ![t] = Begin(t, "passive", d)]
    BY Zenon DEF OpenPassive
  <2>3. remote \in Endp /\ local \in Endp
    BY TcpAssumption, TcpPcbAssumption DEF AnyEndp, Endp
  <2> DEFINE q == [EmptyPcb EXCEPT !.local = local, !.remote = remote, !.state = "Listen"]
  <2>5. Opens(t, h, "passive")
    <3>1. "passive" \in Calls[t] /\ thr[t].opens < MaxOpens
      BY Zenon DEF OpenPassive, MayCall
    <3> QED BY <2>2, <3>1, <1>BeginOpens, Zenon DEF Opens
  <2>4. NewPcb(h, q) /\ d \notin Live(pcbs[h])
    BY <2>2, <2>3, <2>5, Zenon DEF NewPcb, Allocates
  <2> HIDE DEF q, h
  <2> QED BY <2>1, <2>2, <2>4, <1>SlotSteps, Zenon DEF q
\* The last critical section of open and connect.
<1>FinishOpen. ASSUME NEW t \in Thread, FinishOpen(t) PROVE Steps
  <2> USE <1>FinishOpen
  <2> DEFINE h == ThreadHost[t]
             d == thr[t].desc
             p == pcbs[h][d]
             q == [p EXCEPT !.mss = MSS]
  <2>1. h \in Host /\ TabOK(pcbs[h])
    BY TcpAssumption DEF StackInv
  <2>2. CASE UNCHANGED pcbs
    BY <2>2, <1>SameSteps
  <2>3. CASE d \in Live(pcbs[h]) /\ pcbs' = [pcbs EXCEPT ![h][d].mss = MSS]
    <3>1. pcbs' = [pcbs EXCEPT ![h][d] = q]
      BY <2>3, Zenon
    <3>2. p \in Pcb /\ d \in Desc
      BY <2>1, <2>3, LivePcbs, Zenon
    <3>3. Untouched(h, d, p, q)
      <4> HIDE DEF p
      <4> QED BY <3>2 DEF Untouched, SameLink, SameSend, SameBuffer, Pcb
    <3>4. PcbStep(h, d, p, q)
      BY <3>3, Zenon DEF PcbStep
    <3> HIDE DEF q
    <3> QED BY <2>1, <2>3, <3>1, <3>2, <3>4, <1>SlotSteps, Zenon
  <2> QED BY <2>2, <2>3 DEF FinishOpen
\* accept.
<1>AcceptStep. ASSUME NEW t \in Thread, AcceptStep(t) PROVE Steps
  <2> USE <1>AcceptStep
  <2> DEFINE h == ThreadHost[t]
             d == thr[t].desc
             tab == pcbs[h]
             c == Head(tab[d].backlog)
             popped == Popped(tab, d)
  <2>1. h \in Host /\ TabOK(tab) /\ tab \in [Desc -> Pcb \cup {NoPcb}]
    BY TcpAssumption DEF StackInv
  <2>2. CASE UNCHANGED pcbs
    BY <2>2, <1>SameSteps
  <2>3. ASSUME d \in Live(tab), tab[d].backlog # <<>>,
               \/ pcbs' = [pcbs EXCEPT ![h] = popped]
               \/ c \in Live(tab) /\ pcbs' = [pcbs EXCEPT ![h] = [popped EXCEPT ![c].mss = MSS]]
        PROVE  Steps
    <3>0. PICK new : new \in {popped, [popped EXCEPT ![c].mss = MSS]} /\ pcbs' = [pcbs EXCEPT ![h] = new]
      BY <2>3, Zenon
    <3>1. \A e \in Live(tab) : tab[e] \in Pcb /\ e \in Desc
      BY <2>1, LivePcbs
    <3>2. \A e \in Desc : e # d => popped[e] = tab[e]
      BY <2>1 DEF Popped
    <3>3. popped[d] = [tab[d] EXCEPT !.backlog = Tail(@)] /\ DOMAIN popped = Desc
      BY <2>1, <2>3, <3>1, Zenon DEF Popped
    <3> HIDE DEF tab, popped, c
    <3>4. \A e \in Desc : new[e] = popped[e] \/ new[e] = [popped[e] EXCEPT !.mss = MSS]
      BY <3>0, <3>3
    <3>5. ASSUME NEW e \in Live(new) PROVE e \in Live(tab) => PcbStep(h, e, tab[e], new[e])
      <4> SUFFICES ASSUME e \in Live(tab) PROVE PcbStep(h, e, tab[e], new[e])
        OBVIOUS
      <4> DEFINE p == tab[e]
      <4>1. p \in Pcb /\ e \in Desc
        BY <3>1
      <4>2. popped[e] = p \/ (popped[e] = [p EXCEPT !.backlog = Tail(@)] /\ p.backlog # <<>>)
        BY <2>3, <3>2, <3>3, <4>1
      <4>3. popped[e] \in {p, [p EXCEPT !.backlog = Tail(@)]}
        BY <4>2
      <4>4. SameLink(p, new[e]) /\ (p.backlog = <<>> => new[e].backlog = <<>>)
        <5> DEFINE x == popped[e]
        <5>1. SameLink(p, x) /\ (p.backlog = <<>> => x.backlog = <<>>) /\ DOMAIN x = DOMAIN p
          <6> HIDE DEF p
          <6> QED BY <4>1, <4>2 DEF SameLink, SameSend, SameBuffer, Pcb
        <5>2. new[e] = x \/ new[e] = [x EXCEPT !.mss = MSS]
          BY <3>4, <4>1
        <5>3. "mss" \in DOMAIN x
          BY <4>1, <5>1 DEF Pcb
        <5> HIDE DEF x, p
        <5>4. CASE new[e] = x
          BY <5>1, <5>4
        <5>5. CASE new[e] = [x EXCEPT !.mss = MSS]
          <6> DEFINE y == [x EXCEPT !.mss = MSS]
          <6>1. /\ y.state = x.state /\ y.mode = x.mode /\ y.iss = x.iss /\ y.parent_desc = x.parent_desc
                /\ y.rcv_nxt = x.rcv_nxt /\ y.snd_wnd = x.snd_wnd /\ y.remote = x.remote /\ y.local = x.local
                /\ SameSend(x, y) /\ SameBuffer(x, y) /\ y.backlog = x.backlog
            BY <4>1, <5>1 DEF SameSend, SameBuffer, Pcb
          <6> HIDE DEF y
          <6> QED BY <5>1, <5>5, <6>1 DEF SameLink, SameSend, SameBuffer, y
        <5> QED BY <5>2, <5>4, <5>5
      <4> QED BY <4>4, Zenon DEF PcbStep, Untouched
    <3>6. \A e \in Live(new) : e \in Live(tab)
      <4> SUFFICES ASSUME NEW e \in Desc, tab[e] = NoPcb, new[e] # NoPcb PROVE FALSE
        BY DEF Live
      <4>1. e # d
        BY <2>3 DEF Live
      <4>2. popped[e] = NoPcb
        BY <3>2, <4>1
      <4>3. c \in Live(tab) => e # c
        BY DEF Live
      <4>4. CASE pcbs' = [pcbs EXCEPT ![h] = popped]
        <5>1. new = popped
          BY <2>1, <3>0, <4>4 DEF StackInv
        <5> QED BY <4>2, <5>1
      <4>5. CASE c \in Live(tab)
        <5>1. new[e] = popped[e]
          BY <3>0, <3>3, <4>3, <4>5
        <5> QED BY <4>2, <5>1
      <4> QED BY <2>3, <4>4, <4>5
    <3> QED BY <2>1, <3>0, <3>5, <3>6, <1>TableSteps, Zenon DEF tab
  <2> QED BY <2>2, <2>3, Zenon DEF AcceptStep
\* send.
<1>SendStep. ASSUME NEW t \in Thread, SendStep(t) PROVE Steps
  <2> DEFINE h == ThreadHost[t]
             d == thr[t].desc
             p == pcbs[h][d]
  <2>1. h \in Host
    BY TcpAssumption
  <2>2. CASE Rests(t)
    BY <2>2, <1>SameSteps DEF Rests
  <2>3. ASSUME NEW n, SendsText(t, n) PROVE Steps
    <3> DEFINE q == TextSent(p, NextText(t, n), n)
    <3>1. d \in Live(pcbs[h]) /\ d \in Desc /\ pcbs' = [pcbs EXCEPT ![h][d] = q]
      BY <2>3, Zenon DEF SendsText, Live
    <3>2. Writes(p, q)
      BY <2>3, Zenon DEF SendsText, Writes
    <3> HIDE DEF q
    <3> QED BY <2>1, <3>1, <3>2, <1>SlotSteps, Zenon DEF PcbStep
  <2> QED BY <1>SendStep, <2>2, <2>3, SendRound
\* receive.
<1>ReceiveStep. ASSUME NEW t \in Thread, ReceiveStep(t) PROVE Steps
  <2> DEFINE h == ThreadHost[t]
             d == thr[t].desc
             p == pcbs[h][d]
  <2>1. h \in Host
    BY TcpAssumption
  <2>2. CASE Rests(t)
    BY <2>2, <1>SameSteps DEF Rests
  <2>3. ASSUME NEW n, ReadsText(t, n) PROVE Steps
    <3> DEFINE q == Drained(p, n)
    <3>1. d \in Live(pcbs[h]) /\ d \in Desc /\ pcbs' = [pcbs EXCEPT ![h][d] = q]
      BY <2>3, Zenon DEF ReadsText, Live
    <3>2. Empties(p, q)
      BY <2>3, Zenon DEF ReadsText, Empties
    <3> HIDE DEF q
    <3> QED BY <2>1, <3>1, <3>2, <1>SlotSteps, Zenon DEF PcbStep
  <2> QED BY <1>ReceiveStep, <2>2, <2>3, ReceiveRound
\* An interrupt consumed, or set on every PCB.
<1>WaitReturns. ASSUME NEW t \in Thread, WaitReturns(t) PROVE Steps
  <2> USE <1>WaitReturns
  <2> DEFINE h == ThreadHost[t]
             d == thr[t].desc
             p == pcbs[h][d]
  <2>1. h \in Host /\ TabOK(pcbs[h])
    BY TcpAssumption DEF StackInv
  <2>2. CASE UNCHANGED pcbs
    BY <2>2, <1>SameSteps
  <2>3. ASSUME thr[t].pc \in {"wait", "woken"}, NEW flag, pcbs' = [pcbs EXCEPT ![h][d].intr = flag] PROVE Steps
    <3>1. d \in Live(pcbs[h])
      BY <2>3 DEF StackInv, WaitersLive, Waiting
    <3>2. p \in Pcb /\ d \in Desc
      BY <2>1, <3>1, LivePcbs, Zenon
    <3> DEFINE q == [p EXCEPT !.intr = flag]
    <3>3. pcbs' = [pcbs EXCEPT ![h][d] = q]
      BY <2>3, Zenon
    <3>4. Untouched(h, d, p, q)
      <4> HIDE DEF p
      <4> QED BY <3>2 DEF Untouched, SameLink, SameSend, SameBuffer, Pcb
    <3>5. PcbStep(h, d, p, q)
      BY <3>4, Zenon DEF PcbStep
    <3> HIDE DEF q
    <3> QED BY <2>1, <3>1, <3>2, <3>3, <3>5, <1>SlotSteps, Zenon
  <2> QED BY <2>2, <2>3, Zenon DEF WaitReturns
\* The signal handler marks every PCB.
<1>Interrupt. ASSUME NEW h \in Host, Interrupt(h) PROVE Steps
  <2> USE <1>Interrupt
  <2> DEFINE old == pcbs[h]
             tab == [d \in Desc |-> IF d \in Live(old) THEN [old[d] EXCEPT !.intr = TRUE] ELSE NoPcb]
  <2>1. pcbs' = [pcbs EXCEPT ![h] = tab]
    BY DEF Interrupt
  <2>2. TabOK(old)
    BY DEF StackInv
  <2> HIDE DEF old
  <2>3. ASSUME NEW d \in Live(tab) PROVE d \in Live(old) /\ PcbStep(h, d, old[d], tab[d])
    <3>1. d \in Live(old) /\ tab[d] = [old[d] EXCEPT !.intr = TRUE]
      BY <2>3 DEF Live
    <3>2. old[d] \in Pcb
      BY <2>2, <3>1, LivePcbs
    <3> HIDE DEF tab
    <3>3. Untouched(h, d, old[d], tab[d])
      <4> DEFINE p == old[d]
                 q == tab[d]
      <4>1. q = [p EXCEPT !.intr = TRUE] /\ p \in Pcb
        BY <3>1, <3>2
      <4> HIDE DEF p, q
      <4>2. Untouched(h, d, p, q)
        BY <4>1 DEF Untouched, SameLink, SameSend, SameBuffer, Pcb
      <4> QED BY <4>2 DEF p, q
    <3> QED BY <3>1, <3>3, Zenon DEF PcbStep
  <2> HIDE DEF tab
  <2> QED BY <2>1, <2>3, <1>TableSteps, Zenon DEF old
\* open and connect, back from their wait.
<1>AwaitEstablished. ASSUME NEW t \in Thread, AwaitEstablished(t) PROVE Steps
  <2> USE <1>AwaitEstablished
  <2> DEFINE h == ThreadHost[t]
             d == thr[t].desc
  <2>1. h \in Host /\ thr[t].pc = "lock"
    BY TcpAssumption DEF AwaitEstablished, AtLoop
  <2>2. UNCHANGED pcbs \/ (d \in Live(pcbs[h]) /\ GiveUp(t, h, d))
    BY DEF AwaitEstablished
  <2> QED BY <2>1, <2>2, <1>SameSteps, <1>GiveUpSteps
\* A blocked call that was interrupted.
<1>Interrupted. ASSUME NEW t \in Thread, Interrupted(t) PROVE Steps
  <2> USE <1>Interrupted
  <2> DEFINE h == ThreadHost[t]
             d == thr[t].desc
  <2>1. h \in Host /\ thr[t].pc = "intr"
    BY TcpAssumption DEF Interrupted
  <2>2. UNCHANGED pcbs \/ (d \in Live(pcbs[h]) /\ GiveUp(t, h, d))
    BY DEF Interrupted
  <2> QED BY <2>1, <2>2, <1>SameSteps, <1>GiveUpSteps
\* segment_arrives, all its cases.
<1>SegmentArrives. ASSUME NEW h \in Host, NEW i \in DOMAIN net[h], SegmentArrives(h, i) PROVE Steps
  <2> USE <1>SegmentArrives
  \* A segment for a listening PCB.
  <2>ArrivesListen. ASSUME NEW seg \in Arriving(h), NEW d \in Live(pcbs[h]), ArrivesListen(h, i, seg, d)
        PROVE  Steps
    <3> USE <2>ArrivesListen
    <3> DEFINE tab == pcbs[h]
    <3>1. tab[d].state = "Listen" /\ Iss[h] \subseteq SeqNo /\ d \in Desc
      BY TcpAssumption DEF ArrivesListen, Live
    <3>2. CASE \E out : Outcome(h, i, tab, thr, out)
      BY <3>2, <1>DropSteps
    <3>3. ASSUME NEW c \in Desc, NEW iss \in Iss[h], NEW out, "SYN" \in seg.flg, Allocates(tab, c), tab[d].mode = "Socket",
                 Outcome(h, i, [tab EXCEPT ![c] = SynArrives([EmptyPcb EXCEPT !.parent_desc = d], seg, iss)], thr, out)
          PROVE  Steps
      <4> DEFINE q == SynArrives([EmptyPcb EXCEPT !.parent_desc = d], seg, iss)
      <4>1. NewPcb(h, q) /\ c \notin Live(tab)
        BY <3>1, <3>3, Zenon DEF NewPcb, Allocates
      <4> HIDE DEF q
      <4> QED BY <3>3, <4>1, <1>PutSteps DEF q
    <3>4. ASSUME NEW iss \in Iss[h], NEW out, "SYN" \in seg.flg, "RST" \notin seg.flg, tab[d].mode = "Rfc",
                 Outcome(h, i, [tab EXCEPT ![d] = SynArrives(tab[d], seg, iss)], thr, out)
          PROVE  Steps
      <4> DEFINE q == SynArrives(tab[d], seg, iss)
      <4>1. Takes(h, tab[d], q)
        BY <3>1, <3>4, Zenon DEF Takes
      <4>2. PcbStep(h, d, tab[d], q)
        BY <4>1, Zenon DEF PcbStep
      <4> HIDE DEF q
      <4> QED BY <3>1, <3>4, <4>2, <1>PutSteps DEF q
    <3>5. seg.flg \cap {"RST", "ACK", "SYN"} = {"SYN"} => "SYN" \in seg.flg /\ "RST" \notin seg.flg
      OBVIOUS
    <3> QED BY <3>2, <3>3, <3>4, <3>5, Zenon DEF ArrivesListen, Dropped, Answered
  \* A segment for a PCB in SYN_SENT.
  <2>ArrivesSynSent. ASSUME NEW seg \in Arriving(h), NEW d \in Live(pcbs[h]), RemoteMatch(pcbs[h][d], seg.src), ArrivesSynSent(h, i, seg, d)
        PROVE  Steps
    <3> USE <2>ArrivesSynSent
    <3> DEFINE tab == pcbs[h]
               p == tab[d]
               q == SynSentSyn(p, seg)
    <3>1. p.state = "SynSent" /\ d \in Desc /\ ThreadsOK
      BY DEF ArrivesSynSent, Live, StackInv
    <3>2. CASE \E out : Outcome(h, i, tab, thr, out)
      BY <3>2, <1>DropSteps
    <3>3. CASE Reset(h, i, d, <<>>)
      BY <3>3, <1>ResetSteps
    <3>4. ASSUME NEW th, NEW out, ~SynSentBadAck(p, seg), "SYN" \in seg.flg, "RST" \notin seg.flg, Outcome(h, i, [tab EXCEPT ![d] = q], th, out),
                 \/ q.state = "Established" /\ th = Woken(h, {d}, {})
                 \/ q.state = "SynReceived"
          PROVE  Steps
      <4>1. q.state = "Established" => Told(h, d)
        <5> SUFFICES ASSUME q.state = "Established" PROVE Told(h, d)
          OBVIOUS
        <5>1. thr' = Woken(h, {d}, {})
          BY <3>4 DEF Outcome
        <5> QED BY <3>1, <5>1, <1>WokenTold
      <4>2. Answers(h, d, p, q)
        BY <3>1, <3>4, <4>1 DEF Answers
      <4>3. PcbStep(h, d, p, q)
        BY <4>2, Zenon DEF PcbStep
      <4> HIDE DEF q
      <4> QED BY <3>1, <3>4, <4>3, <1>PutSteps
    <3> QED BY <3>2, <3>3, <3>4, Zenon DEF ArrivesSynSent, Dropped, Answered
  \* A segment that segment_arrives stops at before it is processed.
  <2>ArrivesRefused. ASSUME NEW seg, NEW d, ArrivesRefused(h, i, seg, d) PROVE Steps
    <3> USE <2>ArrivesRefused
    <3>1. CASE \E out : Outcome(h, i, pcbs[h], thr, out)
      BY <3>1, <1>DropSteps
    <3>2. CASE \E out : Reset(h, i, d, out)
      BY <3>2, <1>ResetSteps
    <3> QED BY <3>1, <3>2 DEF ArrivesRefused, Dropped, Answered
  \* The two ways a segment with a good ACK is processed.
  <2>ArrivesInOrder. ASSUME NEW seg \in Arriving(h), NEW d \in Live(pcbs[h]), pcbs[h][d].state \notin {"Closed", "Listen", "SynSent"},
               RemoteMatch(pcbs[h][d], seg.src), ArrivesInOrder(h, i, seg, d)
        PROVE  Steps
    <3> USE <2>ArrivesInOrder
    <3> DEFINE tab == pcbs[h]
               p == tab[d]
               acked == ProcessAck(p, seg)
               read == ProcessText(acked, seg)
               done == ProcessFin(read, seg)
               ackWakes == p.state = "SynReceived" \/ (p.state = "Closing" /\ acked.state = "TimeWait")
               allWakes == ackWakes \/ HasText(acked, seg) \/ FinWakes(read, seg)
    <3>1. CASE TextRefused(acked, seg)
      <4>1. PICK out : Outcome(h, i, WithParent(tab, d, p, acked), Woken(h, Notified(tab, d, p, ackWakes), {}), out)
        BY <3>1, Zenon DEF ArrivesInOrder
      <4>2. AckProcessed(p, seg, acked, ackWakes) /\ ackWakes \in BOOLEAN
        BY <3>1, Zenon DEF AckProcessed
      <4> HIDE DEF acked, ackWakes
      <4> QED BY <4>1, <4>2, <1>ProcessedSteps, Zenon
    <3>2. CASE ~TextRefused(acked, seg)
      <4>1. PICK out : Outcome(h, i, WithParent(tab, d, p, done), Woken(h, Notified(tab, d, p, allWakes), {}), out)
        BY <3>2, Zenon DEF ArrivesInOrder
      <4>2. AllProcessed(p, seg, done, allWakes) /\ allWakes \in BOOLEAN
        BY <3>2, Zenon DEF AllProcessed
      <4> HIDE DEF done, allWakes
      <4> QED BY <4>1, <4>2, <1>ProcessedSteps, Zenon
    <3> QED BY <3>1, <3>2
  <2> DEFINE seg == net[h][i]
  <2>1. seg \in Arriving(h)
    BY Zenon DEF SegmentArrives, Arriving
  <2>3. CASE ArrivesClosed(h, i, seg)
    <3>1. PICK out : Outcome(h, i, pcbs[h], thr, out)
      BY <2>3 DEF ArrivesClosed, Dropped, Answered
    <3> QED BY <3>1, <1>DropSteps
  <2>4. ASSUME NEW d \in Desc, Selects(pcbs[h], seg.dst, seg.src, d),
               \/ ArrivesListen(h, i, seg, d)
               \/ ArrivesSynSent(h, i, seg, d)
               \/ /\ pcbs[h][d].state \notin {"Closed", "Listen", "SynSent"}
                  /\ ArrivesRefused(h, i, seg, d) \/ ArrivesInOrder(h, i, seg, d)
        PROVE  Steps
    <3>1. d \in Live(pcbs[h]) /\ RemoteMatch(pcbs[h][d], seg.src)
      BY <2>4, SelectsProperties
    <3> HIDE DEF seg
    <3> QED BY <2>1, <2>4, <3>1, <2>ArrivesListen, <2>ArrivesSynSent, <2>ArrivesRefused, <2>ArrivesInOrder
  <2> QED BY <2>3, <2>4 DEF SegmentArrives
\* on_timer.
<1>OnTimer. ASSUME NEW h \in Host, OnTimer(h) PROVE Steps
  <2> USE <1>OnTimer
  <2> DEFINE tab == pcbs[h]
             elapsed == {d \in Live(tab) : TimeWaitElapsed(tab[d])}
             released == UNION {TornDown(tab, d) : d \in elapsed}
             kept == Live(tab) \ released
             new == [d \in Desc |-> IF d \in kept THEN Ticked(tab[d]) ELSE NoPcb]
             notified == {d \in kept : DeadlineExceeded(tab[d])}
  <2>1. ThreadsOK /\ pcbs' = [pcbs EXCEPT ![h] = new] /\ thr' = Woken(h, notified, released)
    BY DEF OnTimer, StackInv
  <2>2. ASSUME NEW d \in Live(new) PROVE d \in Live(tab) /\ PcbStep(h, d, tab[d], new[d])
    <3>1. d \in kept /\ new[d] = Ticked(tab[d])
      BY <2>2 DEF Live
    <3>2. d \in Live(tab) /\ ~TimeWaitElapsed(tab[d])
      BY <3>1, TornDownSelf
    <3>3. DeadlineExceeded(tab[d]) => Told(h, d)
      <4> SUFFICES ASSUME DeadlineExceeded(tab[d]) PROVE Told(h, d)
        OBVIOUS
      <4>1. d \in notified
        BY <3>1
      <4> HIDE DEF notified, released
      <4> QED BY <2>1, <4>1, <1>WokenTold
    <3> HIDE DEF kept, new
    <3> QED BY <3>1, <3>2, <3>3, Zenon DEF PcbStep, Ticks
  <2> HIDE DEF new
  <2> QED BY <2>1, <2>2, <1>TableSteps, Zenon
<1>1. UNCHANGED pcbs => Steps
  BY <1>SameSteps
<1>2. ASSUME NEW t \in Thread, ThreadCall(t) PROVE Steps
  BY <1>1, <1>2, <1>Socket, <1>OpenActive, <1>OpenPassive, <1>Bind, <1>Listen, <1>Connect, <1>Close,
     Zenon DEF ThreadCall, Accept, Send, Receive
<1>3. ASSUME NEW t \in Thread, ThreadStep(t) PROVE Steps
  BY <1>3, <1>AwaitEstablished, <1>FinishOpen, <1>AcceptStep, <1>SendStep, <1>ReceiveStep,
     <1>WaitReturns, <1>Interrupted, Zenon DEF ThreadStep
<1>4. ASSUME NEW h \in Host, OnTimer(h) \/ Interrupt(h) \/ PeerSends(h) PROVE Steps
  BY <1>1, <1>4, <1>OnTimer, <1>Interrupt DEF PeerSends
<1>5. ASSUME NEW h \in Host, NEW i \in DOMAIN net[h], SegmentArrives(h, i) \/ Lose(h, i) \/ Duplicate(h, i) PROVE Steps
  BY <1>1, <1>5, <1>SegmentArrives DEF Lose, Duplicate
<1> QED BY <1>1, <1>2, <1>3, <1>4, <1>5 DEF Next, vars
-----------------------------------------------------------------------------
\* UnackedIsQueued for every PCB that has a connection, during the handshake too.
AllCovered == \A h \in Host : \A d \in Live(pcbs[h]) : Covered(pcbs[h][d])

\* Everything between snd.una and snd.nxt can be sent again: output puts in the queue what
\* advances snd.nxt, retrans_queue_cleanup drops only what lies before snd.una, and the timer and
\* the processing of segments keep the rest.  This holds for every sequence space, any number
\* of connections and whatever the network, the peers and the interrupts do.
THEOREM NothingUnackedIsLost == ASSUME NoRecycle PROVE Spec => []UnackedIsQueued
\* A segment that is processed.
<1>ProcessesCovered. ASSUME NEW h, NEW d, NEW p \in Pcb, Covered(p), NEW q, Processes(h, d, p, q)
      PROVE  Covered(q)
  <2> USE <1>ProcessesCovered
  <2>1. PICK seg \in Arriving(h), wakes \in BOOLEAN :
          AckProcessed(p, seg, q, wakes) \/ AllProcessed(p, seg, q, wakes)
    BY Zenon DEF Processes
  <2>2. seg \in Segment /\ Active(p) /\ p.state # "LastAck"
    BY DEF Processes, Active, Arriving
  <2>3. Covered(ProcessAck(p, seg)) /\ Covered(ProcessFin(ProcessText(ProcessAck(p, seg), seg), seg))
    BY <2>2, ProcessedCovered
  <2> QED BY <2>1, <2>3, Zenon DEF AckProcessed, AllProcessed
\* What one step does to a PCB keeps it covered.
<1>PcbStepCovered. ASSUME NEW h \in Host, NEW d, NEW p \in Pcb, Covered(p), NEW q, PcbStep(h, d, p, q)
      PROVE  Covered(q)
  <2> USE <1>PcbStepCovered
  <2>1. CASE Untouched(h, d, p, q)
    BY <2>1, SameSendCovered DEF Untouched, SameLink, Active
  <2>2. CASE Empties(p, q)
    BY <2>2, DrainedCovered DEF Empties
  <2>3. ASSUME q.state = "Closed" \/ q.state = "Listen" PROVE Covered(q)
    BY <2>3 DEF Covered, Active
  <2>4. CASE Listens(p, q)
    <3>1. q.state = "Listen"
      BY <2>4 DEF Listens, Pcb
    <3> QED BY <2>3, <3>1
  <2>5. CASE Dials(h, d, p, q)
    <3>1. PICK local \in Endp, remote \in Endp, iss \in SeqNo :
            q \in {Dialled(p, local, remote, iss), [SynSent(p, local, remote, iss) EXCEPT !.state = "Closed"]}
      BY <2>5, Zenon DEF Dials
    <3>2. CASE q = Dialled(p, local, remote, iss)
      BY <3>2, DialledCovered
    <3>3. CASE q = [SynSent(p, local, remote, iss) EXCEPT !.state = "Closed"]
      <4>1. p.buf = <<>>
        BY <2>5 DEF Dials, Unused
      <4>2. SynSent(p, local, remote, iss) \in Pcb
        BY <4>1, SynSentStarts DEF Starts
      <4>3. q.state = "Closed"
        BY <3>3, <4>2 DEF Pcb
      <4> QED BY <2>3, <4>3
    <3> QED BY <3>1, <3>2, <3>3
  <2>6. CASE GivesUp(h, d, p, q)
    <3>1. q.state = "Closed"
      BY <2>6 DEF GivesUp, Pcb
    <3> QED BY <2>3, <3>1
  <2>7. CASE Finishes(h, d, p, q)
    BY <2>7, FinSentCovered DEF Finishes, Active
  <2>8. CASE Writes(p, q)
    BY <2>8, TextSentCovered DEF Writes, Active
  <2>9. CASE Takes(h, p, q)
    <3>1. Iss[h] \subseteq SeqNo
      BY TcpAssumption
    <3> QED BY <2>9, <3>1, SynArrivesCovered DEF Takes, Arriving
  <2>10. CASE Answers(h, d, p, q)
    BY <2>10, SynSentSynCovered DEF Answers, Arriving, Active
  <2>11. CASE Processes(h, d, p, q)
    BY <2>11, <1>ProcessesCovered
  <2>12. CASE Ticks(h, d, p, q)
    BY <2>12, TickedCovered DEF Ticks
  <2> QED BY <2>1, <2>2, <2>4, <2>5, <2>6, <2>7, <2>8, <2>9, <2>10, <2>11, <2>12, Zenon DEF PcbStep
\* A PCB that was just allocated has sent at most its SYN.
<1>NewPcbCovered. ASSUME NEW h \in Host, NEW q, NewPcb(h, q) PROVE Covered(q)
  <2> USE <1>NewPcbCovered
  <2>1. ASSUME q.state = "Closed" \/ q.state = "Listen" PROVE Covered(q)
    BY <2>1 DEF Covered, Active
  <2>2. EmptyPcb \in Pcb
    BY EmptyPcbType
  <2>3. CASE q = [EmptyPcb EXCEPT !.mode = "Socket"]
    BY <2>1, <2>3 DEF EmptyPcb
  <2>4. ASSUME NEW local \in Endp, NEW remote \in Endp, NEW iss \in SeqNo, q = Dialled(EmptyPcb, local, remote, iss) PROVE Covered(q)
    BY <2>2, <2>4, DialledCovered
  <2>5. CASE \E local, remote \in Endp : q = [EmptyPcb EXCEPT !.local = local, !.remote = remote, !.state = "Listen"]
    BY <2>1, <2>5 DEF EmptyPcb
  <2>6. ASSUME NEW seg \in Arriving(h), NEW iss \in SeqNo, NEW l \in Desc,
               q = SynArrives([EmptyPcb EXCEPT !.parent_desc = l], seg, iss)
        PROVE  Covered(q)
    <3>2. [EmptyPcb EXCEPT !.parent_desc = l] \in Pcb /\ seg \in Segment
      BY <2>2 DEF Pcb, Arriving
    <3> QED BY <2>6, <3>2, SynArrivesCovered
  <2>7. Iss[h] \subseteq SeqNo /\ Live(pcbs[h]) \subseteq Desc /\ \A t \in Thread : ConnectTo[t] \subseteq Endp
    BY TcpAssumption DEF Live
  <2> QED BY <2>3, <2>4, <2>5, <2>6, <2>7, Zenon DEF NewPcb
\* Every step keeps the queues complete.
<1>StepCovered. ASSUME StackInv, AllCovered, [Next]_vars PROVE AllCovered'
  <2> USE <1>StepCovered
  <2>1. Steps
    BY StepSteps
  <2> SUFFICES ASSUME NEW h \in Host, NEW d \in Live(pcbs'[h]) PROVE Covered(pcbs'[h][d])
    BY DEF AllCovered
  <2>2. SlotStep(h, d)
    BY <2>1 DEF Steps
  <2>3. CASE d \in Live(pcbs[h])
    <3>1. pcbs[h][d] \in Pcb /\ Covered(pcbs[h][d])
      BY <2>3, LivePcbs DEF StackInv, AllCovered
    <3> QED BY <2>2, <2>3, <3>1, <1>PcbStepCovered DEF SlotStep
  <2>4. CASE d \notin Live(pcbs[h])
    BY <2>2, <2>4, <1>NewPcbCovered DEF SlotStep
  <2> QED BY <2>3, <2>4
<1>1. Init => StackInv /\ AllCovered
  <2> SUFFICES ASSUME Init PROVE AllCovered
    BY InitStackInv
  <2>1. \A h \in Host : Live(pcbs[h]) = {}
    BY DEF Init, Live
  <2> QED BY <2>1 DEF AllCovered
<1>2. StackInv /\ AllCovered /\ [Next]_vars => StackInv' /\ AllCovered'
  BY StepStackInv, <1>StepCovered
<1>3. AllCovered => UnackedIsQueued
  BY DEF AllCovered, UnackedIsQueued, LivePcb, InSync, Covered, Covers
<1> QED BY <1>1, <1>2, <1>3, PTL DEF Spec
-----------------------------------------------------------------------------
\* The edge of the state diagram one step takes a PCB along.
RfcEdge(p, q) == q.state \in {p.state, "Closed"} \cup RfcNext(p.state)

\* Whatever arrives and whatever is called while a PCB waits, it moves along the edges of the
\* diagram of RFC 793 or back to CLOSED, as long as connect is called on CLOSED PCBs: connect
\* itself does not look at the state.
THEOREM StatesFollowTheDiagram ==
  ASSUME NoRecycle PROVE Spec /\ ConnectsOnClosed => RfcTransitions
\* The processing of a segment moves along the diagram.
<1>ProcessesEdge. ASSUME NEW h, NEW d, NEW p \in Pcb, Accounted(p), NEW q, Processes(h, d, p, q)
      PROVE  RfcEdge(p, q)
  <2> USE <1>ProcessesEdge
  <2>1. PICK seg \in Arriving(h), wakes \in BOOLEAN :
          AckProcessed(p, seg, q, wakes) \/ AllProcessed(p, seg, q, wakes)
    BY Zenon DEF Processes
  <2>2. seg \in Segment /\ Active(p)
    BY DEF Processes, Arriving, Active
  <2>3. CASE AckProcessed(p, seg, q, wakes)
    <3>1. q = ProcessAck(p, seg)
      BY <2>3, Zenon DEF AckProcessed
    <3> QED BY <2>2, <3>1, ProcessAckState, Zenon DEF RfcEdge, RfcNext
  <2>4. CASE AllProcessed(p, seg, q, wakes)
    <3>1. q = ProcessFin(ProcessText(ProcessAck(p, seg), seg), seg) /\ ~TextRefused(ProcessAck(p, seg), seg)
      BY <2>4, Zenon DEF AllProcessed
    <3> QED BY <2>2, <3>1, ProcessedState, Zenon DEF RfcEdge, RfcNext
  <2> QED BY <2>1, <2>3, <2>4
\* A PCB moves along the edges of the diagram.
<1>PcbStepEdge. ASSUME NEW h \in Host, NEW d \in Desc, NEW p \in Pcb, Accounted(p), NEW q,
                       PcbStep(h, d, p, q), Dials(h, d, p, q) => p.state = "Closed"
      PROVE  RfcEdge(p, q)
  <2> USE <1>PcbStepEdge
  <2>1. ASSUME q.state \in {p.state, "Closed"} PROVE RfcEdge(p, q)
    BY <2>1 DEF RfcEdge
  <2>2. CASE Untouched(h, d, p, q)
    BY <2>1, <2>2 DEF Untouched, SameLink
  <2>3. CASE Empties(p, q)
    <3>1. PICK n \in 1..Len(p.buf) : q = Drained(p, n)
      BY <2>3 DEF Empties
    <3>2. n \in Nat /\ n <= Len(p.buf) /\ Active(p)
      BY <2>3 DEF Empties, Active, Pcb
    <3>3. q.state = p.state
      BY <3>1, <3>2, DrainedAccounted
    <3> QED BY <2>1, <3>3
  <2>4. CASE Listens(p, q)
    <3>1. q.state = "Listen" /\ p.state = "Closed"
      BY <2>4 DEF Listens, Pcb
    <3> QED BY <3>1 DEF RfcEdge, RfcNext
  <2>5. CASE Dials(h, d, p, q)
    <3>1. p.state = "Closed" /\ p.buf = <<>>
      BY <2>5 DEF Dials, Unused
    <3>2. q.state \in {"SynSent", "Closed"}
      <4>1. PICK local \in Endp, remote \in Endp, iss \in SeqNo :
              q \in {Dialled(p, local, remote, iss), [SynSent(p, local, remote, iss) EXCEPT !.state = "Closed"]}
        BY <2>5, Zenon DEF Dials
      <4>3. CASE q = Dialled(p, local, remote, iss)
        BY <3>1, <4>3, StartedState
      <4>4. CASE q = [SynSent(p, local, remote, iss) EXCEPT !.state = "Closed"]
        <5>1. SynSent(p, local, remote, iss) \in Pcb
          BY <3>1, SynSentStarts DEF Starts
        <5> QED BY <4>4, <5>1 DEF Pcb
      <4> QED BY <4>1, <4>3, <4>4, Zenon
    <3> QED BY <3>1, <3>2 DEF RfcEdge, RfcNext
  <2>6. CASE GivesUp(h, d, p, q)
    <3>1. q.state = "Closed"
      BY <2>6 DEF GivesUp, Pcb
    <3> QED BY <2>1, <3>1
  <2>7. CASE Finishes(h, d, p, q)
    <3>1. /\ p.state \in {"SynReceived", "Established", "CloseWait"}
          /\ q = FinSent(p, IF p.state = "CloseWait" THEN "LastAck" ELSE "FinWait1")
      BY <2>7 DEF Finishes
    <3>2. q.state = IF p.state = "CloseWait" THEN "LastAck" ELSE "FinWait1"
      BY <3>1, SentState, Zenon
    <3> QED BY <3>1, <3>2 DEF RfcEdge, RfcNext
  <2>8. CASE Writes(p, q)
    BY <2>1, <2>8, SentState DEF Writes
  <2>9. CASE Takes(h, p, q)
    <3>1. p.state = "Listen" /\ p.buf = <<>>
      BY <2>9 DEF Takes, Accounted
    <3>3. Iss[h] \subseteq SeqNo
      BY TcpAssumption
    <3>2. q.state = "SynReceived"
      BY <2>9, <3>3, SynArrivesState, Zenon DEF Takes, Arriving
    <3> QED BY <3>1, <3>2 DEF RfcEdge, RfcNext
  <2>10. CASE Answers(h, d, p, q)
    BY <2>10 DEF Answers, RfcEdge, RfcNext
  <2>11. CASE Processes(h, d, p, q)
    BY <2>11, <1>ProcessesEdge
  <2>12. CASE Ticks(h, d, p, q)
    <3>1. q.state \in {p.state, "Closed"}
      BY <2>12, TickedState DEF Ticks
    <3> QED BY <2>1, <3>1
  <2> QED BY <2>2, <2>3, <2>4, <2>5, <2>6, <2>7, <2>8, <2>9, <2>10, <2>11, <2>12, Zenon DEF PcbStep
<1> DEFINE Edges == \A h \in Host, d \in Desc : LivePcb(h, d) /\ d \in Live(pcbs'[h]) => RfcEdge(pcbs[h][d], pcbs'[h][d])
<1>1. ASSUME StackInv, [Next]_vars, ConnectsClosed PROVE Edges
  <2> SUFFICES ASSUME NEW h \in Host, NEW d \in Desc, d \in Live(pcbs[h]), d \in Live(pcbs'[h])
               PROVE  RfcEdge(pcbs[h][d], pcbs'[h][d])
    BY DEF LivePcb
  <2>1. PcbStep(h, d, pcbs[h][d], pcbs'[h][d])
    BY <1>1, StepSteps DEF Steps, SlotStep
  <2>2. pcbs[h][d] \in Pcb /\ Accounted(pcbs[h][d])
    BY <1>1, LivePcbs DEF StackInv
  <2>3. Dials(h, d, pcbs[h][d], pcbs'[h][d]) => pcbs[h][d].state = "Closed"
    BY <1>1, Zenon DEF Dials, ConnectsClosed
  <2> QED BY <2>1, <2>2, <2>3, <1>PcbStepEdge
<1>2. StackInv /\ [Next]_vars /\ [ConnectsClosed]_vars => [Edges]_vars
  BY <1>1
<1>3. StackInv /\ [Next]_vars => StackInv'
  BY StepStackInv
<1>4. [Edges]_vars =>
        [\A h \in Host, d \in Desc : LivePcb(h, d) /\ d \in Live(pcbs'[h]) =>
           pcbs'[h][d].state \in {pcbs[h][d].state, "Closed"} \cup RfcNext(pcbs[h][d].state)]_vars
  BY DEF RfcEdge
<1> QED BY <1>2, <1>3, <1>4, InitStackInv, PTL DEF Spec, RfcTransitions, ConnectsOnClosed
-----------------------------------------------------------------------------
(***************************************************************************)
(* Who waits, and for what.                                                *)
(***************************************************************************)
\* Whoever waits in th waited before, in the same call.
StayWaiting(th) ==
  \A u \in Thread : th[u].pc = "wait" => thr[u].pc = "wait" /\ th[u].op = thr[u].op /\ th[u].desc = thr[u].desc

\* Where receive may sleep.
Readable == {"Established", "FinWait1", "FinWait2", "Closing", "TimeWait"}

\* Whoever waits after the step waited before, or has found in this step what it waits for missing.
WaitStep ==
  \/ StayWaiting(thr')
  \/ /\ UNCHANGED pcbs
     /\ \E t \in Thread :
          /\ \A u \in Thread \ {t} : thr'[u] = thr[u]
          /\ StillWaits(thr'[t].op, pcbs[ThreadHost[t]][thr'[t].desc])

-----------------------------------------------------------------------------
\* No wakeup is lost but the two that WaitersBlocked excepts: whoever changes a PCB so that open,
\* connect, accept or receive could go on, or so that send has to give up, notifies its task in
\* the same critical section.  The exceptions are a FIN in FIN_WAIT_1 or FIN_WAIT_2, after which a
\* reader sleeps on, and an ACK that opens the window, after which a sender does.  The discipline
\* is needed: connect sets the PCB to CLOSED without a notification, and a SYN takes a PCB in
\* LISTEN that was not made by socket() away from accept.
THEOREM NoLostWakeup ==
  ASSUME NoRecycle PROVE Spec /\ []Disciplined /\ ConnectsOnClosed => []WaitersBlocked
\* A thread is put where it does not wait.
<1>StayPut. ASSUME NEW th \in [Thread -> ThreadState], StayWaiting(th), NEW t \in Thread, NEW rec,
                   rec.pc # "wait"
      PROVE  StayWaiting([th EXCEPT ![t] = rec])
  BY <1>StayPut DEF StayWaiting
\* A call returns.
<1>ReturnsStay. ASSUME NEW th \in [Thread -> ThreadState], StayWaiting(th), NEW t \in Thread,
                       NEW ret \in {"none", "Ok", "Err", "Eof"}
      PROVE  StayWaiting(Returns(th, t, ret))
  <2> USE <1>ReturnsStay
  <2> DEFINE r == Returns(th, t, ret)
  <2>1. ~Waiting(r[t]) /\ \A u \in Thread \ {t} : r[u] = th[u]
    BY ReturnsType
  <2> HIDE DEF r
  <2>2. StayWaiting(r)
    BY <2>1 DEF StayWaiting, Waiting
  <2> QED BY <2>2 DEF r
\* notify makes nobody wait.
<1>WokenStay. ASSUME ThreadsOK, NEW h, NEW notified, NEW released
      PROVE  StayWaiting(Woken(h, notified, released))
  <2> USE <1>WokenStay
  <2> SUFFICES ASSUME NEW u \in Thread, Woken(h, notified, released)[u].pc = "wait"
               PROVE  Woken(h, notified, released)[u] = thr[u]
    BY DEF StayWaiting
  <2> DEFINE s == IF pcbs[h][thr[u].desc].intr THEN "intr" ELSE "lock"
             w == Woken(h, notified, released)[u]
  <2>1. w \in {[thr[u] EXCEPT !.pc = s], [thr[u] EXCEPT !.pc = "woken"], thr[u]}
    BY DEF Woken
  <2>2. [thr[u] EXCEPT !.pc = s].pc = s /\ [thr[u] EXCEPT !.pc = "woken"].pc = "woken"
    BY DEF ThreadsOK, ThreadState
  <2>3. s # "wait" /\ w.pc = "wait"
    OBVIOUS
  <2> HIDE DEF s, w
  <2>4. w = thr[u]
    BY <2>1, <2>2, <2>3, Zenon
  <2> QED BY <2>4 DEF w
\* The calls.
<1>CallWaits. ASSUME StackInv, NEW t \in Thread, ThreadCall(t) PROVE StayWaiting(thr')
  <2> USE <1>CallWaits
  <2>1. ThreadsOK /\ thr \in [Thread -> ThreadState] /\ thr[t] \in ThreadState /\ StayWaiting(thr)
    BY DEF StackInv, ThreadsOK, StayWaiting
  <2>2. CASE thr' = thr
    BY <2>1, <2>2
  <2>3. CASE Socket(t)
    <3> DEFINE x == [thr[t] EXCEPT !.opens = @ + 1]
    <3>1. thr' = [thr EXCEPT ![t] = x] /\ thr[t].pc = "idle"
      BY <2>3 DEF Socket, MayCall
    <3>2. x.pc # "wait"
      BY <2>1, <3>1 DEF ThreadState
    <3> HIDE DEF x
    <3> QED BY <2>1, <3>1, <3>2, <1>StayPut, Zenon
  <2>4. ASSUME NEW op \in CallName, NEW d \in Desc, thr' = [thr EXCEPT ![t] = Begin(t, op, d)] PROVE StayWaiting(thr')
    <3>1. Begin(t, op, d).pc # "wait"
      BY <2>1, BeginType DEF Waiting
    <3> QED BY <2>1, <2>4, <3>1, <1>StayPut, Zenon
  <2>5. CASE OpenActive(t) \/ OpenPassive(t)
    BY <2>4, <2>5, Zenon DEF OpenActive, OpenPassive, StartActive, CallName
  <2>6. ASSUME NEW d \in Desc, Accept(t, d) \/ Receive(t, d) PROVE StayWaiting(thr')
    BY <2>4, <2>6 DEF Accept, Receive, CallName
  <2>7. ASSUME NEW d \in Desc, Send(t, d) PROVE StayWaiting(thr')
    <3>1. PICK data : thr' = [thr EXCEPT ![t] = [Begin(t, "send", d) EXCEPT !.data = data]]
      BY <2>7, Zenon DEF Send
    <3> DEFINE b == Begin(t, "send", d)
               x == [b EXCEPT !.data = data]
    <3>2. b \in ThreadState /\ b.pc # "wait"
      BY <2>1, BeginType DEF Waiting, CallName
    <3> HIDE DEF b
    <3>3. x.pc # "wait"
      BY <3>2 DEF ThreadState
    <3>4. thr' = [thr EXCEPT ![t] = x]
      BY <3>1 DEF b
    <3> HIDE DEF x
    <3> QED BY <2>1, <3>3, <3>4, <1>StayPut, Zenon
  <2>8. ASSUME NEW d \in Desc, Connect(t, d) PROVE StayWaiting(thr')
    <3>1. CASE thr' = [thr EXCEPT ![t] = Begin(t, "connect", d)]
      BY <2>4, <3>1, Zenon DEF CallName
    <3>2. CASE thr' = Returns([thr EXCEPT ![t].op = "connect"], t, "Err")
      <4> DEFINE x == [thr[t] EXCEPT !.op = "connect"]
                 th == [thr EXCEPT ![t] = x]
      <4>1. thr[t].pc = "idle"
        BY <2>8 DEF Connect, MayCall
      <4>2. x \in ThreadState /\ x.pc # "wait"
        BY <2>1, <4>1, Zenon DEF ThreadState, CallName
      <4> HIDE DEF x
      <4>3. th \in [Thread -> ThreadState] /\ StayWaiting(th)
        BY <2>1, <4>2, <1>StayPut, Zenon
      <4>4. thr' = Returns(th, t, "Err")
        BY <3>2 DEF x
      <4> HIDE DEF th
      <4> QED BY <4>3, <4>4, <1>ReturnsStay
    <3> QED BY <2>8, <3>1, <3>2 DEF Connect, StartActive
  <2>9. ASSUME NEW d \in Desc, Close(t, d) PROVE StayWaiting(thr')
    BY <2>1, <2>2, <2>9, <1>WokenStay DEF Close
  <2> QED BY <2>2, <2>3, <2>5, <2>6, <2>7, <2>8, <2>9, Zenon DEF ThreadCall, Bind, Listen
\* A round of a loop ends in a wait.
<1>WaitsOnce. ASSUME StackInv, NEW t \in Thread, UNCHANGED pcbs, thr' = [thr EXCEPT ![t].pc = "wait"],
                     StillWaits(thr[t].op, pcbs[ThreadHost[t]][thr[t].desc])
      PROVE  WaitStep
  <2> USE <1>WaitsOnce
  <2> DEFINE x == [thr[t] EXCEPT !.pc = "wait"]
  <2>1. thr \in [Thread -> ThreadState] /\ thr[t] \in ThreadState
    BY DEF StackInv, ThreadsOK
  <2>2. x.op = thr[t].op /\ x.desc = thr[t].desc /\ thr' = [thr EXCEPT ![t] = x]
    BY <2>1 DEF ThreadState
  <2> HIDE DEF x
  <2>3. thr'[t].op = thr[t].op /\ thr'[t].desc = thr[t].desc /\ \A u \in Thread \ {t} : thr'[u] = thr[u]
    BY <2>1, <2>2
  <2> QED BY <2>3, Zenon DEF WaitStep
\* A thread's pc changes to something else.
<1>MovesStay. ASSUME ThreadsOK, NEW t \in Thread, NEW s \in {"lock", "estab", "woken", "intr"},
                     thr' = [thr EXCEPT ![t].pc = s]
      PROVE  WaitStep
  <2> USE <1>MovesStay
  <2>1. thr'[t].pc = s /\ \A u \in Thread \ {t} : thr'[u] = thr[u]
    BY PcType, Zenon
  <2> QED BY <2>1 DEF WaitStep, StayWaiting
\* open and connect give up.
<1>GiveUpWaits. ASSUME ThreadsOK, NEW t \in Thread, NEW h, NEW d, GiveUp(t, h, d) PROVE StayWaiting(thr')
  <2> USE <1>GiveUpWaits
  <2>1. thr \in [Thread -> ThreadState] /\ StayWaiting(thr)
    BY DEF ThreadsOK, StayWaiting
  <2>2. CASE thr' = Returns(thr, t, "Err")
    BY <2>1, <2>2, <1>ReturnsStay
  <2>3. CASE thr' = Returns(Woken(h, {}, TornDown(pcbs[h], d)), t, "Err")
    <3> DEFINE w == Woken(h, {}, TornDown(pcbs[h], d))
    <3>1. w \in [Thread -> ThreadState] /\ StayWaiting(w)
      BY WokenType, <1>WokenStay
    <3> HIDE DEF w
    <3> QED BY <2>3, <3>1, <1>ReturnsStay DEF w
  <2> QED BY <2>2, <2>3 DEF GiveUp
\* receive returns what it took from the buffer.
<1>ReceivedStay. ASSUME ThreadsOK, NEW t \in Thread, NEW got,
                        thr' = Returns([thr EXCEPT ![t].got = got], t, "Ok")
      PROVE  StayWaiting(thr')
  <2> USE <1>ReceivedStay
  <2> DEFINE x == [thr[t] EXCEPT !.got = got]
             y == [x EXCEPT !.pc = "idle", !.desc = NoDesc, !.data = <<>>, !.sent = 0, !.ret = "Ok"]
  <2>1. thr[t] \in ThreadState /\ thr \in [Thread -> ThreadState] /\ StayWaiting(thr)
    BY DEF ThreadsOK, StayWaiting
  <2>2. y.pc = "idle"
    BY <2>1 DEF ThreadState
  <2> DEFINE th == [thr EXCEPT ![t] = x]
  <2>3. thr' = [th EXCEPT ![t] = y]
    <3> HIDE DEF y
    <3>1. th[t] = x /\ th = [thr EXCEPT ![t].got = got]
      BY <2>1
    <3>2. [th EXCEPT ![t] = y] = Returns(th, t, "Ok")
      <4> HIDE DEF x, th
      <4> QED BY <3>1, Zenon DEF Returns, y
    <3> QED BY <3>1, <3>2
  <2>4. [th EXCEPT ![t] = y] = [thr EXCEPT ![t] = y]
    <3> HIDE DEF x, y
    <3> QED BY <2>1, Zenon
  <2> HIDE DEF y, th
  <2>5. StayWaiting([thr EXCEPT ![t] = y])
    <3>1. y.pc # "wait"
      BY <2>2
    <3> QED BY <2>1, <3>1, <1>StayPut, Zenon
  <2> QED BY <2>3, <2>4, <2>5, Zenon
\* The rounds of the loops, and what follows them.
<1>ThreadWaits. ASSUME StackInv, NEW t \in Thread, ThreadStep(t) PROVE WaitStep
  <2> USE <1>ThreadWaits
  <2>1. ThreadsOK /\ thr \in [Thread -> ThreadState] /\ thr[t] \in ThreadState /\ StayWaiting(thr)
    BY DEF StackInv, ThreadsOK, StayWaiting
  <2>2. ASSUME StayWaiting(thr') PROVE WaitStep
    BY <2>2 DEF WaitStep
  <2>3. ASSUME NEW ret \in {"none", "Ok", "Err", "Eof"}, thr' = Returns(thr, t, ret) PROVE WaitStep
    BY <2>1, <2>2, <2>3, <1>ReturnsStay
  <2>4. ASSUME NEW s \in {"lock", "estab", "woken", "intr"}, thr' = [thr EXCEPT ![t].pc = s] PROVE WaitStep
    BY <2>1, <2>4, <1>MovesStay, Zenon
  <2> DEFINE h == ThreadHost[t]
             d == thr[t].desc
  <2>5. CASE AwaitEstablished(t)
    <3>1. CASE thr' = [thr EXCEPT ![t].pc = "wait"]
      <4>1. \/ UNCHANGED pcbs /\ thr[t].op \in Opening /\ pcbs[h][d].state \in {"Listen", "SynReceived", "SynSent"}
            \/ GiveUp(t, h, d)
            \/ thr' = [thr EXCEPT ![t].pc = "estab"]
            \/ thr' = Returns(thr, t, "Err")
        BY <2>5, Zenon DEF AwaitEstablished, AtLoop
      <4>2. CASE UNCHANGED pcbs /\ thr[t].op \in Opening /\ pcbs[h][d].state \in {"Listen", "SynReceived", "SynSent"}
        <5>1. StillWaits(thr[t].op, pcbs[h][d])
          BY <4>2, Zenon DEF StillWaits, Opening
        <5> QED BY <3>1, <4>2, <5>1, <1>WaitsOnce, Zenon
      <4>3. CASE GiveUp(t, h, d)
        BY <2>1, <2>2, <4>3, <1>GiveUpWaits
      <4> QED BY <2>3, <2>4, <4>1, <4>2, <4>3
    <3>2. CASE thr' # [thr EXCEPT ![t].pc = "wait"]
      <4>1. \/ thr' = Returns(thr, t, "Err") \/ thr' = [thr EXCEPT ![t].pc = "estab"] \/ GiveUp(t, h, d)
        BY <2>5, <3>2, Zenon DEF AwaitEstablished
      <4> QED BY <2>1, <2>2, <2>3, <2>4, <4>1, <1>GiveUpWaits
    <3> QED BY <3>1, <3>2
  <2>6. CASE FinishOpen(t)
    BY <2>3, <2>6 DEF FinishOpen
  <2>7. CASE AcceptStep(t)
    <3>1. \/ thr' = Returns(thr, t, "Err") \/ thr' = Returns(thr, t, "Ok") \/ thr' = [thr EXCEPT ![t].pc = "lock"]
          \/ /\ UNCHANGED pcbs /\ thr[t].op = "accept" /\ pcbs[h][d].state = "Listen" /\ pcbs[h][d].backlog = <<>>
             /\ thr' = [thr EXCEPT ![t].pc = "wait"]
      BY <2>7, Zenon DEF AcceptStep, AtLoop
    <3>2. CASE /\ UNCHANGED pcbs /\ thr[t].op = "accept" /\ pcbs[h][d].state = "Listen" /\ pcbs[h][d].backlog = <<>>
               /\ thr' = [thr EXCEPT ![t].pc = "wait"]
      <4>1. StillWaits(thr[t].op, pcbs[h][d])
        BY <3>2 DEF StillWaits, Opening
      <4> QED BY <3>2, <4>1, <1>WaitsOnce, Zenon
    <3> QED BY <2>3, <2>4, <3>1, <3>2
  <2>8. CASE SendStep(t)
    <3>1. \/ \E ret \in {"Ok", "Err"} : thr' = Returns(thr, t, ret)
          \/ /\ UNCHANGED pcbs /\ thr[t].op = "send" /\ thr' = [thr EXCEPT ![t].pc = "wait"]
             /\ pcbs[h][d].state \in {"Established", "CloseWait"}
          \/ \E n : thr' = [thr EXCEPT ![t] = WroteOn(@, n)]
      BY <2>8, Zenon DEF SendStep, AtLoop
    <3>2. CASE /\ UNCHANGED pcbs /\ thr[t].op = "send" /\ thr' = [thr EXCEPT ![t].pc = "wait"]
               /\ pcbs[h][d].state \in {"Established", "CloseWait"}
      <4>1. StillWaits(thr[t].op, pcbs[h][d])
        BY <3>2 DEF StillWaits, Opening
      <4> QED BY <3>2, <4>1, <1>WaitsOnce, Zenon
    <3>3. ASSUME NEW n, thr' = [thr EXCEPT ![t] = WroteOn(@, n)] PROVE WaitStep
      <4>1. thr' = [thr EXCEPT ![t] = WroteOn(thr[t], n)]
        BY <3>3
      <4>2. WroteOn(thr[t], n).pc # "wait"
        BY <2>1 DEF WroteOn, ThreadState
      <4> QED BY <2>1, <2>2, <4>1, <4>2, <1>StayPut, Zenon
    <3> QED BY <2>3, <3>1, <3>2, <3>3
  <2>9. CASE ReceiveStep(t)
    <3>1. \/ \E ret \in {"Err", "Eof"} : thr' = Returns(thr, t, ret)
          \/ /\ UNCHANGED pcbs /\ thr[t].op = "receive" /\ thr' = [thr EXCEPT ![t].pc = "wait"]
             /\ pcbs[h][d].state \in {"Established", "FinWait1", "FinWait2"} /\ pcbs[h][d].buf = <<>>
          \/ \E got : thr' = Returns([thr EXCEPT ![t].got = got], t, "Ok")
      BY <2>9, Zenon DEF ReceiveStep, AtLoop
    <3>2. CASE /\ UNCHANGED pcbs /\ thr[t].op = "receive" /\ thr' = [thr EXCEPT ![t].pc = "wait"]
               /\ pcbs[h][d].state \in {"Established", "FinWait1", "FinWait2"} /\ pcbs[h][d].buf = <<>>
      <4>1. StillWaits(thr[t].op, pcbs[h][d])
        BY <3>2 DEF StillWaits, Opening, SilentFin
      <4> QED BY <3>2, <4>1, <1>WaitsOnce, Zenon
    <3>3. CASE \E got : thr' = Returns([thr EXCEPT ![t].got = got], t, "Ok")
      BY <2>1, <2>2, <3>3, <1>ReceivedStay, Zenon
    <3> QED BY <2>3, <3>1, <3>2, <3>3, Zenon
  <2>10. CASE WaitReturns(t)
    BY <2>4, <2>10, Zenon DEF WaitReturns
  <2>11. CASE Interrupted(t)
    <3>1. GiveUp(t, h, d) \/ \E ret \in {"Ok", "Err"} : thr' = Returns(thr, t, ret)
      BY <2>11 DEF Interrupted
    <3> QED BY <2>1, <2>2, <2>3, <3>1, <1>GiveUpWaits
  <2> QED BY <2>5, <2>6, <2>7, <2>8, <2>9, <2>10, <2>11, Zenon DEF ThreadStep
\* segment_arrives notifies or leaves the threads alone.
<1>SegmentArrivesWaits. ASSUME StackInv, NEW h \in Host, NEW i, SegmentArrives(h, i) PROVE StayWaiting(thr')
  <2> USE <1>SegmentArrivesWaits
  <2>1. ThreadsOK /\ StayWaiting(thr)
    BY DEF StackInv, StayWaiting
  <2>2. thr' = thr \/ \E notified, released : thr' = Woken(h, notified, released)
    BY Zenon DEF SegmentArrives, ArrivesClosed, ArrivesListen, ArrivesSynSent, ArrivesRefused, ArrivesInOrder,
       Dropped, Answered, Reset, Outcome
  <2> QED BY <2>1, <2>2, <1>WokenStay
\* Every step of the stack.
<1>StepWaits. ASSUME StackInv, [Next]_vars PROVE WaitStep
  <2> USE <1>StepWaits
  <2>1. ThreadsOK /\ StayWaiting(thr)
    BY DEF StackInv, StayWaiting
  <2>2. ASSUME StayWaiting(thr') PROVE WaitStep
    BY <2>2 DEF WaitStep
  <2>3. CASE thr' = thr
    BY <2>1, <2>2, <2>3
  <2>4. ASSUME NEW t \in Thread, ThreadCall(t) \/ ThreadStep(t) PROVE WaitStep
    BY <2>2, <2>4, <1>CallWaits, <1>ThreadWaits
  <2>5. ASSUME NEW h \in Host, OnTimer(h) \/ Interrupt(h) \/ PeerSends(h) PROVE WaitStep
    BY <2>1, <2>2, <2>3, <2>5, <1>WokenStay DEF OnTimer, Interrupt, PeerSends
  <2>6. ASSUME NEW h \in Host, NEW i, SegmentArrives(h, i) \/ Lose(h, i) \/ Duplicate(h, i) PROVE WaitStep
    BY <2>2, <2>3, <2>6, <1>SegmentArrivesWaits DEF Lose, Duplicate
  <2> QED BY <2>3, <2>4, <2>5, <2>6, Zenon DEF Next, vars
\* A segment that nobody is told of leaves a connection as it was for those who send, and its
\* buffer for those who read: only a connection closed on this side moves on.
<1>ProcessedSilently. ASSUME NEW h, NEW d, NEW p \in Pcb, Accounted(p), NEW q, Processes(h, d, p, q),
                             ~Told(h, d)
      PROVE  /\ p.state # "SynReceived"
             /\ p.state \in {"Established", "CloseWait"} => q.state = p.state
             /\ p.state \in Readable => q.state \in Readable /\ q.buf = p.buf
  <2> USE <1>ProcessedSilently
  <2>1. PICK seg \in Arriving(h), wakes \in BOOLEAN :
          /\ AckProcessed(p, seg, q, wakes) \/ AllProcessed(p, seg, q, wakes)
          /\ wakes => Told(h, d)
    BY Zenon DEF Processes
  <2> DEFINE acked == ProcessAck(p, seg)
             read == ProcessText(acked, seg)
  <2>2. seg \in Segment /\ Active(p) /\ ~wakes
    BY <2>1 DEF Processes, Arriving, Active
  <2>3. p.state # "SynReceived"
    BY <2>1, <2>2, Zenon DEF AckProcessed, AllProcessed
  <2>4. acked \in Pcb /\ acked.buf = p.buf
    BY <2>2, ProcessAckMoves DEF Moves, SameBuffer
  <2>5. /\ p.state \in {"Established", "CloseWait"} => acked.state = p.state
        /\ p.state \in Readable => acked.state \in Readable
    BY <2>2, ProcessAckState DEF Readable
  <2>6. CASE AckProcessed(p, seg, q, wakes)
    <3>1. q = acked
      BY <2>6, Zenon DEF AckProcessed
    <3> HIDE DEF acked
    <3> QED BY <2>3, <2>4, <2>5, <3>1
  <2>7. CASE AllProcessed(p, seg, q, wakes)
    <3>1. q = ProcessFin(read, seg) /\ ~HasText(acked, seg) /\ ~FinWakes(read, seg)
      BY <2>2, <2>7, Zenon DEF AllProcessed
    <3>2. read = acked
      BY <3>1, Zenon DEF ProcessText
    <3> HIDE DEF acked, read
    <3>3. CASE "FIN" \notin seg.flg
      <4>1. q = acked
        BY <3>1, <3>2, <3>3, Zenon DEF ProcessFin
      <4> QED BY <2>3, <2>4, <2>5, <4>1
    <3>4. CASE "FIN" \in seg.flg
      <4>1. p.state # "Established" /\ acked.state \notin {"SynReceived", "Established"}
        BY <2>5, <3>1, <3>2, <3>4 DEF FinWakes
      <4> DEFINE r == [acked EXCEPT !.rcv_nxt = Plus(seg.seq, 1)]
                 g == [r EXCEPT !.state = "Closing"]
                 s == StartTimeWait(r)
      <4>2. IF acked.state \in {"FinWait1", "FinWait2"} THEN q \in {g, s} ELSE q = r
        BY <3>1, <3>2, <3>4, <4>1 DEF ProcessFin
      <4>3. /\ r.state = acked.state /\ r.buf = acked.buf
            /\ g.state = "Closing" /\ g.buf = acked.buf /\ s.state = "TimeWait" /\ s.buf = acked.buf
        BY <2>4 DEF Pcb, StartTimeWait
      <4> HIDE DEF r, g, s
      <4> QED BY <2>3, <2>4, <2>5, <4>1, <4>2, <4>3 DEF Readable
    <3> QED BY <3>3, <3>4
  <2> QED BY <2>1, <2>6, <2>7
\* What a blocked thread of each kind needs of its PCB.
<1>PcbStepWaits. ASSUME NEW h \in Host, NEW d \in Desc, NEW p \in Pcb, Accounted(p), NEW q,
                        PcbStep(h, d, p, q), Dials(h, d, p, q) => p.state = "Closed", ~GivesUp(h, d, p, q),
                        ~Told(h, d)
      PROVE  /\ p.state \in {"Listen", "SynReceived", "SynSent"} => q.state \in {"Listen", "SynReceived", "SynSent"}
             /\ p.state = "Listen" /\ p.backlog = <<>> /\ p.mode = "Socket" => q.state = "Listen" /\ q.backlog = <<>>
             /\ p.state \in {"Established", "CloseWait"} => q.state = p.state
             /\ p.state \in Readable /\ p.buf = <<>> => q.state \in Readable /\ q.buf = <<>>
  <2> USE <1>PcbStepWaits
  <2> DEFINE Goal ==
               /\ p.state \in {"Listen", "SynReceived", "SynSent"} => q.state \in {"Listen", "SynReceived", "SynSent"}
               /\ p.state = "Listen" /\ p.backlog = <<>> /\ p.mode = "Socket" => q.state = "Listen" /\ q.backlog = <<>>
               /\ p.state \in {"Established", "CloseWait"} => q.state = p.state
               /\ p.state \in Readable /\ p.buf = <<>> => q.state \in Readable /\ q.buf = <<>>
  <2>1. CASE Untouched(h, d, p, q)
    BY <2>1 DEF Untouched, SameLink, SameBuffer
  <2>2. CASE Empties(p, q)
    <3>1. p.buf # <<>> /\ p.state \in {"Established", "FinWait1", "FinWait2", "CloseWait"}
      BY <2>2 DEF Empties, Pcb
    <3>2. q.state = p.state
      BY <2>2 DEF Empties, Drained, Pcb
    <3> QED BY <3>1, <3>2
  <2>3. CASE Listens(p, q)
    BY <2>3 DEF Listens, Readable
  <2>4. CASE Dials(h, d, p, q)
    BY <2>4 DEF Readable
  <2>5. CASE Finishes(h, d, p, q)
    BY <2>5, Zenon DEF Finishes
  <2>6. CASE Writes(p, q)
    <3>1. q.state = p.state /\ q.buf = p.buf /\ p.state \in {"Established", "CloseWait"}
      BY <2>6, TextSentSame DEF Writes
    <3> QED BY <3>1
  <2>7. CASE Takes(h, p, q)
    <3>1. p.state = "Listen" /\ p.buf = <<>> /\ p.mode = "Rfc"
      BY <2>7 DEF Takes, Accounted
    <3>3. Iss[h] \subseteq SeqNo
      BY TcpAssumption
    <3>2. q.state = "SynReceived"
      BY <2>7, <3>3, SynArrivesState, Zenon DEF Takes, Arriving
    <3> QED BY <3>1, <3>2 DEF Readable
  <2>8. CASE Answers(h, d, p, q)
    BY <2>8 DEF Answers, Readable
  <2>9. CASE Processes(h, d, p, q)
    <3>3. p.state \notin {"Closed", "Listen", "SynSent", "LastAck"}
      BY <2>9, Zenon DEF Processes
    <3>1. p.state \notin {"Listen", "SynReceived", "SynSent"}
      BY <2>9, <3>3, <1>ProcessedSilently, Zenon
    <3>2. /\ p.state \in {"Established", "CloseWait"} => q.state = p.state
          /\ p.state \in Readable => q.state \in Readable /\ q.buf = p.buf
      BY <2>9, <1>ProcessedSilently, Zenon
    <3> QED BY <3>1, <3>2
  <2>10. CASE Ticks(h, d, p, q)
    <3>1. q = Ticked(p) /\ ~DeadlineExceeded(p)
      BY <2>10, Zenon DEF Ticks
    <3>2. q.state = p.state /\ q.buf = p.buf /\ q.backlog = p.backlog
      BY <3>1, TickedSame
    <3> QED BY <3>2
  <2> QED BY <2>1, <2>2, <2>3, <2>4, <2>5, <2>6, <2>7, <2>8, <2>9, <2>10, Zenon DEF PcbStep
\* A step that keeps the discipline leaves nobody waiting for what is there.
<1>StepBlocked. ASSUME StackInv, WaitersBlocked, Disciplined, [Next]_vars, ConnectsClosed PROVE WaitersBlocked'
  <2> USE <1>StepBlocked
  <2>1. StackInv' /\ Steps /\ WaitStep
    BY StepStackInv, StepSteps, <1>StepWaits
  <2> SUFFICES ASSUME NEW t \in Thread, thr'[t].pc = "wait"
               PROVE  /\ thr'[t].desc \in Live(pcbs'[ThreadHost[t]])
                      /\ StillWaits(thr'[t].op, pcbs'[ThreadHost[t]][thr'[t].desc])
    BY DEF WaitersBlocked, LivePcb
  <2> DEFINE h == ThreadHost[t]
             d == thr'[t].desc
             op == thr'[t].op
             p == pcbs[h][d]
             q == pcbs'[h][d]
  <2>2. d \in Live(pcbs'[h]) /\ h \in Host
    BY <2>1, TcpAssumption DEF StackInv, WaitersLive, Waiting
  <2>3. CASE thr[t].pc = "wait" /\ op = thr[t].op /\ d = thr[t].desc
    <3>1. d \in Live(pcbs[h]) /\ StillWaits(op, p)
      BY <2>3 DEF WaitersBlocked, LivePcb
    <3>2. PcbStep(h, d, p, q)
      BY <2>1, <2>2, <3>1, Zenon DEF Steps, SlotStep
    <3>3. p \in Pcb /\ Accounted(p) /\ d \in Desc
      BY <2>2, <3>1, LivePcbs, Zenon DEF StackInv, Live
    <3>4. ~Told(h, d)
      BY DEF Told
    <3>5. ~GivesUp(h, d, p, q)
      <4> SUFFICES ASSUME GivesUp(h, d, p, q) PROVE FALSE
        OBVIOUS
      <4>1. PICK u \in Thread :
              ThreadHost[u] = h /\ thr[u].op = "connect" /\ thr[u].desc = d /\ thr[u].pc \in {"lock", "intr"}
        BY Zenon DEF GivesUp
      <4>2. u # t /\ thr[u].pc # "idle" /\ thr[t].pc # "idle"
        BY <2>3, <4>1
      <4> QED BY <2>3, <4>1, <4>2, Zenon DEF Disciplined
    <3>6. Dials(h, d, p, q) => p.state = "Closed"
      BY <3>3, Zenon DEF Dials, ConnectsClosed
    <3>7. op = "accept" => p.mode = "Socket"
      BY <2>3 DEF Disciplined
    <3> HIDE DEF p, q, op, d, h
    <3>8. StillWaits(op, q)
      BY <2>2, <3>1, <3>2, <3>3, <3>4, <3>5, <3>6, <3>7, <1>PcbStepWaits
         DEF StillWaits, Opening, Readable, SilentFin
    <3> QED BY <2>2, <3>8 DEF p, q, op, d, h
  <2>4. CASE UNCHANGED pcbs /\ StillWaits(op, p)
    BY <2>2, <2>4
  <2>5. CASE thr'[t] = thr[t] /\ UNCHANGED pcbs
    BY <2>5 DEF WaitersBlocked, LivePcb
  <2> QED BY <2>1, <2>3, <2>4, <2>5, Zenon DEF WaitStep, StayWaiting
<1>1. Init => StackInv /\ WaitersBlocked
  <2> SUFFICES ASSUME Init PROVE WaitersBlocked
    BY InitStackInv
  <2> QED BY DEF Init, WaitersBlocked
<1>2. StackInv /\ WaitersBlocked /\ Disciplined /\ [Next]_vars /\ [ConnectsClosed]_vars => StackInv' /\ WaitersBlocked'
  <2> SUFFICES ASSUME StackInv, WaitersBlocked, Disciplined, [Next]_vars, [ConnectsClosed]_vars
               PROVE  StackInv' /\ WaitersBlocked'
    OBVIOUS
  <2>1. CASE ConnectsClosed
    BY <2>1, StepStackInv, <1>StepBlocked
  <2>2. CASE UNCHANGED vars
    <3>1. StackInv'
      BY StepStackInv
    <3> QED BY <2>2, <3>1, Zenon DEF vars, WaitersBlocked, LivePcb
  <2> QED BY <2>1, <2>2
<1> QED BY <1>1, <1>2, PTL DEF Spec, ConnectsOnClosed
=============================================================================
