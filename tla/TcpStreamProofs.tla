--------------------------- MODULE TcpStreamProofs ---------------------------
(***************************************************************************)
(* The bytes that recv returns are the bytes that the peer's send took, in *)
(* order.  The invariant follows the text from the thread that sends it,   *)
(* through the queue of its PCB and the segments in flight, to the buffer of*)
(* the other PCB and the thread that receives it: at every place a byte goes*)
(* under the number that says which byte it is.                            *)
(***************************************************************************)
EXTENDS TcpProofs

(***************************************************************************)
(* What the steps that move no text do to a thread.                        *)
(***************************************************************************)
\* The argument of send continues the text of the thread u.
Idle(u, a, b) ==
  /\ b.wrote = a.wrote /\ b.got = a.got
  /\ b.op = a.op \/ b.op \in Calls[u]
  /\ b.opens = a.opens \/ (b.opens = a.opens + 1 /\ Calls[u] \cap Opener # {})
  /\ \/ b.data = a.data /\ b.sent = a.sent /\ (b.pc = "idle" => a.pc = "idle")
     \/ b.data = <<>> /\ b.sent = 0
     \/ /\ a.pc = "idle" /\ b.pc # "idle" /\ b.sent = a.sent
        /\ \E n \in Nat : b.data = [i \in 1..n |-> a.wrote + i]
AllIdle(th) == \A u \in Thread : Idle(u, thr[u], th[u])

\* Every step sends text, reads text or moves none.
LEMMA StepThreads ==
  ASSUME OneConversation, StackInv, [Next]_vars
  PROVE  AllIdle(thr') \/ \E t \in Thread : (\E n : SendsText(t, n)) \/ (\E n : ReadsText(t, n))
\* Nobody moves.
<1>SameIdle. AllIdle(thr)
  BY DEF AllIdle, Idle
\* One thread changes.
<1>PutIdle. ASSUME NEW th \in [Thread -> ThreadState], AllIdle(th), NEW t \in Thread, NEW rec,
                   Idle(t, thr[t], rec)
      PROVE  AllIdle([th EXCEPT ![t] = rec])
  BY <1>PutIdle DEF AllIdle
\* A call returns.
<1>ReturnsIdle. ASSUME NEW th \in [Thread -> ThreadState], AllIdle(th), NEW t \in Thread, NEW ret
      PROVE  AllIdle(Returns(th, t, ret))
  <2> USE <1>ReturnsIdle
  <2> DEFINE a == th[t]
             x == [a EXCEPT !.pc = "idle", !.desc = NoDesc, !.data = <<>>, !.sent = 0, !.ret = ret]
  <2>1. a \in ThreadState /\ Idle(t, thr[t], a)
    BY DEF AllIdle
  <2>2. Returns(th, t, ret) = [th EXCEPT ![t] = x]
    BY Zenon DEF Returns
  <2> HIDE DEF a
  <2>3. x.wrote = a.wrote /\ x.got = a.got /\ x.op = a.op /\ x.opens = a.opens /\ x.data = <<>> /\ x.sent = 0
    BY <2>1 DEF ThreadState
  <2> HIDE DEF x
  <2>4. Idle(t, thr[t], x)
    BY <2>1, <2>3 DEF Idle
  <2>5. AllIdle([th EXCEPT ![t] = x])
    BY <2>4, <1>PutIdle
  <2> QED BY <2>2, <2>5
\* The pc of a thread changes.
<1>PcIdle. ASSUME NEW u, NEW a \in ThreadState, NEW s, s # "idle" PROVE Idle(u, a, [a EXCEPT !.pc = s])
  <2> USE <1>PcIdle
  <2> DEFINE x == [a EXCEPT !.pc = s]
  <2>1. /\ x.wrote = a.wrote /\ x.got = a.got /\ x.op = a.op /\ x.opens = a.opens /\ x.data = a.data /\ x.sent = a.sent
        /\ x.pc = s
    BY DEF ThreadState
  <2> HIDE DEF x
  <2>2. Idle(u, a, x)
    BY <2>1 DEF Idle
  <2> QED BY <2>2 DEF x
\* notify.
<1>WokenIdle. ASSUME ThreadsOK, NEW h, NEW notified, NEW released PROVE AllIdle(Woken(h, notified, released))
  <2> USE <1>WokenIdle
  <2> SUFFICES ASSUME NEW u \in Thread PROVE Idle(u, thr[u], Woken(h, notified, released)[u])
    BY DEF AllIdle
  <2> DEFINE s == IF pcbs[h][thr[u].desc].intr THEN "intr" ELSE "lock"
             w == Woken(h, notified, released)[u]
  <2>1. w \in {[thr[u] EXCEPT !.pc = s], [thr[u] EXCEPT !.pc = "woken"], thr[u]}
    BY DEF Woken
  <2>2. thr[u] \in ThreadState /\ s # "idle" /\ "woken" # "idle"
    BY DEF ThreadsOK
  <2> HIDE DEF s, w
  <2>3. Idle(u, thr[u], w)
    BY <2>1, <2>2, <1>PcIdle, <1>SameIdle DEF AllIdle
  <2> QED BY <2>3 DEF w
\* A call begins.
<1>BeginIdle. ASSUME ThreadsOK, NEW t \in Thread, NEW op \in Calls[t], NEW d
      PROVE  Idle(t, thr[t], Begin(t, op, d))
  <2> USE <1>BeginIdle
  <2> DEFINE a == thr[t]
             n == IF op \in {"active", "passive"} THEN a.opens + 1 ELSE a.opens
             x == [a EXCEPT !.pc = "lock", !.op = op, !.desc = d, !.ret = "none", !.opens = n]
  <2>1. a \in ThreadState
    BY DEF ThreadsOK
  <2>2. Begin(t, op, d) = x
    BY Zenon DEF Begin
  <2>3. n = a.opens \/ (n = a.opens + 1 /\ Calls[t] \cap Opener # {})
    BY DEF Opener
  <2> HIDE DEF a, n
  <2>4. /\ x.wrote = a.wrote /\ x.got = a.got /\ x.op = op /\ x.opens = n /\ x.data = a.data /\ x.sent = a.sent
        /\ x.pc = "lock"
    BY <2>1 DEF ThreadState
  <2> HIDE DEF x
  <2>5. Idle(t, a, x)
    BY <2>3, <2>4 DEF Idle
  <2> QED BY <2>2, <2>5 DEF a
\* One pc changes.
<1>MovesIdle. ASSUME ThreadsOK, NEW t \in Thread, NEW s, s # "idle", thr' = [thr EXCEPT ![t].pc = s]
      PROVE  AllIdle(thr')
  <2> USE <1>MovesIdle
  <2> DEFINE x == [thr[t] EXCEPT !.pc = s]
  <2>1. thr \in [Thread -> ThreadState] /\ thr[t] \in ThreadState
    BY DEF ThreadsOK
  <2>2. Idle(t, thr[t], x)
    BY <2>1, <1>PcIdle
  <2>3. thr' = [thr EXCEPT ![t] = x]
    OBVIOUS
  <2> HIDE DEF x
  <2>4. AllIdle([thr EXCEPT ![t] = x])
    BY <2>1, <2>2, <1>PutIdle, <1>SameIdle
  <2> QED BY <2>3, <2>4, Zenon
\* The calls a conversation makes.
<1>CallIdle. ASSUME NEW t \in Thread, ThreadCall(t) PROVE AllIdle(thr')
  <2> USE <1>CallIdle
  <2>1. ThreadsOK /\ thr \in [Thread -> ThreadState] /\ thr[t] \in ThreadState
    BY DEF StackInv, ThreadsOK
  <2>2. CASE thr' = thr
    BY <2>2, <1>SameIdle
  <2>3. Calls[t] \subseteq {"active", "passive", "send", "receive", "close"}
    BY DEF OneConversation, Opener
  <2>4. ASSUME NEW op \in Calls[t], NEW d, thr' = [thr EXCEPT ![t] = Begin(t, op, d)] PROVE AllIdle(thr')
    BY <2>1, <2>4, <1>BeginIdle, <1>PutIdle, <1>SameIdle
  <2>5. CASE OpenActive(t) \/ OpenPassive(t)
    BY <2>4, <2>5, Zenon DEF OpenActive, OpenPassive, StartActive, MayCall
  <2>6. ASSUME NEW d \in Desc, Receive(t, d) PROVE AllIdle(thr')
    BY <2>4, <2>6, Zenon DEF Receive, MayCall
  <2>7. ASSUME NEW d \in Desc, Send(t, d) PROVE AllIdle(thr')
    <3>1. PICK n \in SendLen : thr' = [thr EXCEPT ![t] = [Begin(t, "send", d) EXCEPT !.data = [i \in 1..n |-> thr[t].wrote + i]]]
      BY <2>7, Zenon DEF Send
    <3> DEFINE a == thr[t]
               data == [i \in 1..n |-> a.wrote + i]
               b == Begin(t, "send", d)
               x == [b EXCEPT !.data = data]
    <3>2. "send" \in Calls[t] /\ a.pc = "idle" /\ n \in Nat
      BY <2>7, TcpAssumption DEF Send, MayCall
    <3>3. Idle(t, a, b) /\ b \in ThreadState /\ b.pc = "lock" /\ b.sent = a.sent
      <4>1. Idle(t, a, b) /\ b \in ThreadState
        BY <2>1, <3>2, <1>BeginIdle, BeginType DEF CallName
      <4>2. b.pc = "lock" /\ b.sent = a.sent
        BY <2>1 DEF Begin, ThreadState
      <4> QED BY <4>1, <4>2
    <3>4. thr' = [thr EXCEPT ![t] = x]
      BY <3>1
    <3> HIDE DEF b
    <3>5. /\ x.wrote = b.wrote /\ x.got = b.got /\ x.op = b.op /\ x.opens = b.opens /\ x.data = data /\ x.sent = b.sent
          /\ x.pc = "lock"
      BY <3>3 DEF ThreadState
    <3>6. \E m \in Nat : x.data = [i \in 1..m |-> a.wrote + i]
      BY <3>2, <3>5
    <3> HIDE DEF x, a, data
    <3>7. Idle(t, a, x)
      BY <3>2, <3>3, <3>5, <3>6 DEF Idle
    <3> QED BY <2>1, <3>4, <3>7, <1>PutIdle, <1>SameIdle DEF a
  <2>8. ASSUME NEW d \in Desc, Close(t, d) PROVE AllIdle(thr')
    BY <2>1, <2>2, <2>8, <1>WokenIdle DEF Close
  <2> QED BY <2>2, <2>3, <2>5, <2>6, <2>7, <2>8, Zenon DEF ThreadCall, Bind, Listen, Socket, Connect, Accept, MayCall
\* open and connect give up.
<1>GiveUpIdle. ASSUME ThreadsOK, NEW t \in Thread, NEW h, NEW d, GiveUp(t, h, d) PROVE AllIdle(thr')
  <2> USE <1>GiveUpIdle
  <2> DEFINE w == Woken(h, {}, TornDown(pcbs[h], d))
  <2>1. w \in [Thread -> ThreadState] /\ AllIdle(w) /\ thr \in [Thread -> ThreadState]
    BY WokenType, <1>WokenIdle DEF ThreadsOK
  <2>2. thr' = Returns(thr, t, "Err") \/ thr' = Returns(w, t, "Err")
    BY DEF GiveUp
  <2> HIDE DEF w
  <2> QED BY <2>1, <2>2, <1>ReturnsIdle, <1>SameIdle
\* The rounds of the loops, and what follows them.
<1>RoundIdle. ASSUME NEW t \in Thread, ThreadStep(t)
      PROVE  AllIdle(thr') \/ (\E n : SendsText(t, n)) \/ (\E n : ReadsText(t, n))
  <2> USE <1>RoundIdle
  <2>1. ThreadsOK /\ thr \in [Thread -> ThreadState]
    BY DEF StackInv, ThreadsOK
  <2>2. ASSUME NEW ret, thr' = Returns(thr, t, ret) PROVE AllIdle(thr')
    BY <2>1, <2>2, <1>ReturnsIdle, <1>SameIdle
  <2>3. ASSUME NEW s \in {"lock", "estab", "woken", "intr", "wait"}, thr' = [thr EXCEPT ![t].pc = s] PROVE AllIdle(thr')
    BY <2>1, <2>3, <1>MovesIdle
  <2>4. ASSUME NEW h, NEW d, GiveUp(t, h, d) PROVE AllIdle(thr')
    BY <2>1, <2>4, <1>GiveUpIdle
  <2>5. ASSUME Rests(t) PROVE AllIdle(thr')
    BY <2>2, <2>3, <2>5 DEF Rests
  <2>6. CASE AwaitEstablished(t) \/ FinishOpen(t)
    BY <2>2, <2>3, <2>4, <2>6 DEF AwaitEstablished, FinishOpen
  <2>7. CASE AcceptStep(t)
    BY <2>2, <2>3, <2>7 DEF AcceptStep
  <2>8. CASE SendStep(t) \/ ReceiveStep(t)
    BY <2>5, <2>8, SendRound, ReceiveRound, Zenon
  <2>9. CASE WaitReturns(t) \/ Interrupted(t)
    BY <2>2, <2>3, <2>4, <2>9, Zenon DEF WaitReturns, Interrupted
  <2> QED BY <2>6, <2>7, <2>8, <2>9, Zenon DEF ThreadStep
<1>1. ThreadsOK
  BY DEF StackInv
<1>2. ASSUME thr' = thr PROVE AllIdle(thr')
  BY <1>2, <1>SameIdle
<1>3. ASSUME NEW t \in Thread, ThreadStep(t) PROVE AllIdle(thr') \/ (\E n : SendsText(t, n)) \/ (\E n : ReadsText(t, n))
  BY <1>3, <1>RoundIdle, Zenon
<1>4. ASSUME NEW h \in Host, OnTimer(h) \/ Interrupt(h) \/ PeerSends(h) PROVE AllIdle(thr')
  BY <1>1, <1>2, <1>4, <1>WokenIdle DEF OnTimer, Interrupt, PeerSends
<1>5. ASSUME NEW h \in Host, NEW i, SegmentArrives(h, i) PROVE AllIdle(thr')
  <2>1. thr' = thr \/ \E notified, released : thr' = Woken(h, notified, released)
    BY <1>5, Zenon DEF SegmentArrives, ArrivesClosed, ArrivesListen, ArrivesSynSent, ArrivesRefused, ArrivesInOrder,
       Dropped, Answered, Reset, Outcome
  <2> QED BY <1>1, <1>2, <2>1, <1>WokenIdle
<1>6. ASSUME NEW h \in Host, NEW i, Lose(h, i) \/ Duplicate(h, i) PROVE AllIdle(thr')
  BY <1>2, <1>6 DEF Lose, Duplicate
<1> QED BY <1>2, <1>3, <1>4, <1>5, <1>6, <1>CallIdle, Zenon DEF Next, vars
-----------------------------------------------------------------------------
(***************************************************************************)
(* What OneConversation means for a host.                                  *)
(***************************************************************************)
\* The initial sequence number of a host.
isn(h) == CHOOSE n \in SeqNo : Iss[h] = {n}

\* What the theorems above ask of the applications.
LEMMA ConversationNoRecycle == OneConversation => NoRecycle
BY DEF OneConversation, NoRecycle, Opener

\* There is one such number, and room behind it.
LEMMA IsnType ==
  ASSUME OneConversation, NEW h \in Host
  PROVE  /\ isn(h) \in Nat /\ isn(h) \in SeqNo /\ Iss[h] = {isn(h)} /\ isn(h) + 2 < SeqMod
         /\ \A b \in Byte : b \in Nat => isn(h) + b + 2 < SeqMod
<1>1. isn(h) \in SeqNo /\ Iss[h] = {isn(h)}
  BY DEF OneConversation, isn
<1>2. \A n \in Iss[h] : n + 2 < SeqMod /\ \A b \in Byte : b \in Nat => n + b + 2 < SeqMod
  BY Zenon DEF OneConversation
<1>3. isn(h) \in Nat
  BY <1>1, TcpPcbAssumption DEF SeqNo
<1> QED BY <1>1, <1>2, <1>3
-----------------------------------------------------------------------------
(***************************************************************************)
(* What the steps that move no text do to a PCB.                           *)
(***************************************************************************)
\* A segment that carries something the receiver numbers has the number its sender gave it.
SegText(seg) ==
  \/ "RST" \in seg.flg
  \/ "SYN" \notin seg.flg /\ seg.data = <<>>
  \/ \E g \in Host : seg.src.addr = HostAddr[g] /\ Numbered(seg, isn(g))

\* The initial sequence numbers of whoever a PCB is connected to.
Peers(p) == {isn(g) : g \in {f \in Host : HostAddr[f] = p.remote.addr}}

\* A PCB that had sent or taken n bytes still has; one that is not yet connected has none.
KeepsText(h, p, q) ==
  /\ Linked(q, HostAddr[h], isn(h))
  /\ q.state \in Early => p.state \in Early /\ q.buf = p.buf
  /\ \A n \in Nat : (p.state \in Early => n = 0) /\ Wrote(p, isn(h), n) => Wrote(q, isn(h), n)
  /\ \A n \in Nat : (p.state \in Early => n = 0) /\ Got(p, Peers(p), n) => Got(q, Peers(q), n)

\* There is one peer.
LEMMA OnePeer ==
  ASSUME OneConversation, NEW g \in Host, NEW p, p.remote.addr = HostAddr[g] PROVE Peers(p) = {isn(g)}
<1>1. \A f \in Host : HostAddr[f] = HostAddr[g] => f = g
  BY Zenon DEF OneConversation
<1> QED BY <1>1 DEF Peers

\* The steps that change nothing about the text.
LEMMA CarriesKeeps ==
  ASSUME NEW h \in Host, NEW p, Linked(p, HostAddr[h], isn(h)), NEW q, Carries(p, q) PROVE KeepsText(h, p, q)
<1>1. Peers(q) = Peers(p)
  BY Zenon DEF Carries, SameEndpoints, Peers
<1>2. (q.state \in Early => p.state \in Early) /\ q.buf = p.buf
  BY DEF Carries
<1> QED BY <1>1, <1>2, CarriesText, Zenon DEF KeepsText

\* Who has sent a segment, of those a PCB accepts.
LEMMA SegTextFrom ==
  ASSUME OneConversation, NEW seg \in Segment, SegText(seg), "RST" \notin seg.flg, "SYN" \in seg.flg \/ seg.data # <<>>
  PROVE  \E g \in Host : /\ seg.src.addr = HostAddr[g] /\ Numbered(seg, isn(g)) /\ seg.src.addr # ANY
                         /\ \A p : RemoteMatch(p, seg.src) /\ p.remote.addr # ANY => Peers(p) = {isn(g)}
<1>1. PICK g \in Host : seg.src.addr = HostAddr[g] /\ Numbered(seg, isn(g))
  BY DEF SegText
<1>2. HostAddr[g] # ANY
  BY TcpAssumption
<1>3. ASSUME NEW p, RemoteMatch(p, seg.src), p.remote.addr # ANY PROVE Peers(p) = {isn(g)}
  <2>1. p.remote = seg.src
    BY <1>1, <1>2, <1>3 DEF RemoteMatch, AnyEndp
  <2> QED BY <1>1, <2>1, OnePeer
<1> QED BY <1>1, <1>2, <1>3

\* A segment that is processed.
LEMMA ProcessesText ==
  ASSUME OneConversation, NEW h \in Host, NEW d, NEW p \in Pcb, Accounted(p), Linked(p, HostAddr[h], isn(h)),
         \A seg \in Arriving(h) : SegText(seg), NEW q, Processes(h, d, p, q)
  PROVE  KeepsText(h, p, q)
<1>1. PICK seg \in Arriving(h), wakes \in BOOLEAN :
        /\ seg.flg \cap {"RST", "SYN", "ACK"} = {"ACK"} /\ RemoteMatch(p, seg.src)
        /\ AckProcessed(p, seg, q, wakes) \/ AllProcessed(p, seg, q, wakes)
  BY Zenon DEF Processes
<1>2. /\ seg \in Segment /\ Active(p) /\ p.state # "SynSent" /\ SegText(seg) /\ "RST" \notin seg.flg
      /\ p.remote.addr # ANY /\ p.state \notin Early
  BY <1>1 DEF Processes, Active, Arriving, Linked, Early
<1> DEFINE acked == ProcessAck(p, seg)
<1>3. CASE AckProcessed(p, seg, q, wakes)
  <2>1. q = acked
    BY <1>3, Zenon DEF AckProcessed
  <2> QED BY <1>2, <2>1, ProcessAckCarries, CarriesKeeps, Zenon
<1>4. CASE AllProcessed(p, seg, q, wakes)
  <2>1. q = ProcessFin(ProcessText(acked, seg), seg) /\ ~TextRefused(acked, seg)
    BY <1>4, Zenon DEF AllProcessed
  <2>2. HasText(acked, seg) =>
          \E k \in Nat : Peers(p) = {k} /\ Numbered(seg, k) /\ \A i \in DOMAIN seg.data : k + seg.data[i] + 2 < SeqMod
    <3> SUFFICES ASSUME HasText(acked, seg)
                 PROVE  \E k \in Nat : Peers(p) = {k} /\ Numbered(seg, k) /\ \A i \in DOMAIN seg.data : k + seg.data[i] + 2 < SeqMod
      OBVIOUS
    <3>1. seg.data # <<>>
      BY DEF HasText
    <3>2. PICK g \in Host : Numbered(seg, isn(g)) /\ Peers(p) = {isn(g)}
      BY <1>1, <1>2, <3>1, SegTextFrom
    <3>3. isn(g) \in Nat /\ \A b \in Byte : b \in Nat => isn(g) + b + 2 < SeqMod
      BY IsnType
    <3>4. ASSUME NEW i \in DOMAIN seg.data PROVE isn(g) + seg.data[i] + 2 < SeqMod
      <4>1. seg.data \in Seq(Byte) /\ seg.seq \in Nat
        BY <1>2, TcpPcbAssumption DEF Segment, SeqNo
      <4>2. i \in Nat /\ seg.data[i] \in Byte /\ seg.data[i] = seg.seq - isn(g) + i - 1
        BY <3>2, <3>4, <4>1 DEF Numbered
      <4> DEFINE b == seg.data[i]
      <4>3. b \in Int
        BY <3>3, <4>1, <4>2
      <4>4. CASE b \in Nat
        BY <3>3, <4>2, <4>4
      <4>5. CASE b \notin Nat
        <5>1. isn(g) + 2 < SeqMod
          BY IsnType
        <5> QED BY <3>3, <4>3, <4>5, <5>1, TcpPcbAssumption
      <4> QED BY <4>4, <4>5
    <3> QED BY <3>2, <3>3, <3>4
  <2>3. /\ \A addr, iss : Linked(p, addr, iss) => Linked(q, addr, iss)
        /\ \A iss, n : Wrote(p, iss, n) => Wrote(q, iss, n)
        /\ \A n \in Nat : Got(p, Peers(p), n) => Got(q, Peers(p), n)
        /\ q.state \notin Early /\ SameEndpoints(p, q)
    <3> HIDE DEF acked
    <3> DEFINE peers == Peers(p)
    <3> HIDE DEF peers
    <3>1. acked = ProcessAck(p, seg)
      BY DEF acked
    <3>2. HasText(acked, seg) =>
          \E k \in Nat : peers = {k} /\ Numbered(seg, k) /\ \A i \in DOMAIN seg.data : k + seg.data[i] + 2 < SeqMod
      BY <2>2 DEF peers
    <3>3. /\ \A addr, iss : Linked(p, addr, iss) => Linked(q, addr, iss)
          /\ \A iss, n : Wrote(p, iss, n) => Wrote(q, iss, n)
          /\ \A n \in Nat : Got(p, peers, n) => Got(q, peers, n)
          /\ q.state \notin Early /\ SameEndpoints(p, q)
      BY <1>2, <2>1, <3>1, <3>2, ProcessedText, Zenon
    <3> QED BY <3>3 DEF peers
  <2>4. Peers(q) = Peers(p)
    BY <2>3, Zenon DEF SameEndpoints, Peers
  <2> QED BY <2>3, <2>4, Zenon DEF KeepsText
<1> QED BY <1>1, <1>3, <1>4

\* What a step that moves no text does to a PCB.
LEMMA PcbStepText ==
  ASSUME OneConversation, NEW h \in Host, NEW d, NEW p \in Pcb, Accounted(p), Linked(p, HostAddr[h], isn(h)),
         p.state \in Early => p.buf = <<>>, \A seg \in Arriving(h) : SegText(seg) /\ seg.dst.addr = HostAddr[h],
         NEW q, PcbStep(h, d, p, q), \A t \in Thread : \A n : ~SendsText(t, n) /\ ~ReadsText(t, n)
  PROVE  KeepsText(h, p, q)
<1>1. \A t \in Thread : Calls[t] \subseteq {"active", "passive", "send", "receive", "close"}
  BY DEF OneConversation, Opener
<1>2. ASSUME Carries(p, q) PROVE KeepsText(h, p, q)
  BY <1>2, CarriesKeeps
<1>3. CASE Untouched(h, d, p, q)
  <2>1. SameLink(p, q) /\ q.local = p.local
    BY <1>1, <1>3 DEF Untouched, SameLink
  <2>2. Sent(q) = Sent(p)
    BY <2>1, Zenon DEF SameLink, SameSend, Sent
  <2> QED BY <1>2, <2>1, <2>2 DEF Carries, SameLink, SameSend, SameBuffer, SameEndpoints, Active
<1>4. CASE Listens(p, q) \/ Dials(h, d, p, q)
  BY <1>1, <1>4 DEF Listens, Dials, Connect, MayCall
<1>5. CASE GivesUp(h, d, p, q)
  <2>1. q = [p EXCEPT !.state = "Closed"]
    BY <1>5 DEF GivesUp
  <2>2. /\ q.state = "Closed" /\ q.queue = p.queue /\ q.local = p.local /\ q.remote = p.remote /\ q.mode = p.mode /\ q.iss = p.iss
        /\ q.snd_nxt = p.snd_nxt /\ q.rcv_nxt = p.rcv_nxt /\ q.buf = p.buf
    BY <2>1 DEF Pcb
  <2>3. Sent(q) = Sent(p)
    BY <2>2, Zenon DEF Sent
  <2> QED BY <1>2, <2>2, <2>3 DEF Carries, SameEndpoints, Active, Early, Sending, Receiving
<1>6. CASE Finishes(h, d, p, q)
  <2>1. /\ p.state \in {"SynReceived", "Established", "CloseWait"}
        /\ q = FinSent(p, IF p.state = "CloseWait" THEN "LastAck" ELSE "FinWait1")
    BY <1>6, Zenon DEF Finishes
  <2>2. /\ Linked(q, HostAddr[h], isn(h)) /\ \A n : Wrote(q, isn(h), n)
        /\ \A n : Got(p, Peers(p), n) => Got(q, Peers(p), n)
        /\ q.state \notin Early /\ SameEndpoints(p, q)
    BY <2>1, FinSentText
  <2>3. Peers(q) = Peers(p)
    BY <2>2, Zenon DEF SameEndpoints, Peers
  <2> QED BY <2>2, <2>3, Zenon DEF KeepsText
<1>7. CASE Takes(h, p, q)
  <2>1. PICK seg \in Arriving(h), iss \in Iss[h] : "RST" \notin seg.flg /\ "SYN" \in seg.flg /\ q = SynArrives(p, seg, iss)
    BY <1>7, Zenon DEF Takes
  <2>2. p.state = "Listen" /\ p.state \in Early /\ p.buf = <<>> /\ seg \in Segment /\ SegText(seg) /\ seg.dst.addr = HostAddr[h]
    BY <1>7 DEF Takes, Arriving, Early
  <2>3. PICK g \in Host : seg.src.addr = HostAddr[g] /\ Numbered(seg, isn(g)) /\ seg.src.addr # ANY
    BY <2>1, <2>2, SegTextFrom, Zenon
  <2>4. /\ iss = isn(h) /\ isn(h) \in SeqNo /\ isn(h) + 1 < SeqMod
        /\ seg.seq = isn(g) /\ seg.seq \in Nat /\ seg.seq + 1 < SeqMod
    BY <2>1, <2>3, IsnType, TcpPcbAssumption DEF Numbered
  <2>5. /\ Linked(q, HostAddr[h], isn(h)) /\ Got(q, {seg.seq}, 0) /\ Wrote(q, isn(h), 0)
        /\ q.state \notin Early /\ q.remote = seg.src
    BY <2>1, <2>2, <2>3, <2>4, SynArrivesText, Zenon
  <2>6. Peers(q) = {seg.seq}
    BY <2>3, <2>4, <2>5, OnePeer
  <2> QED BY <2>2, <2>5, <2>6, Zenon DEF KeepsText
<1>8. CASE Answers(h, d, p, q)
  <2>1. PICK seg \in Arriving(h) : "RST" \notin seg.flg /\ "SYN" \in seg.flg /\ RemoteMatch(p, seg.src) /\ q = SynSentSyn(p, seg)
    BY <1>8, Zenon DEF Answers
  <2>2. /\ p.state = "SynSent" /\ p.state \in Early /\ p.buf = <<>> /\ seg \in Segment /\ SegText(seg)
        /\ p.remote.addr # ANY
    BY <1>8 DEF Answers, Arriving, Early, Linked, Active
  <2>3. PICK g \in Host : Numbered(seg, isn(g)) /\ Peers(p) = {isn(g)}
    BY <2>1, <2>2, SegTextFrom, Zenon
  <2>4. seg.seq = isn(g) /\ seg.seq \in Nat /\ seg.seq + 1 < SeqMod
    BY <2>1, <2>3, IsnType, TcpPcbAssumption DEF Numbered
  <2>5. /\ Linked(q, HostAddr[h], isn(h)) /\ Got(q, {seg.seq}, 0)
        /\ \A n : Wrote(p, isn(h), n) => Wrote(q, isn(h), n)
        /\ q.state \notin Early /\ SameEndpoints(p, q)
    BY <2>1, <2>2, <2>4, SynSentText
  <2>6. Peers(q) = {seg.seq}
    BY <2>3, <2>4, <2>5, Zenon DEF SameEndpoints, Peers
  <2> QED BY <2>2, <2>5, <2>6, Zenon DEF KeepsText
<1>9. CASE Processes(h, d, p, q)
  BY <1>9, ProcessesText
<1>10. CASE Ticks(h, d, p, q)
  <2>1. ~TimeWaitElapsed(p) /\ q = Ticked(p)
    BY <1>10, Zenon DEF Ticks
  <2> QED BY <1>2, <2>1, TickedCarries, Zenon
<1> QED BY <1>3, <1>4, <1>5, <1>6, <1>7, <1>8, <1>9, <1>10, Zenon DEF PcbStep, Empties, Writes

\* A new connection, the first of its host's one thread that opens.
LEMMA NewPcbText ==
  ASSUME OneConversation, StackInv, NEW h \in Host, \A d \in Live(pcbs[h]) : pcbs[h][d].mode = "Rfc", NEW q, NewPcb(h, q)
  PROVE  /\ Linked(q, HostAddr[h], isn(h)) /\ q.buf = <<>> /\ Wrote(q, isn(h), 0) /\ \A peers : Got(q, peers, 0)
         /\ \E t \in Thread : /\ ThreadHost[t] = h /\ Calls[t] \cap Opener # {}
                              /\ thr[t].opens = 0 /\ thr'[t].opens = 1
<1>1. \A t \in Thread : Calls[t] \subseteq {"active", "passive", "send", "receive", "close"}
  BY DEF OneConversation, Opener
<1>2. ASSUME NEW t \in Thread, NEW op \in {"active", "passive"}, Opens(t, h, op)
      PROVE  ThreadHost[t] = h /\ Calls[t] \cap Opener # {} /\ thr[t].opens = 0 /\ thr'[t].opens = 1
  <2>1. MaxOpens = 1 /\ thr[t].opens \in Nat
    BY DEF OneConversation, StackInv, ThreadsOK, ThreadState
  <2>2. ThreadHost[t] = h /\ op \in Calls[t] /\ thr[t].opens < MaxOpens /\ thr'[t].opens = thr[t].opens + 1
    BY <1>2 DEF Opens
  <2>3. thr[t].opens = 0 /\ thr'[t].opens = 1
    BY <2>1, <2>2
  <2> QED BY <2>2, <2>3 DEF Opener
<1>3. CASE \E t \in Thread : \E arg \in BindTo[t], remote \in ConnectTo[t], local \in Endp, iss \in Iss[h] :
             /\ Opens(t, h, "active") /\ local.addr = (IF arg.addr = ANY THEN HostAddr[h] ELSE arg.addr)
             /\ q = Dialled(EmptyPcb, local, remote, iss)
  <2>1. PICK t \in Thread : \E arg \in BindTo[t], remote \in ConnectTo[t], local \in Endp, iss \in Iss[h] :
             /\ Opens(t, h, "active") /\ local.addr = (IF arg.addr = ANY THEN HostAddr[h] ELSE arg.addr)
             /\ q = Dialled(EmptyPcb, local, remote, iss)
    BY <1>3, Zenon
  <2>2. PICK arg \in BindTo[t], remote \in ConnectTo[t], local \in Endp, iss \in Iss[h] :
             /\ Opens(t, h, "active") /\ local.addr = (IF arg.addr = ANY THEN HostAddr[h] ELSE arg.addr)
             /\ q = Dialled(EmptyPcb, local, remote, iss)
    BY <2>1, Zenon
  <2>3. ThreadHost[t] = h /\ Calls[t] \cap Opener # {} /\ thr[t].opens = 0 /\ thr'[t].opens = 1
    BY <1>2, <2>2, Zenon
  <2>4. local.addr = HostAddr[h] /\ remote.addr # ANY /\ remote \in Endp
    <3>1. arg.addr \in {ANY, HostAddr[h]} /\ remote.addr # ANY
      BY <2>3, Zenon DEF OneConversation
    <3>2. remote \in Endp
      BY TcpAssumption
    <3> QED BY <2>2, <3>1, <3>2
  <2>5. iss = isn(h) /\ isn(h) \in SeqNo /\ isn(h) + 1 < SeqMod
    BY IsnType, TcpPcbAssumption
  <2>6. Linked(q, local.addr, isn(h)) /\ (\A peers : Got(q, peers, 0)) /\ Wrote(q, isn(h), 0) /\ q.buf = <<>>
    BY <2>2, <2>4, <2>5, DialledText, Zenon
  <2> QED BY <2>3, <2>4, <2>6, Zenon
<1>4. CASE /\ \E t \in Thread : Opens(t, h, "passive")
           /\ \E local, remote \in Endp : q = [EmptyPcb EXCEPT !.local = local, !.remote = remote, !.state = "Listen"]
  <2>1. q.mode = "Rfc" /\ q.queue = <<>> /\ q.buf = <<>> /\ q.state = "Listen"
    BY <1>4 DEF EmptyPcb
  <2>2. Sent(q) = {}
    BY <2>1 DEF Sent
  <2>3. Linked(q, HostAddr[h], isn(h)) /\ Wrote(q, isn(h), 0) /\ \A peers : Got(q, peers, 0)
    BY <2>1, <2>2 DEF Linked, Active, Wrote, Got, Sending, Receiving
  <2> QED BY <1>2, <1>4, <2>1, <2>3
<1> QED BY <1>1, <1>3, <1>4, Zenon DEF NewPcb

-----------------------------------------------------------------------------

(***************************************************************************)
(* The invariant.                                                          *)
(***************************************************************************)
\* What a thread still has to send continues what it has sent; what it has got has no gaps.
ThreadText(u, th) ==
  /\ th.op \in Calls[u] \cup {"none"}
  /\ th.pc = "idle" => th.data = <<>> /\ th.sent = 0
  /\ th.sent <= Len(th.data) /\ \A i \in DOMAIN th.data : th.data[i] = th.wrote - th.sent + i
  /\ th.opens # 0 => Calls[u] \cap Opener # {}
  /\ \A i \in DOMAIN th.got : th.got[i] = i

\* A PCB stands where its host's sender and receiver stand.
PcbText(h, p, th) ==
  /\ Linked(p, HostAddr[h], isn(h))
  /\ p.state \in Early => p.buf = <<>>
  /\ \A t \in Thread : ThreadHost[t] = h =>
       /\ p.state \in Early => th[t].wrote = 0 /\ th[t].got = <<>>
       /\ "send" \in Calls[t] => Wrote(p, isn(h), th[t].wrote)
       /\ "receive" \in Calls[t] => Got(p, Peers(p), Len(th[t].got))

\* A host has one PCB, and none before its thread has opened one.
Fresh(h, th) == \A t \in Thread : ThreadHost[t] = h => th[t].opens = 0
HostText(h, tab, th) ==
  /\ \A c, d \in Live(tab) : c = d
  /\ \A d \in Live(tab) : PcbText(h, tab[d], th)
  /\ Fresh(h, th) => Live(tab) = {} /\ \A t \in Thread : ThreadHost[t] = h => th[t].wrote = 0 /\ th[t].got = <<>>

TextSegment == {seg \in Segment : SegText(seg)}
TextInv ==
  /\ StackInv /\ net \in Nets(TextSegment)
  /\ \A u \in Thread : ThreadText(u, thr[u])
  /\ \A h \in Host : HostText(h, pcbs[h], thr)

\* A step that moves no text.
LEMMA IdleText ==
  ASSUME NEW u, NEW a \in ThreadState, ThreadText(u, a), NEW b \in ThreadState, Idle(u, a, b) PROVE ThreadText(u, b)
<1> USE DEF ThreadText, Idle
<1>1. /\ b.op \in Calls[u] \cup {"none"} /\ (b.opens # 0 => Calls[u] \cap Opener # {})
      /\ \A i \in DOMAIN b.got : b.got[i] = i
  OBVIOUS
<1>2. a.sent \in Nat /\ a.wrote \in Nat /\ b.wrote = a.wrote
  BY DEF ThreadState
<1>3. CASE b.data = a.data /\ b.sent = a.sent /\ (b.pc = "idle" => a.pc = "idle")
  BY <1>1, <1>3
<1>4. CASE b.data = <<>> /\ b.sent = 0
  BY <1>1, <1>4
<1>5. CASE a.pc = "idle" /\ b.pc # "idle" /\ b.sent = a.sent /\ \E n \in Nat : b.data = [i \in 1..n |-> a.wrote + i]
  <2>1. PICK n \in Nat : b.data = [i \in 1..n |-> a.wrote + i]
    BY <1>5
  <2>2. Len(b.data) \in Nat /\ b.sent = 0
    BY <1>5 DEF ThreadState
  <2>3. \A i \in DOMAIN b.data : i \in Nat /\ b.data[i] = a.wrote + i
    BY <2>1
  <2>4. \A i \in DOMAIN b.data : b.data[i] = b.wrote - b.sent + i
    BY <1>2, <2>2, <2>3
  <2> QED BY <1>1, <1>5, <2>2, <2>4
<1> QED BY <1>3, <1>4, <1>5

\* A step that moves the text of one thread.
LEMMA OneMoves ==
  ASSUME TextInv, NEW t \in Thread, NEW d \in Live(pcbs[ThreadHost[t]]), NEW q,
         pcbs' = [pcbs EXCEPT ![ThreadHost[t]][d] = q], \A u \in Thread \ {t} : thr'[u] = thr[u],
         thr'[t].opens = thr[t].opens, Linked(q, HostAddr[ThreadHost[t]], isn(ThreadHost[t])), q.state \notin Early,
         \A u \in Thread : ThreadHost[u] = ThreadHost[t] =>
           /\ "send" \in Calls[u] => Wrote(q, isn(ThreadHost[t]), thr'[u].wrote)
           /\ "receive" \in Calls[u] => Got(q, Peers(q), Len(thr'[u].got)),
         NEW g \in Host
  PROVE  HostText(g, pcbs'[g], thr')
<1> DEFINE h == ThreadHost[t]
<1>1. h \in Host /\ pcbs \in [Host -> [Desc -> Pcb \cup {NoPcb}]] /\ HostText(g, pcbs[g], thr)
  BY TcpAssumption DEF TextInv, StackInv
<1>2. Fresh(g, thr') => Fresh(g, thr)
  BY Zenon DEF Fresh
<1>3. CASE g # h
  <2>1. pcbs'[g] = pcbs[g] /\ \A u \in Thread : ThreadHost[u] = g => thr'[u] = thr[u]
    BY <1>1, <1>3
  <2>2. \A p : PcbText(g, p, thr) => PcbText(g, p, thr')
    BY <2>1, Zenon DEF PcbText
  <2> QED BY <1>1, <1>2, <2>1, <2>2 DEF HostText
<1>4. CASE g = h
  <2>1. pcbs'[h] = [pcbs[h] EXCEPT ![d] = q] /\ d \in Desc
    BY <1>1 DEF Live
  <2>2. \A c \in Live(pcbs'[h]) : c = d /\ pcbs'[h][c] = q
    <3>1. \A c \in Desc : c # d => pcbs'[h][c] = pcbs[h][c]
      BY <1>1, <2>1, Zenon
    <3>2. \A c \in Live(pcbs'[h]) : c \in Live(pcbs[h])
      BY <3>1, Zenon DEF Live
    <3>3. \A c \in Live(pcbs'[h]) : c = d
      BY <1>1, <1>4, <3>2, Zenon DEF HostText
    <3>4. pcbs'[h][d] = q
      BY <1>1, <2>1
    <3> QED BY <3>3, <3>4, Zenon
  <2>3. PcbText(h, q, thr')
    BY <1>4, Zenon DEF PcbText
  <2>4. ~Fresh(g, thr')
    BY <1>1, <1>2, <1>4 DEF HostText
  <2>5. \A c \in Live(pcbs'[g]) : c = d /\ PcbText(g, pcbs'[g][c], thr')
    BY <1>4, <2>2, <2>3
  <2> QED BY <2>4, <2>5 DEF HostText
<1> QED BY <1>3, <1>4

\* send passes text to output.
LEMMA SendsKeep ==
  ASSUME OneConversation, TextInv, NEW t \in Thread, NEW n, SendsText(t, n)
  PROVE  /\ \A u \in Thread : ThreadText(u, thr'[u])
         /\ \A g \in Host : HostText(g, pcbs'[g], thr')
         /\ Numbered([seq |-> pcbs[ThreadHost[t]][thr[t].desc].snd_nxt, flg |-> {"ACK", "PSH"}, data |-> NextText(t, n)], isn(ThreadHost[t]))
<1> DEFINE h == ThreadHost[t]
           d == thr[t].desc
           p == pcbs[h][d]
           th == thr[t]
           text == NextText(t, n)
           q == TextSent(p, text, n)
           x == WroteOn(th, n)
<1>1. /\ th.op = "send" /\ d \in Live(pcbs[h]) /\ p.state \in {"Established", "CloseWait"}
      /\ n \in Nat /\ th.sent + n <= Len(th.data) /\ text \in Seq(Byte) /\ Len(text) = n
      /\ pcbs' = [pcbs EXCEPT ![h][d] = q] /\ thr' = [thr EXCEPT ![t] = x]
  BY Zenon DEF SendsText
<1>2. /\ h \in Host /\ thr \in [Thread -> ThreadState] /\ th \in ThreadState /\ ThreadText(t, th) /\ TabOK(pcbs[h])
      /\ HostText(h, pcbs[h], thr)
  BY TcpAssumption DEF TextInv, StackInv, ThreadsOK
<1>3. p \in Pcb /\ PcbText(h, p, thr)
  BY <1>1, <1>2, LivePcbs DEF HostText
<1>4. "send" \in Calls[t]
  BY <1>1, <1>2 DEF ThreadText
<1>5. \A u \in Thread : ThreadHost[u] = h /\ "send" \in Calls[u] => u = t
  <2> SUFFICES ASSUME NEW u \in Thread, ThreadHost[u] = h, "send" \in Calls[u] PROVE u = t
    OBVIOUS
  <2>1. Calls[t] \cap {"send"} # {} /\ Calls[u] \cap {"send"} # {}
    BY <1>4
  <2> QED BY <2>1, Zenon DEF OneConversation
<1>6. Linked(p, HostAddr[h], isn(h)) /\ Wrote(p, isn(h), th.wrote)
  BY <1>3, <1>4 DEF PcbText
<1>7. th.wrote \in Nat /\ th.sent \in Nat /\ th.data \in Seq(Byte)
  BY <1>2 DEF ThreadState
<1>8. \A i \in DOMAIN text : text[i] = th.wrote + i
  <2> DEFINE data == th.data
             k == th.sent
             w == th.wrote
  <2>1. data \in Seq(Byte) /\ k \in Nat /\ w \in Nat /\ k + n <= Len(data) /\ \A i \in DOMAIN data : data[i] = w - k + i
    BY <1>1, <1>2, <1>7 DEF ThreadText
  <2>2. text = SubSeq(data, k + 1, k + n) /\ DOMAIN text = 1..n
    BY <1>1 DEF NextText
  <2> HIDE DEF data, k, w, text
  <2>n. n \in Nat
    BY <1>1
  <2>p. \A i \in 1..n : SubSeq(data, k + 1, k + n)[i] = data[k + i]
    BY <2>n, <2>1, Piece
  <2>3. \A i \in 1..n : text[i] = data[k + i]
    BY <2>2, <2>p, Zenon
  <2>4. \A i \in 1..n : k + i \in DOMAIN data
    BY <1>1, <2>1
  <2>5. \A i \in 1..n : data[k + i] = w - k + (k + i)
    BY <2>1, <2>4
  <2>6. \A i \in 1..n : text[i] = w + i
    BY <1>1, <2>1, <2>3, <2>5
  <2> QED BY <2>2, <2>6 DEF w
<1>9. isn(h) \in Nat /\ isn(h) + 1 + th.wrote + n < SeqMod
  <2>1. isn(h) \in Nat /\ \A b \in Byte : b \in Nat => isn(h) + b + 2 < SeqMod
    BY <1>2, IsnType
  <2>2. CASE n = 0
    <3>1. p.snd_nxt \in SeqNo /\ p.snd_nxt = isn(h) + 1 + th.wrote
      BY <1>1, <1>3, <1>6 DEF Wrote, Sending, Pcb
    <3> QED BY <1>7, <2>1, <2>2, <3>1, TcpPcbAssumption DEF SeqNo
  <2>3. CASE n # 0
    <3> HIDE DEF text
    <3>1. n \in DOMAIN text /\ text[n] \in Byte
      BY <1>1, <2>3
    <3>2. th.wrote + n \in Byte
      BY <1>8, <3>1, Zenon
    <3>3. isn(h) + (th.wrote + n) + 2 < SeqMod
      BY <1>1, <1>7, <2>1, <3>2
    <3>4. n \in Nat /\ SeqMod \in Nat
      BY <1>1, TcpPcbAssumption
    <3> QED BY <1>7, <2>1, <3>3, <3>4
  <2> QED BY <2>1, <2>2, <2>3
<1>10. /\ Numbered([seq |-> p.snd_nxt, flg |-> {"ACK", "PSH"}, data |-> text], isn(h))
       /\ Linked(q, HostAddr[h], isn(h)) /\ Wrote(q, isn(h), th.wrote + n) /\ q.state = p.state /\ SameEndpoints(p, q)
       /\ \A peers, m : Got(p, peers, m) => Got(q, peers, m)
  <2> DEFINE w == th.wrote
             iss == isn(h)
             addr == HostAddr[h]
  <2>1. w \in Nat /\ iss \in Nat /\ Linked(p, addr, iss) /\ Wrote(p, iss, w) /\ (\A i \in DOMAIN text : text[i] = w + i) /\ iss + 1 + w + n < SeqMod
    BY <1>6, <1>7, <1>8, <1>9
  <2>q. n \in Nat /\ text \in Seq(Byte) /\ p \in Pcb /\ p.state \in {"Established", "CloseWait"} /\ q = TextSent(p, text, n)
    BY <1>1, <1>3
  <2> HIDE DEF w, iss, addr, text, p, q
  <2>2. /\ Numbered([seq |-> p.snd_nxt, flg |-> {"ACK", "PSH"}, data |-> text], iss)
        /\ Linked(q, addr, iss) /\ Wrote(q, iss, w + n) /\ q.state = p.state /\ SameEndpoints(p, q)
        /\ \A peers, m : Got(p, peers, m) => Got(q, peers, m)
    BY <2>1, <2>q, TextSentText
  <2> QED BY <2>2 DEF w, iss, addr
<1>11. /\ x.op = th.op /\ x.pc = "lock" /\ x.data = th.data /\ x.sent = th.sent + n /\ x.wrote = th.wrote + n
       /\ x.opens = th.opens /\ x.got = th.got
  BY <1>2 DEF WroteOn, ThreadState
<1> HIDE DEF x, q, text
<1>12. thr'[t] = x /\ \A u \in Thread \ {t} : thr'[u] = thr[u]
  BY <1>1, <1>2
<1>13. ThreadText(t, x)
  <2>1. th.sent + n <= Len(th.data) /\ \A i \in DOMAIN th.data : i \in Nat /\ th.data[i] = th.wrote - th.sent + i
    BY <1>1, <1>2, <1>7 DEF ThreadText
  <2>2. \A i \in DOMAIN th.data : th.data[i] = (th.wrote + n) - (th.sent + n) + i
    BY <1>1, <1>7, <2>1
  <2> QED BY <1>2, <1>11, <2>1, <2>2 DEF ThreadText
<1>14. \A u \in Thread : ThreadText(u, thr'[u])
  BY <1>12, <1>13 DEF TextInv
<1>15. q.state \notin Early /\ Peers(q) = Peers(p)
  <2>1. Peers(q) = Peers(p)
    BY <1>10, Zenon DEF SameEndpoints, Peers
  <2> QED BY <1>1, <1>10, <2>1 DEF Early
<1>16. \A u \in Thread : ThreadHost[u] = h =>
         /\ "send" \in Calls[u] => Wrote(q, isn(h), thr'[u].wrote)
         /\ "receive" \in Calls[u] => Got(q, Peers(q), Len(thr'[u].got))
  <2> SUFFICES ASSUME NEW u \in Thread, ThreadHost[u] = h
               PROVE  /\ "send" \in Calls[u] => Wrote(q, isn(h), thr'[u].wrote)
                      /\ "receive" \in Calls[u] => Got(q, Peers(q), Len(thr'[u].got))
    OBVIOUS
  <2>1. "receive" \in Calls[u] => Got(p, Peers(p), Len(thr[u].got))
    BY <1>3 DEF PcbText
  <2>2. thr'[u].got = thr[u].got
    BY <1>11, <1>12
  <2>3. "send" \in Calls[u] => thr'[u].wrote = th.wrote + n
    BY <1>5, <1>11, <1>12
  <2> QED BY <1>10, <1>15, <2>1, <2>2, <2>3, Zenon
<1>17. \A g \in Host : HostText(g, pcbs'[g], thr')
  <2>1. thr'[t].opens = thr[t].opens
    BY <1>11, <1>12
  <2> QED BY <1>1, <1>10, <1>12, <1>15, <1>16, <2>1, OneMoves, Zenon
<1> QED BY <1>10, <1>14, <1>17 DEF text

\* receive hands text out.
LEMMA ReadsKeep ==
  ASSUME OneConversation, TextInv, NEW t \in Thread, NEW n, ReadsText(t, n)
  PROVE  /\ \A u \in Thread : ThreadText(u, thr'[u])
         /\ \A g \in Host : HostText(g, pcbs'[g], thr')
<1> DEFINE h == ThreadHost[t]
           d == thr[t].desc
           p == pcbs[h][d]
           th == thr[t]
           text == SubSeq(p.buf, 1, n)
           q == Drained(p, n)
           y == Took(th, text)
           x == [y EXCEPT !.pc = "idle", !.desc = NoDesc, !.data = <<>>, !.sent = 0, !.ret = "Ok"]
<1>1. /\ th.op = "receive" /\ d \in Live(pcbs[h]) /\ p.state \in {"Established", "FinWait1", "FinWait2", "CloseWait"}
      /\ n \in 1..Len(p.buf) /\ pcbs' = [pcbs EXCEPT ![h][d] = q] /\ thr' = Returns([thr EXCEPT ![t] = y], t, "Ok")
  BY Zenon DEF ReadsText
<1>2. /\ h \in Host /\ thr \in [Thread -> ThreadState] /\ th \in ThreadState /\ ThreadText(t, th) /\ TabOK(pcbs[h])
      /\ HostText(h, pcbs[h], thr)
  BY TcpAssumption DEF TextInv, StackInv, ThreadsOK
<1>3. p \in Pcb /\ PcbText(h, p, thr)
  BY <1>1, <1>2, LivePcbs DEF HostText
<1>4. "receive" \in Calls[t]
  BY <1>1, <1>2 DEF ThreadText
<1>5. \A u \in Thread : ThreadHost[u] = h /\ "receive" \in Calls[u] => u = t
  <2> SUFFICES ASSUME NEW u \in Thread, ThreadHost[u] = h, "receive" \in Calls[u] PROVE u = t
    OBVIOUS
  <2>1. Calls[t] \cap {"receive"} # {} /\ Calls[u] \cap {"receive"} # {}
    BY <1>4
  <2> QED BY <2>1, Zenon DEF OneConversation
<1>6. Linked(p, HostAddr[h], isn(h)) /\ Got(p, Peers(p), Len(th.got)) /\ th.got \in Seq(Byte) /\ Len(th.got) \in Nat
  <2>1. th.got \in Seq(Byte)
    BY <1>2 DEF ThreadState
  <2>2. Len(th.got) \in Nat
    BY <2>1, LenType
  <2> QED BY <1>3, <1>4, <2>1, <2>2, Zenon DEF PcbText
<1>7. /\ Got(q, Peers(p), Len(th.got) + n) /\ SameEndpoints(p, q) /\ q.state = p.state /\ Linked(q, HostAddr[h], isn(h))
      /\ \A iss, w : Wrote(p, iss, w) => Wrote(q, iss, w)
      /\ text \in Seq(Byte) /\ Len(text) = n /\ \A i \in 1..n : text[i] = Len(th.got) + i
  <2> DEFINE m == Len(th.got)
             peers == Peers(p)
  <2>1. m \in Nat /\ Got(p, peers, m) /\ peers \subseteq Nat /\ q = Drained(p, n)
    BY <1>6, IsnType DEF Peers
  <2> HIDE DEF m, peers, p, q
  <2>2. /\ Got(q, peers, m + n) /\ SameEndpoints(p, q) /\ q.state = p.state
        /\ \A addr, iss : Linked(p, addr, iss) => Linked(q, addr, iss)
        /\ \A iss, w : Wrote(p, iss, w) => Wrote(q, iss, w)
        /\ text \in Seq(Byte) /\ Len(text) = n /\ \A i \in 1..n : text[i] = m + i
    BY <1>1, <1>3, <2>1, DrainedText
  <2> QED BY <1>6, <2>2, Zenon DEF m, peers
<1> HIDE DEF text, q
<1>8. /\ x.op = th.op /\ x.pc = "idle" /\ x.data = <<>> /\ x.sent = 0 /\ x.wrote = th.wrote
      /\ x.opens = th.opens /\ x.got = th.got \o text
  BY <1>2 DEF Took, ThreadState
<1>9. thr'[t] = x /\ \A u \in Thread \ {t} : thr'[u] = thr[u]
  <2> DEFINE s == [thr EXCEPT ![t] = y]
  <2> HIDE DEF y
  <2>1. s[t] = y /\ DOMAIN s = Thread /\ \A u \in Thread \ {t} : s[u] = thr[u]
    BY <1>2
  <2>2. thr' = [s EXCEPT ![t] = [s[t] EXCEPT !.pc = "idle", !.desc = NoDesc, !.data = <<>>, !.sent = 0, !.ret = "Ok"]]
    BY <1>1, Zenon DEF Returns
  <2>3. thr' = [s EXCEPT ![t] = x]
    BY <2>1, <2>2, Zenon
  <2> HIDE DEF s, x
  <2> QED BY <2>1, <2>3
<1> HIDE DEF x
<1>10. Len(x.got) = Len(th.got) + n /\ \A i \in DOMAIN x.got : x.got[i] = i
  <2> DEFINE got == th.got
  <2>1. \A i \in DOMAIN got : i \in Nat /\ got[i] = 0 + i
    BY <1>2, <1>6 DEF ThreadText
  <2>2. \A i \in DOMAIN text : text[i] = 0 + Len(got) + i
    <3> DEFINE l == Len(got)
    <3>1. l \in Nat /\ \A i \in 1..n : text[i] = l + i
      BY <1>6, <1>7, Zenon
    <3> HIDE DEF l
    <3>2. text \in Seq(Byte) /\ Len(text) = n
      BY <1>7, Zenon
    <3>3. DOMAIN text = 1..n
      BY <3>2
    <3>4. \A i \in DOMAIN text : text[i] = 0 + l + i
      BY <3>1, <3>3
    <3> QED BY <3>4 DEF l
  <2>3. got \in Seq(Byte) /\ text \in Seq(Byte) /\ 0 \in Nat
    BY <1>6, <1>7
  <2> HIDE DEF got
  <2>4. Len(got \o text) = Len(got) + Len(text) /\ \A i \in DOMAIN (got \o text) : (got \o text)[i] = 0 + i
    BY <2>1, <2>2, <2>3, Appended
  <2>5. DOMAIN (got \o text) = 1..Len(got \o text)
    BY <2>3
  <2>6. \A i \in DOMAIN (got \o text) : (got \o text)[i] = i
    BY <2>4, <2>5
  <2> QED BY <1>7, <1>8, <2>4, <2>6, Zenon DEF got
<1>11. ThreadText(t, x)
  BY <1>2, <1>8, <1>10 DEF ThreadText
<1>12. \A u \in Thread : ThreadText(u, thr'[u])
  BY <1>9, <1>11 DEF TextInv
<1>13. q.state \notin Early /\ Peers(q) = Peers(p)
  <2>1. Peers(q) = Peers(p)
    BY <1>7, Zenon DEF SameEndpoints, Peers
  <2> QED BY <1>1, <1>7, <2>1, Zenon DEF Early
<1>14. \A u \in Thread : ThreadHost[u] = h =>
         /\ "send" \in Calls[u] => Wrote(q, isn(h), thr'[u].wrote)
         /\ "receive" \in Calls[u] => Got(q, Peers(q), Len(thr'[u].got))
  <2> SUFFICES ASSUME NEW u \in Thread, ThreadHost[u] = h
               PROVE  /\ "send" \in Calls[u] => Wrote(q, isn(h), thr'[u].wrote)
                      /\ "receive" \in Calls[u] => Got(q, Peers(q), Len(thr'[u].got))
    OBVIOUS
  <2>1. "send" \in Calls[u] => Wrote(p, isn(h), thr[u].wrote)
    BY <1>3 DEF PcbText
  <2>2. thr'[u].wrote = thr[u].wrote
    BY <1>8, <1>9
  <2>3. "receive" \in Calls[u] => Len(thr'[u].got) = Len(th.got) + n
    BY <1>5, <1>9, <1>10
  <2> QED BY <1>7, <1>13, <2>1, <2>2, <2>3, Zenon
<1>15. \A g \in Host : HostText(g, pcbs'[g], thr')
  <2>1. thr'[t].opens = thr[t].opens
    BY <1>8, <1>9
  <2> QED BY <1>1, <1>7, <1>9, <1>13, <1>14, <2>1, OneMoves, Zenon
<1> QED BY <1>12, <1>15

\* Nothing moves text.
LEMMA QuietKeep ==
  ASSUME OneConversation, TextInv, StackInv', Steps, AllIdle(thr'),
         \A t \in Thread : \A n : ~SendsText(t, n) /\ ~ReadsText(t, n), NEW h \in Host
  PROVE  HostText(h, pcbs'[h], thr')
<1>1. /\ TabOK(pcbs[h]) /\ TabOK(pcbs'[h]) /\ HostText(h, pcbs[h], thr) /\ StackInv
      /\ thr \in [Thread -> ThreadState] /\ \A u \in Thread : ThreadText(u, thr[u])
  BY DEF TextInv, StackInv, ThreadsOK
<1>2. \A seg \in Arriving(h) : SegText(seg) /\ seg.dst.addr = HostAddr[h]
  <2> SUFFICES ASSUME NEW seg \in Arriving(h) PROVE SegText(seg) /\ seg.dst.addr = HostAddr[h]
    OBVIOUS
  <2>1. PICK i \in DOMAIN net[h] : net[h][i] = seg
    BY DEF Arriving
  <2>2. net[h] \in Seq(TextSegment) /\ net[h][i].dst.addr = HostAddr[h]
    BY DEF TextInv, Nets
  <2>3. net[h][i] \in TextSegment
    BY <2>2
  <2> QED BY <2>1, <2>2, <2>3 DEF TextSegment
<1>3. \A u \in Thread : /\ thr'[u].wrote = thr[u].wrote /\ thr'[u].got = thr[u].got /\ thr[u].wrote \in Nat /\ Len(thr[u].got) \in Nat
                        /\ thr'[u].opens = 0 => thr[u].opens = 0
  <2> SUFFICES ASSUME NEW u \in Thread
               PROVE  /\ thr'[u].wrote = thr[u].wrote /\ thr'[u].got = thr[u].got /\ thr[u].wrote \in Nat /\ Len(thr[u].got) \in Nat
                      /\ thr'[u].opens = 0 => thr[u].opens = 0
    OBVIOUS
  <2>1. thr[u].wrote \in Nat /\ thr[u].got \in Seq(Byte) /\ thr[u].opens \in Nat
    BY <1>1 DEF ThreadState
  <2>2. thr'[u].wrote = thr[u].wrote /\ thr'[u].got = thr[u].got /\ thr'[u].opens \in {thr[u].opens, thr[u].opens + 1}
    BY DEF AllIdle, Idle
  <2> QED BY <2>1, <2>2
<1>4. ASSUME NEW d \in Live(pcbs[h]), d \in Live(pcbs'[h]) PROVE PcbText(h, pcbs'[h][d], thr')
  <2> DEFINE p == pcbs[h][d]
             q == pcbs'[h][d]
  <2>1. p \in Pcb /\ Accounted(p) /\ PcbText(h, p, thr) /\ PcbStep(h, d, p, q)
    BY <1>1, <1>4, LivePcbs DEF HostText, Steps, SlotStep
  <2>2. KeepsText(h, p, q)
    BY <1>2, <2>1, PcbStepText DEF PcbText
  <2> HIDE DEF p, q
  <2>3. Linked(q, HostAddr[h], isn(h)) /\ (q.state \in Early => p.state \in Early /\ q.buf = <<>>)
    BY <2>1, <2>2 DEF KeepsText, PcbText
  <2>4. ASSUME NEW u \in Thread, ThreadHost[u] = h
        PROVE  /\ q.state \in Early => thr'[u].wrote = 0 /\ thr'[u].got = <<>>
               /\ "send" \in Calls[u] => Wrote(q, isn(h), thr'[u].wrote)
               /\ "receive" \in Calls[u] => Got(q, Peers(q), Len(thr'[u].got))
    <3> DEFINE w == thr[u].wrote
               got == thr[u].got
    <3>1. w \in Nat /\ thr'[u].wrote = w /\ thr'[u].got = got /\ Len(got) \in Nat
      BY <1>3
    <3>2. /\ p.state \in Early => w = 0 /\ got = <<>>
          /\ "send" \in Calls[u] => Wrote(p, isn(h), w)
          /\ "receive" \in Calls[u] => Got(p, Peers(p), Len(got))
      BY <2>1, <2>4, Zenon DEF PcbText
    <3>3. p.state \in Early => Len(got) = 0
      BY <3>2
    <3> HIDE DEF w, got
    <3> QED BY <2>2, <2>3, <3>1, <3>2, <3>3, Zenon DEF KeepsText
  <2> QED BY <2>3, <2>4, Zenon DEF PcbText, q
<1>5. ASSUME NEW d \in Live(pcbs'[h]), d \notin Live(pcbs[h])
      PROVE  Live(pcbs[h]) = {} /\ ~Fresh(h, thr') /\ PcbText(h, pcbs'[h][d], thr')
  <2> DEFINE q == pcbs'[h][d]
  <2>1. NewPcb(h, q)
    BY <1>5 DEF Steps, SlotStep
  <2>2. \A c \in Live(pcbs[h]) : pcbs[h][c].mode = "Rfc"
    BY <1>1 DEF HostText, PcbText, Linked
  <2> HIDE DEF q
  <2>3. /\ Linked(q, HostAddr[h], isn(h)) /\ q.buf = <<>> /\ Wrote(q, isn(h), 0) /\ \A peers : Got(q, peers, 0)
        /\ \E t \in Thread : ThreadHost[t] = h /\ Calls[t] \cap Opener # {} /\ thr[t].opens = 0 /\ thr'[t].opens = 1
    BY <1>1, <2>1, <2>2, NewPcbText, Zenon
  <2>4. PICK t \in Thread : ThreadHost[t] = h /\ Calls[t] \cap Opener # {} /\ thr[t].opens = 0 /\ thr'[t].opens = 1
    BY <2>3
  <2>5. \A u \in Thread : ThreadHost[u] = h /\ Calls[u] \cap Opener # {} => u = t
    BY <2>4, Zenon DEF OneConversation
  <2>6. Fresh(h, thr)
    BY <1>1, <2>4, <2>5, Zenon DEF Fresh, ThreadText
  <2>7. Live(pcbs[h]) = {} /\ \A u \in Thread : ThreadHost[u] = h => thr[u].wrote = 0 /\ thr[u].got = <<>>
    BY <1>1, <2>6, Zenon DEF HostText
  <2>8. \A u \in Thread : ThreadHost[u] = h => thr'[u].wrote = 0 /\ thr'[u].got = <<>> /\ Len(thr'[u].got) = 0
    BY <1>3, <2>7
  <2>9. PcbText(h, q, thr')
    BY <2>3, <2>8, Zenon DEF PcbText
  <2>10. ~Fresh(h, thr')
    BY <2>4 DEF Fresh
  <2> QED BY <2>7, <2>9, <2>10 DEF q
<1>6. \A c, d \in Live(pcbs'[h]) : c = d
  <2>1. PICK e : Live(pcbs'[h]) \subseteq Live(pcbs[h]) \cup {e}
    BY DEF Steps
  <2>2. \A c, d \in Live(pcbs[h]) : c = d
    BY <1>1 DEF HostText
  <2> QED BY <1>5, <2>1, <2>2
<1>7. Fresh(h, thr') => Live(pcbs'[h]) = {} /\ \A t \in Thread : ThreadHost[t] = h => thr'[t].wrote = 0 /\ thr'[t].got = <<>>
  <2> SUFFICES ASSUME Fresh(h, thr') PROVE Live(pcbs'[h]) = {} /\ \A t \in Thread : ThreadHost[t] = h => thr'[t].wrote = 0 /\ thr'[t].got = <<>>
    OBVIOUS
  <2>1. Fresh(h, thr)
    BY <1>3, Zenon DEF Fresh
  <2>2. Live(pcbs[h]) = {} /\ \A t \in Thread : ThreadHost[t] = h => thr[t].wrote = 0 /\ thr[t].got = <<>>
    BY <1>1, <2>1, Zenon DEF HostText
  <2>3. Live(pcbs'[h]) = {}
    BY <1>5, <2>2
  <2> QED BY <1>3, <2>2, <2>3
<1> QED BY <1>4, <1>5, <1>6, <1>7 DEF HostText
-----------------------------------------------------------------------------
\* What is sent has the numbers of its sender.
LEMMA NetKeep ==
  ASSUME OneConversation, TextInv, StackInv', \A h \in Host : HostText(h, pcbs'[h], thr'), [Next]_vars
  PROVE  net' \in Nets(TextSegment)
<1>1. net \in Nets(Segment)
  <2>1. TextSegment \subseteq Segment
    BY DEF TextSegment
  <2>2. \A h \in Host : net[h] \in Seq(TextSegment)
    BY DEF TextInv, Nets
  <2>3. \A h \in Host : net[h] \in Seq(Segment)
    BY <2>1, <2>2
  <2> QED BY <2>3 DEF TextInv, Nets
<1>2. EmitsIn(Segment)
  BY <1>1, EmitsType DEF TextInv
<1>3. \A h \in Host : \A d \in Live(pcbs[h]) : Linked(pcbs[h][d], HostAddr[h], isn(h))
  BY DEF TextInv, HostText, PcbText
<1>4. \A h \in Host : \A d \in Live(pcbs'[h]) : Linked(pcbs'[h][d], HostAddr[h], isn(h))
  BY DEF HostText, PcbText
<1>5. ASSUME NEW p, NEW flg, "SYN" \notin flg PROVE SegText(Output(p, flg, <<>>))
  BY <1>5 DEF SegText, Output, OutputSegment
<1>6. ASSUME NEW h \in Host, NEW p, Active(p), Linked(p, HostAddr[h], isn(h)), NEW flg, "SYN" \in flg PROVE SegText(Output(p, flg, <<>>))
  <2> DEFINE o == Output(p, flg, <<>>)
  <2>1. o.src = p.local /\ o.seq = p.iss /\ o.data = <<>>
    BY <1>6 DEF Output, OutputSegment, OutputSeq
  <2>2. p.local.addr = HostAddr[h] /\ p.iss = isn(h)
    BY <1>6 DEF Linked
  <2> HIDE DEF o
  <2>3. SegText(o)
    BY <2>1, <2>2 DEF SegText, Numbered
  <2> QED BY <2>3 DEF o
<1>7. ASSUME NEW h \in Host, NEW seg, EmitsPlain(h, seg) PROVE SegText(seg)
  <2> DEFINE F == {{"ACK"}, {"RST"}, {"ACK", "FIN"}}
             S == {{"SYN"}, {"SYN", "ACK"}}
  <2>1. (\A f \in F : "SYN" \notin f) /\ (\A f \in S : "SYN" \in f)
    OBVIOUS
  <2>2. \/ \E f \in F : \E p : seg = Output(p, f, <<>>)
        \/ \E d \in Live(pcbs'[h]), f \in S : Active(pcbs'[h][d]) /\ seg = Output(pcbs'[h][d], f, <<>>)
    <3>1. {"ACK"} \in F /\ {"RST"} \in F /\ {"ACK", "FIN"} \in F /\ \A f \in {{"ACK"}, {"SYN"}, {"SYN", "ACK"}} : f \in F \/ f \in S
      OBVIOUS
    <3> HIDE DEF F, S
    <3> QED BY <1>7, <3>1, Zenon DEF EmitsPlain
  <2> HIDE DEF F, S
  <2> QED BY <1>4, <1>5, <1>6, <2>1, <2>2, Zenon
<1>8. ASSUME NEW h \in Host, NEW seg, EmitsText(h, seg) PROVE SegText(seg)
  <2>1. PICK t \in Thread, n \in Nat :
          ThreadHost[t] = h /\ SendsText(t, n) /\ seg = Output(pcbs[h][thr[t].desc], {"ACK", "PSH"}, NextText(t, n))
    BY <1>8, Zenon DEF EmitsText
  <2> DEFINE p == pcbs[h][thr[t].desc]
             e == [seq |-> p.snd_nxt, flg |-> {"ACK", "PSH"}, data |-> NextText(t, n)]
  <2>2. Numbered(e, isn(h))
    BY <2>1, SendsKeep
  <2>3. p.local.addr = HostAddr[h]
    BY <1>3, <2>1 DEF SendsText, Linked, Active
  <2>4. seg.src = p.local /\ seg.seq = e.seq /\ seg.flg = e.flg /\ seg.data = e.data
    BY <2>1 DEF Output, OutputSegment, OutputSeq
  <2> HIDE DEF e
  <2> QED BY <2>2, <2>3, <2>4, Zenon DEF SegText, Numbered
<1>9. ASSUME NEW h \in Host, NEW seg, EmitsAgain(h, seg) PROVE SegText(seg)
  <2>1. PICK d \in Live(pcbs[h]) : \E i \in DOMAIN pcbs[h][d].queue :
          LET p == pcbs[h][d]
              e == p.queue[i]
          IN seg = OutputSegment(e.seq, p.rcv_nxt, e.flg, p.rcv_wnd, e.data, p.local, p.remote)
    BY <1>9, Zenon DEF EmitsAgain
  <2> DEFINE p == pcbs[h][d]
  <2>2. PICK i \in DOMAIN p.queue :
          seg = OutputSegment(p.queue[i].seq, p.rcv_nxt, p.queue[i].flg, p.rcv_wnd, p.queue[i].data, p.local, p.remote)
    BY <2>1, Zenon
  <2> DEFINE e == [seq |-> p.queue[i].seq, flg |-> p.queue[i].flg, data |-> p.queue[i].data]
  <2>3. seg.src = p.local /\ seg.seq = e.seq /\ seg.flg = e.flg /\ seg.data = e.data
    BY <2>2 DEF OutputSegment
  <2>4. e \in Sent(p)
    BY DEF Sent
  <2>5. Linked(p, HostAddr[h], isn(h))
    BY <1>3
  <2> HIDE DEF e, p
  <2>6. Numbered(e, isn(h)) /\ p.local.addr = HostAddr[h]
    BY <2>4, <2>5 DEF Linked
  <2> QED BY <2>3, <2>6, Zenon DEF SegText, Numbered
<1>10. ASSUME NEW h \in Host, NEW seg, EmitsReply(h, seg) PROVE SegText(seg)
  <2>1. ASSUME NEW in PROVE SegText(ResetReply(in))
    BY DEF SegText, ResetReply, OutputSegment
  <2>2. "SYN" \notin {"ACK"}
    OBVIOUS
  <2> QED BY <1>5, <1>10, <2>1, <2>2, Zenon DEF EmitsReply
<1>11. EmitsIn(TextSegment)
  <2>1. "peer" \notin Faults /\ net \in Nets(TextSegment)
    BY DEF OneConversation, TextInv
  <2>2. \A h \in Host : \A seg : Emits(h, seg) => seg \in Segment /\ SegText(seg)
    BY <1>2, <1>7, <1>8, <1>9, <1>10, Zenon DEF EmitsIn, Emits
  <2> QED BY <2>1, <2>2 DEF EmitsIn, TextSegment
<1> QED BY <1>11, ConversationNoRecycle, StepNet DEF TextInv

\* Every step.
LEMMA StepText == ASSUME OneConversation, TextInv, [Next]_vars PROVE TextInv'
<1>1. StackInv /\ StackInv' /\ Steps
  BY ConversationNoRecycle, StepStackInv, StepSteps DEF TextInv
<1>2. (\A u \in Thread : ThreadText(u, thr'[u])) /\ (\A h \in Host : HostText(h, pcbs'[h], thr'))
  <2>1. ASSUME NEW t \in Thread, NEW n, SendsText(t, n)
        PROVE  (\A u \in Thread : ThreadText(u, thr'[u])) /\ (\A h \in Host : HostText(h, pcbs'[h], thr'))
    BY <2>1, SendsKeep
  <2>2. ASSUME NEW t \in Thread, NEW n, ReadsText(t, n)
        PROVE  (\A u \in Thread : ThreadText(u, thr'[u])) /\ (\A h \in Host : HostText(h, pcbs'[h], thr'))
    BY <2>2, ReadsKeep
  <2>3. CASE \A t \in Thread : \A n : ~SendsText(t, n) /\ ~ReadsText(t, n)
    <3>1. AllIdle(thr')
      BY <1>1, <2>3, StepThreads, Zenon
    <3>2. \A u \in Thread : thr[u] \in ThreadState /\ thr'[u] \in ThreadState /\ ThreadText(u, thr[u])
      BY <1>1 DEF TextInv, StackInv, ThreadsOK
    <3>3. \A u \in Thread : ThreadText(u, thr'[u])
      BY <3>1, <3>2, IdleText DEF AllIdle
    <3> QED BY <1>1, <2>3, <3>1, <3>3, QuietKeep
  <2> QED BY <2>1, <2>2, <2>3, Zenon
<1>3. net' \in Nets(TextSegment)
  BY <1>1, <1>2, NetKeep
<1> QED BY <1>1, <1>2, <1>3 DEF TextInv

\* What receive hands out is the beginning of what the other application sent, byte by byte, with
\* nothing lost, repeated or moved: for two hosts that hold one conversation,
\* of any length, over a network that loses, duplicates and reorders segments, with interrupts and
\* with retransmission, whichever side opens, sends, receives and closes, and whoever gives up.
THEOREM StreamArrivesInOrder == ASSUME OneConversation PROVE Spec => []StreamIntegrity
<1>1. Init => TextInv
  <2> SUFFICES ASSUME Init PROVE TextInv
    OBVIOUS
  <2>1. StackInv
    BY InitStackInv
  <2>2. net \in Nets(TextSegment)
    <3>1. <<>> \in Seq(TextSegment) /\ DOMAIN <<>> = {}
      OBVIOUS
    <3> QED BY <3>1 DEF Init, Nets
  <2>3. \A u \in Thread : ThreadText(u, thr[u])
    BY DEF Init, ThreadText
  <2>4. \A h \in Host : HostText(h, pcbs[h], thr)
    <3>1. \A h \in Host : Live(pcbs[h]) = {}
      BY DEF Init, Live
    <3>2. \A t \in Thread : thr[t].wrote = 0 /\ thr[t].got = <<>>
      BY DEF Init
    <3> QED BY <3>1, <3>2 DEF HostText
  <2> QED BY <2>1, <2>2, <2>3, <2>4 DEF TextInv
<1>2. TextInv /\ [Next]_vars => TextInv'
  BY StepText
<1>3. TextInv => StreamIntegrity
  BY DEF TextInv, ThreadText, StreamIntegrity
<1> QED BY <1>1, <1>2, <1>3, PTL DEF Spec
=============================================================================
