---------------------------- MODULE TcpPcbProofs ----------------------------
(***************************************************************************)
(* Lemmas about the operators of TcpPcb: every one of them yields a        *)
(* well-typed PCB, keeps the account of the receive window, keeps what may *)
(* have to be sent again in the retransmission queue and keeps the numbers *)
(* of the text it carries; what they send is a well-formed segment.        *)
(***************************************************************************)
EXTENDS TcpPcb, WellFoundedInduction, TLAPS

\* The account of the receive window, for one PCB (WindowAccounting).
Accounted(p) ==
  /\ Active(p) => p.rcv_wnd + Len(p.buf) = RECV_BUF_SIZE
  /\ p.state = "Listen" => p.buf = <<>>

\* q is p with none of the fields changed that the account is about.
SameBuffer(p, q) == q.rcv_wnd = p.rcv_wnd /\ q.buf = p.buf
SameEndpoints(p, q) == q.local = p.local /\ q.remote = p.remote

\* Sequence-number arithmetic stays within u32.
LEMMA PlusType == ASSUME NEW n \in Int, NEW k \in Int PROVE Plus(n, k) \in SeqNo
BY TcpPcbAssumption DEF Plus, SeqNo

\* Min of a non-empty set of naturals is its least element.
LEMMA MinProperties ==
  ASSUME NEW S \in SUBSET Nat, S # {}
  PROVE  Min(S) \in S /\ \A n \in S : Min(S) <= n
<1>1. PICK x \in S : \A y \in S : ~(<<y, x>> \in OpToRel(<, Nat))
  BY WFMin, NatLessThanWellFounded
<1>2. \A y \in S : x <= y
  <2> TAKE y \in S
  <2>1. x \in Nat /\ y \in Nat /\ ~(y < x)
    BY <1>1 DEF OpToRel
  <2> QED BY <2>1
<1> QED
  BY <1>2 DEF Min

\* Sequences of elements of S.
LEMMA SeqTypes ==
  ASSUME NEW S
  PROVE  /\ <<>> \in Seq(S) /\ \A x \in S : <<x>> \in Seq(S)
         /\ \A s, t \in Seq(S) : s \o t \in Seq(S)
OBVIOUS

\* A sequence has a length, and only the empty one has length 0.
LEMMA LenType == ASSUME NEW S, NEW s \in Seq(S) PROVE Len(s) \in Nat /\ (s # <<>> => Len(s) # 0)
OBVIOUS

\* What output() leaves in the retransmission queue.
LEMMA QueuedType ==
  ASSUME NEW p \in Pcb, NEW flg \in SUBSET Flag, NEW data \in Seq(Byte)
  PROVE  /\ Queued(p, flg, data) \in Pcb
         /\ SameBuffer(p, Queued(p, flg, data))
         /\ SameEndpoints(p, Queued(p, flg, data))
         /\ Queued(p, flg, data).state = p.state
<1> DEFINE e == [seq |-> OutputSeq(p, flg), flg |-> flg, data |-> data,
                 age |-> 0, idle |-> 0, rto |-> TCP_DEFAULT_RTO]
<1>1. e \in TcpQueueEntry
  BY TcpPcbAssumption DEF TcpQueueEntry, OutputSeq, Pcb
<1>2. Append(p.queue, e) \in Seq(TcpQueueEntry)
  BY <1>1 DEF Pcb
<1>3. [p EXCEPT !.queue = Append(@, e)] \in Pcb
  BY <1>2 DEF Pcb
<1> QED
  BY <1>3 DEF Queued, SameBuffer, SameEndpoints, Pcb

\* Acknowledged entries leave the queue and nothing else changes.
LEMMA CleanupType ==
  ASSUME NEW p \in Pcb
  PROVE  /\ retrans_queue_cleanup(p) \in Pcb
         /\ SameBuffer(p, retrans_queue_cleanup(p))
         /\ SameEndpoints(p, retrans_queue_cleanup(p))
         /\ retrans_queue_cleanup(p).state = p.state
<1> DEFINE kept == {i \in DOMAIN p.queue : p.snd_una < EntryEnd(p.queue[i])}
           rest == IF kept = {} THEN <<>> ELSE SubSeq(p.queue, Min(kept), Len(p.queue))
<1>1. p.queue \in Seq(TcpQueueEntry)
  BY DEF Pcb
<1>2. rest \in Seq(TcpQueueEntry)
  <2>1. CASE kept = {}
    BY <2>1
  <2>2. CASE kept # {}
    <3>1. kept \subseteq 1..Len(p.queue) /\ Len(p.queue) \in Nat
      BY <1>1
    <3>2. kept \in SUBSET Nat
      BY <3>1
    <3>3. Min(kept) \in 1..Len(p.queue)
      BY <2>2, <3>1, <3>2, MinProperties
    <3> HIDE DEF kept
    <3>4. \A i \in Min(kept)..Len(p.queue) : p.queue[i] \in TcpQueueEntry
      BY <1>1, <3>1, <3>3
    <3>5. SubSeq(p.queue, Min(kept), Len(p.queue)) \in Seq(TcpQueueEntry)
      BY <3>1, <3>3, <3>4
    <3> QED BY <2>2, <3>5
  <2> QED BY <2>1, <2>2
<1>3. retrans_queue_cleanup(p) = [p EXCEPT !.queue = rest]
  BY DEF retrans_queue_cleanup
<1> HIDE DEF rest
<1> QED
  BY <1>2, <1>3 DEF SameBuffer, SameEndpoints, Pcb

\* retrans_emit leaves the PCB as it is or closes it.
LEMMA EmitType ==
  ASSUME NEW p \in Pcb
  PROVE  /\ retrans_emit(p) \in Pcb
         /\ SameBuffer(p, retrans_emit(p))
         /\ SameEndpoints(p, retrans_emit(p))
         /\ retrans_emit(p).state \in {p.state, "Closed"}
\* A tick keeps a queue a queue.
<1>QueueTickType. /\ AgedQueue(p) \in Seq(TcpQueueEntry)
                  /\ [i \in DOMAIN p.queue |-> Resent(Aged(p.queue[i]))] \in Seq(TcpQueueEntry)
  <2>1. p.queue \in Seq(TcpQueueEntry)
    BY DEF Pcb
  <2>2. ASSUME NEW e \in TcpQueueEntry PROVE Aged(e) \in TcpQueueEntry
    <3>1. ASSUME NEW a \in Nat, NEW b \in Nat
          PROVE [e EXCEPT !.age = a, !.idle = b] \in TcpQueueEntry
      BY DEF TcpQueueEntry
    <3>2. e.age + 1 \in Nat /\ e.idle + 1 \in Nat
      BY DEF TcpQueueEntry
    <3> QED BY <3>1, <3>2 DEF Aged
  <2>3. ASSUME NEW e \in TcpQueueEntry PROVE Resent(e) \in TcpQueueEntry
    <3>1. ASSUME NEW a \in Nat, NEW b \in Nat
          PROVE [e EXCEPT !.idle = a, !.rto = b] \in TcpQueueEntry
      BY DEF TcpQueueEntry
    <3>2. e.rto * 2 \in Nat
      BY DEF TcpQueueEntry
    <3> QED BY <3>1, <3>2 DEF Resent
  <2>4. \A i \in DOMAIN p.queue : p.queue[i] \in TcpQueueEntry
    BY <2>1
  <2>5. DOMAIN p.queue = 1..Len(p.queue) /\ Len(p.queue) \in Nat
    BY <2>1
  <2>6. AgedQueue(p) \in [1..Len(p.queue) -> TcpQueueEntry]
    BY <2>2, <2>4, <2>5 DEF AgedQueue
  <2>7. [i \in DOMAIN p.queue |-> Resent(Aged(p.queue[i]))] \in [1..Len(p.queue) -> TcpQueueEntry]
    BY <2>2, <2>3, <2>4, <2>5
  <2> QED
    BY <2>5, <2>6, <2>7
<1> DEFINE resent == [i \in DOMAIN p.queue |-> Resent(Aged(p.queue[i]))]
<1>1. AgedQueue(p) \in Seq(TcpQueueEntry) /\ resent \in Seq(TcpQueueEntry)
  BY <1>QueueTickType
<1> HIDE DEF resent
<1>2. [p EXCEPT !.state = "Closed", !.queue = AgedQueue(p)] \in Pcb
  BY <1>1 DEF Pcb, TcpState
<1>3. [p EXCEPT !.queue = resent] \in Pcb
  BY <1>1 DEF Pcb
<1>4. retrans_emit(p) \in {[p EXCEPT !.state = "Closed", !.queue = AgedQueue(p)], [p EXCEPT !.queue = resent]}
  BY DEF retrans_emit, resent
<1> QED
  BY <1>2, <1>3, <1>4 DEF SameBuffer, SameEndpoints, Pcb

\* A change of state alone keeps the type.
LEMMA StateType ==
  ASSUME NEW p \in Pcb, NEW s \in TcpState
  PROVE  /\ [p EXCEPT !.state = s] \in Pcb
         /\ SameBuffer(p, [p EXCEPT !.state = s]) /\ SameEndpoints(p, [p EXCEPT !.state = s])
         /\ [p EXCEPT !.state = s].state = s
         /\ [p EXCEPT !.state = s].snd_nxt = p.snd_nxt
BY DEF SameBuffer, SameEndpoints, Pcb

(***************************************************************************)
(* Most steps move a PCB through the states and leave its buffer, its      *)
(* window and its endpoints alone.                                         *)
(***************************************************************************)
Moves(p, q) ==
  /\ q \in Pcb /\ SameBuffer(p, q) /\ SameEndpoints(p, q)
  /\ Active(q) => Active(p)
  /\ q.state = "Listen" => p.state = "Listen"

\* Two moves of a PCB are one.
LEMMA MovesTransitive ==
  ASSUME NEW p, NEW q, NEW r, Moves(p, q), Moves(q, r) PROVE Moves(p, r)
BY DEF Moves, SameBuffer, SameEndpoints

\* A move keeps the account of the receive window.
LEMMA MovesAccounted ==
  ASSUME NEW p, NEW q, Moves(p, q), Accounted(p) PROVE Accounted(q)
BY DEF Moves, SameBuffer, Accounted

\* A transition to another state is a move, unless it enters LISTEN.
LEMMA MovesTo ==
  ASSUME NEW p \in Pcb, NEW s \in TcpState, Active(p), s # "Listen"
  PROVE  Moves(p, [p EXCEPT !.state = s])
<1>1. Active([p EXCEPT !.state = s]) => Active(p)
  OBVIOUS
<1> QED BY <1>1, StateType DEF Moves

\* retrans_queue_cleanup is a move.
LEMMA MovesCleanup ==
  ASSUME NEW p \in Pcb PROVE Moves(p, retrans_queue_cleanup(p))
BY CleanupType DEF Moves, Active

\* output, which queues what it sends, is a move.
LEMMA MovesQueued ==
  ASSUME NEW p \in Pcb, NEW flg \in SUBSET Flag, NEW data \in Seq(Byte)
  PROVE  Moves(p, Queued(p, flg, data))
BY QueuedType DEF Moves, Active

\* The transition to TIME_WAIT that starts its timer is a move.
LEMMA MovesTimeWait ==
  ASSUME NEW p \in Pcb, Active(p) PROVE Moves(p, StartTimeWait(p)) /\ Active(StartTimeWait(p))
\* Three of the operators only move the state and start the timer.
<1>TimeWaitType. /\ StartTimeWait(p) \in Pcb
                 /\ SameBuffer(p, StartTimeWait(p)) /\ SameEndpoints(p, StartTimeWait(p))
  BY TcpPcbAssumption DEF StartTimeWait, SameBuffer, SameEndpoints, Pcb, TcpState
<1>1. StartTimeWait(p).state = "TimeWait"
  BY DEF StartTimeWait, Pcb
<1> QED BY <1>1, <1>TimeWaitType DEF Moves, Active

\* An ACK that advances snd.una is a move.
LEMMA MovesUna ==
  ASSUME NEW p \in Pcb, NEW una \in SeqNo
  PROVE  Moves(p, [p EXCEPT !.snd_una = una]) /\ [p EXCEPT !.snd_una = una].state = p.state
BY DEF Moves, SameBuffer, SameEndpoints, Active, Pcb

-----------------------------------------------------------------------------
\* The fifth check of segment_arrives on a synchronised PCB is a move.
LEMMA ProcessAckMoves ==
  ASSUME NEW p \in Pcb, NEW seg \in Segment, Active(p)
  PROVE  Moves(p, ProcessAck(p, seg)) /\ Active(ProcessAck(p, seg))
\* 5th check, in the synchronized states.
<1>AckInSyncMoves. ASSUME NEW o \in Pcb, Active(o)
      PROVE  Moves(o, AckInSync(o, seg)) /\ Active(AckInSync(o, seg))
  <2> USE <1>AckInSyncMoves
  <2> DEFINE una == [o EXCEPT !.snd_una = seg.ack]
             clean == retrans_queue_cleanup(una)
             opened == [clean EXCEPT !.snd_wnd = seg.wnd, !.snd_wl1 = seg.seq, !.snd_wl2 = seg.ack]
             q == IF AckAdvances(o, seg) THEN Acked(o, seg) ELSE o
  <2>1. seg.ack \in SeqNo /\ seg.seq \in SeqNo /\ seg.wnd \in Window
    BY DEF Segment
  <2>2. Moves(o, una) /\ una \in Pcb /\ una.state = o.state
    BY <2>1, MovesUna DEF Moves
  <2> HIDE DEF una
  <2>3. Moves(o, clean) /\ clean \in Pcb /\ clean.state = o.state
    <3>1. Moves(una, clean) /\ clean \in Pcb /\ clean.state = una.state
      BY <2>2, CleanupType, MovesCleanup
    <3> QED BY <2>2, <3>1, MovesTransitive
  <2> HIDE DEF clean
  <2>4. Moves(o, opened) /\ opened.state = o.state
    <3>1. opened = [clean EXCEPT !.snd_wnd = seg.wnd, !.snd_wl1 = seg.seq, !.snd_wl2 = seg.ack]
      OBVIOUS
    <3> HIDE DEF opened
    <3>2. Moves(clean, opened) /\ opened.state = clean.state
      BY <2>1, <2>3, <3>1 DEF Moves, SameBuffer, SameEndpoints, Active, Pcb
    <3> QED BY <2>3, <3>2, MovesTransitive
  <2>5. Acked(o, seg) \in {clean, opened}
    BY DEF Acked, clean, una
  <2>6. Moves(o, o)
    BY DEF Moves, SameBuffer, SameEndpoints
  <2>7. Moves(o, q) /\ q \in Pcb /\ q.state = o.state
    BY <2>3, <2>4, <2>5, <2>6 DEF Moves
  <2>8. AckInSync(o, seg) \in {q, [q EXCEPT !.state = "FinWait2"]}
    BY DEF AckInSync
  <2> HIDE DEF q
  <2>9. Active(q)
    BY <2>7 DEF Active
  <2>10. Moves(q, [q EXCEPT !.state = "FinWait2"])
    BY <2>7, <2>9, MovesTo DEF TcpState
  <2>11. [q EXCEPT !.state = "FinWait2"].state = "FinWait2"
    BY <2>7, StateType DEF TcpState
  <2>12. Moves(o, [q EXCEPT !.state = "FinWait2"]) /\ Active([q EXCEPT !.state = "FinWait2"])
    BY <2>7, <2>10, <2>11, MovesTransitive DEF Active
  <2> QED
    BY <2>7, <2>8, <2>9, <2>12
<1> DEFINE est == [p EXCEPT !.state = "Established"]
<1>1. Moves(p, est) /\ est \in Pcb /\ Active(est)
  BY StateType, MovesTo DEF TcpState, Active
<1> HIDE DEF est
<1>2. Moves(p, AckInSync(est, seg)) /\ Active(AckInSync(est, seg))
  BY <1>1, <1>AckInSyncMoves, MovesTransitive
<1>3. Moves(p, AckInSync(p, seg)) /\ Active(AckInSync(p, seg))
  BY <1>AckInSyncMoves
<1>4. Moves(p, StartTimeWait(p)) /\ Active(StartTimeWait(p))
  BY MovesTimeWait
<1>5. Moves(p, p)
  BY DEF Moves, SameBuffer, SameEndpoints
<1>6. ProcessAck(p, seg) \in {AckInSync(est, seg), AckInSync(p, seg), StartTimeWait(p), p}
  BY DEF ProcessAck, est
<1> QED
  BY <1>2, <1>3, <1>4, <1>5, <1>6

\* 7th step: the window shrinks by what the buffer grows.
LEMMA ProcessTextAccounted ==
  ASSUME NEW p \in Pcb, NEW seg \in Segment, Active(p), Accounted(p), ~TextRefused(p, seg)
  PROVE  LET q == ProcessText(p, seg)
         IN q \in Pcb /\ Accounted(q) /\ SameEndpoints(p, q) /\ q.state = p.state
<1>1. CASE ~HasText(p, seg)
  BY <1>1 DEF ProcessText, SameEndpoints
<1>2. CASE HasText(p, seg)
  <2> DEFINE buf == p.buf \o seg.data
             nxt == Plus(seg.seq, Len(seg.data))
             wnd == p.rcv_wnd - Len(seg.data)
             q == [p EXCEPT !.buf = buf, !.rcv_nxt = nxt, !.rcv_wnd = wnd]
  <2>1. p.buf \in Seq(Byte) /\ seg.data \in Seq(Byte) /\ p.rcv_wnd \in 0..RECV_BUF_SIZE /\ seg.seq \in Int
    BY TcpPcbAssumption DEF Pcb, Segment, Window, SeqNo
  <2>2. Len(p.buf) \in Nat /\ Len(seg.data) \in Nat /\ RECV_BUF_SIZE \in Nat
    BY <2>1, TcpPcbAssumption
  <2>3. buf \in Seq(Byte) /\ Len(buf) = Len(p.buf) + Len(seg.data)
    BY <2>1
  <2>4. nxt \in SeqNo
    BY <2>1, <2>2, PlusType
  <2>5. wnd \in Window
    BY <1>2, <2>1, <2>2 DEF TextRefused, Window
  <2>6. wnd + Len(buf) = RECV_BUF_SIZE
    <3> DEFINE a == p.rcv_wnd
               b == Len(p.buf)
               c == Len(seg.data)
    <3>1. a + b = RECV_BUF_SIZE
      BY DEF Accounted
    <3>2. a \in Int /\ b \in Int /\ c \in Int /\ RECV_BUF_SIZE \in Int
      BY <2>1, <2>2
    <3>3. wnd = a - c /\ Len(buf) = b + c
      BY <2>3
    <3> HIDE DEF a, b, c, wnd, buf
    <3> QED BY <3>1, <3>2, <3>3
  <2>7. ProcessText(p, seg) = q
    BY <1>2 DEF ProcessText
  <2> HIDE DEF buf, nxt, wnd
  <2>8. q \in Pcb /\ q.state = p.state /\ q.buf = buf /\ q.rcv_wnd = wnd /\ SameEndpoints(p, q)
    BY <2>3, <2>4, <2>5 DEF Pcb, SameEndpoints
  <2> HIDE DEF q
  <2>9. Accounted(q)
    BY <2>6, <2>8 DEF Accounted, Active
  <2> QED BY <2>7, <2>8, <2>9
<1> QED BY <1>1, <1>2

\* 5th to 8th step together.
LEMMA ArrivalAccounted ==
  ASSUME NEW p \in Pcb, NEW seg \in Segment, Active(p), Accounted(p),
         NEW acked, acked = ProcessAck(p, seg), ~TextRefused(acked, seg),
         NEW done, done = ProcessFin(ProcessText(acked, seg), seg)
  PROVE  done \in Pcb /\ Accounted(done) /\ SameEndpoints(p, done) /\ Active(done)
\* 8th step.
<1>ProcessFinMoves. ASSUME NEW o \in Pcb, Active(o)
      PROVE  Moves(o, ProcessFin(o, seg)) /\ Active(ProcessFin(o, seg))
  <2> USE <1>ProcessFinMoves
  <2> DEFINE nxt == Plus(seg.seq, 1)
             q == [o EXCEPT !.rcv_nxt = nxt]
  <2>1. nxt \in SeqNo
    <3>1. seg.seq \in Int
      BY TcpPcbAssumption DEF Segment, SeqNo
    <3> QED BY <3>1, PlusType
  <2>2. ProcessFin(o, seg) \in {o, q, [q EXCEPT !.state = "CloseWait"], [q EXCEPT !.state = "Closing"],
                                StartTimeWait(q)}
    BY DEF ProcessFin
  <2> HIDE DEF nxt
  <2>3. q \in Pcb /\ q.state = o.state /\ SameBuffer(o, q) /\ SameEndpoints(o, q)
    BY <2>1 DEF Pcb, SameBuffer, SameEndpoints
  <2> HIDE DEF q
  <2>4. Moves(o, q) /\ Active(q) /\ Moves(o, o)
    BY <2>3 DEF Moves, Active, SameBuffer, SameEndpoints
  <2>5. ASSUME NEW s \in {"CloseWait", "Closing"}
        PROVE  Moves(o, [q EXCEPT !.state = s]) /\ Active([q EXCEPT !.state = s])
    <3>1. s \in TcpState
      BY DEF TcpState
    <3>2. Moves(q, [q EXCEPT !.state = s]) /\ [q EXCEPT !.state = s].state = s
      BY <2>3, <2>4, <3>1, MovesTo, StateType
    <3>3. Moves(o, [q EXCEPT !.state = s])
      BY <2>4, <3>2, MovesTransitive
    <3> QED BY <3>2, <3>3 DEF Active
  <2>6. Moves(o, StartTimeWait(q)) /\ Active(StartTimeWait(q))
    BY <2>3, <2>4, MovesTimeWait, MovesTransitive
  <2> QED BY <2>2, <2>4, <2>5, <2>6
<1>1. Moves(p, acked) /\ acked \in Pcb /\ Active(acked)
  BY ProcessAckMoves DEF Moves
<1>2. Accounted(acked)
  BY <1>1, MovesAccounted
<1> DEFINE read == ProcessText(acked, seg)
<1>3. read \in Pcb /\ Accounted(read) /\ SameEndpoints(acked, read) /\ read.state = acked.state
  BY <1>1, <1>2, ProcessTextAccounted
<1>4. done = ProcessFin(read, seg)
  OBVIOUS
<1> HIDE DEF read
<1>5. Active(read)
  BY <1>1, <1>3 DEF Active
<1>6. Moves(read, done) /\ Active(done)
  BY <1>3, <1>4, <1>5, <1>ProcessFinMoves
<1>7. Accounted(done)
  BY <1>3, <1>6, MovesAccounted
<1> QED
  BY <1>1, <1>3, <1>6, <1>7 DEF Moves, SameEndpoints
-----------------------------------------------------------------------------
\* 4th check of SYN_SENT.
LEMMA SynSentSynMoves ==
  ASSUME NEW p \in Pcb, NEW seg \in Segment, Active(p)
  PROVE  Moves(p, SynSentSyn(p, seg))
<1> DEFINE nxt == Plus(seg.seq, 1)
           q == [p EXCEPT !.rcv_nxt = nxt]
           una == [q EXCEPT !.snd_una = seg.ack]
           a == SynSentAcked(p, seg)
           est == [a EXCEPT !.state = "Established", !.snd_wnd = seg.wnd, !.snd_wl1 = seg.seq,
                            !.snd_wl2 = seg.ack]
           rcvd == [a EXCEPT !.state = "SynReceived"]
<1>1. seg.ack \in SeqNo /\ seg.seq \in SeqNo /\ seg.wnd \in Window /\ seg.seq \in Int
  BY TcpPcbAssumption DEF Segment, SeqNo
<1>2. nxt \in SeqNo
  BY <1>1, PlusType
<1>3. a \in {q, retrans_queue_cleanup(una)}
  BY DEF SynSentAcked
<1>4. SynSentSyn(p, seg) \in {est, Queued(rcvd, {"SYN", "ACK"}, <<>>)}
  BY DEF SynSentSyn
<1> HIDE DEF nxt
<1>5. q \in Pcb /\ Moves(p, q) /\ Active(q)
  BY <1>2 DEF Pcb, Moves, SameBuffer, SameEndpoints, Active
<1> HIDE DEF q
<1>6. una \in Pcb /\ Moves(p, una)
  BY <1>1, <1>5, MovesUna, MovesTransitive, Zenon DEF Moves
<1>7. Active(una)
  BY <1>1, <1>5, MovesUna DEF Active
<1> HIDE DEF una
<1>8. Moves(p, retrans_queue_cleanup(una)) /\ Active(retrans_queue_cleanup(una))
  <2>1. Moves(una, retrans_queue_cleanup(una)) /\ retrans_queue_cleanup(una).state = una.state
    BY <1>6, MovesCleanup, CleanupType
  <2> QED BY <1>6, <1>7, <2>1, MovesTransitive DEF Active
<1>9. a \in Pcb /\ Moves(p, a) /\ Active(a)
  BY <1>3, <1>5, <1>8 DEF Moves
<1> HIDE DEF a
<1>10. Moves(p, est)
  <2>1. est = [a EXCEPT !.state = "Established", !.snd_wnd = seg.wnd, !.snd_wl1 = seg.seq,
                        !.snd_wl2 = seg.ack]
    OBVIOUS
  <2> HIDE DEF est
  <2>2. Moves(a, est)
    BY <1>1, <1>9, <2>1 DEF Moves, SameBuffer, SameEndpoints, Active, Pcb, TcpState
  <2> QED BY <1>9, <2>2, MovesTransitive
<1>11. rcvd \in Pcb /\ Moves(p, rcvd)
  <2>1. Moves(a, rcvd) /\ rcvd \in Pcb
    BY <1>9, MovesTo, StateType DEF TcpState
  <2> QED BY <1>9, <2>1, MovesTransitive, Zenon
<1> HIDE DEF est, rcvd
<1>12. Moves(p, Queued(rcvd, {"SYN", "ACK"}, <<>>))
  <2>1. {"SYN", "ACK"} \in SUBSET Flag /\ <<>> \in Seq(Byte)
    BY DEF Flag
  <2>2. Moves(rcvd, Queued(rcvd, {"SYN", "ACK"}, <<>>))
    BY <1>11, <2>1, MovesQueued
  <2> QED BY <1>11, <2>2, MovesTransitive
<1> QED BY <1>4, <1>10, <1>12

\* A new connection starts with an empty buffer and the whole window, on the endpoints
\* it was given.
Starts(q, local, remote) ==
  /\ q \in Pcb
  /\ q.local = local /\ q.remote = remote
  /\ q.buf = <<>> /\ q.rcv_wnd = RECV_BUF_SIZE

\* A connection starts with the whole receive buffer free.
LEMMA StartsAccounted ==
  ASSUME NEW q, NEW local, NEW remote, Starts(q, local, remote), q.state # "Listen"
  PROVE  Accounted(q)
<1>1. Len(q.buf) = 0 /\ q.rcv_wnd \in Nat
  BY TcpPcbAssumption DEF Starts
<1> QED BY <1>1 DEF Starts, Accounted

\* The SYN that a LISTEN PCB takes starts a connection.
LEMMA SynArrivesStarts ==
  ASSUME NEW p \in Pcb, p.buf = <<>>, NEW seg \in Segment, NEW iss \in SeqNo
  PROVE  Starts(SynArrives(p, seg, iss), seg.dst, seg.src) /\ Active(SynArrives(p, seg, iss))
<1> DEFINE nxt == Plus(seg.seq, 1)
           q == [p EXCEPT !.local = seg.dst, !.remote = seg.src, !.rcv_wnd = RECV_BUF_SIZE,
                          !.rcv_nxt = nxt, !.iss = iss]
           r == Queued(q, {"SYN", "ACK"}, <<>>)
           snt == Plus(iss, 1)
           s == [r EXCEPT !.snd_nxt = snt, !.snd_una = iss, !.state = "SynReceived"]
<1>1. seg.seq \in Int /\ iss \in Int /\ seg.dst \in Endp /\ seg.src \in Endp
  BY TcpPcbAssumption DEF Segment, SeqNo
<1>2. nxt \in SeqNo /\ snt \in SeqNo
  BY <1>1, PlusType
<1>3. RECV_BUF_SIZE \in Window
  BY TcpPcbAssumption DEF Window
<1>4. SynArrives(p, seg, iss) = s
  BY DEF SynArrives
<1> HIDE DEF nxt, snt
<1>5. Starts(q, seg.dst, seg.src)
  BY <1>1, <1>2, <1>3 DEF Starts, Pcb
<1> HIDE DEF q
<1>6. {"SYN", "ACK"} \in SUBSET Flag /\ <<>> \in Seq(Byte)
  BY DEF Flag
<1>7. Starts(r, seg.dst, seg.src)
  BY <1>5, <1>6, QueuedType DEF Starts, SameBuffer, SameEndpoints
<1> HIDE DEF r
<1>8. Starts(s, seg.dst, seg.src) /\ s.state = "SynReceived"
  BY <1>2, <1>7 DEF Starts, Pcb, TcpState
<1> QED BY <1>4, <1>8 DEF Active

\* connect and open start a connection.
LEMMA SynSentStarts ==
  ASSUME NEW p \in Pcb, p.buf = <<>>, NEW local \in Endp, NEW remote \in Endp, NEW iss \in SeqNo
  PROVE  Starts(SynSent(p, local, remote, iss), local, remote)
<1> DEFINE q == [p EXCEPT !.local = local, !.remote = remote, !.rcv_wnd = RECV_BUF_SIZE, !.iss = iss]
<1>1. RECV_BUF_SIZE \in Window
  BY TcpPcbAssumption DEF Window
<1>2. Starts(q, local, remote)
  BY <1>1 DEF Starts, Pcb
<1>3. SynSent(p, local, remote, iss) = Queued(q, {"SYN"}, <<>>)
  BY DEF SynSent
<1> HIDE DEF q
<1>4. {"SYN"} \in SUBSET Flag /\ <<>> \in Seq(Byte)
  BY DEF Flag
<1> DEFINE r == Queued(q, {"SYN"}, <<>>)
<1>5. r \in Pcb /\ SameBuffer(q, r) /\ SameEndpoints(q, r)
  BY <1>2, <1>4, QueuedType DEF Starts
<1> HIDE DEF r
<1>6. Starts(r, local, remote)
  BY <1>2, <1>5 DEF Starts, SameBuffer, SameEndpoints
<1> QED BY <1>3, <1>6 DEF r
-----------------------------------------------------------------------------
(***************************************************************************)
(* The table of one host: well typed, every window accounted for, and no   *)
(* two PCBs on the same connection.                                        *)
(***************************************************************************)
TabOK(tab) ==
  /\ tab \in [Desc -> Pcb \cup {NoPcb}]
  /\ \A d \in Live(tab) : Accounted(tab[d])
  /\ \A c, d \in Live(tab) :
       Active(tab[c]) /\ Active(tab[d]) /\ SameEndpoints(tab[c], tab[d]) => c = d

\* q may take slot d: it is no connection, or one that no other PCB is.
Fits(tab, d, q) ==
  /\ q \in Pcb /\ Accounted(q)
  /\ Active(q) => \A e \in Live(tab) \ {d} : ~(Active(tab[e]) /\ SameEndpoints(tab[e], q))

\* What the slots of a good table hold.
LEMMA LivePcbs ==
  ASSUME NEW tab, TabOK(tab), NEW d \in Live(tab)
  PROVE  d \in Desc /\ tab[d] \in Pcb /\ Accounted(tab[d])
BY DEF TabOK, Live

\* A PCB that fits can be put into a slot.
LEMMA TabPut ==
  ASSUME NEW tab, TabOK(tab), NEW d \in Desc, NEW q, Fits(tab, d, q)
  PROVE  TabOK([tab EXCEPT ![d] = q]) /\ Live([tab EXCEPT ![d] = q]) = Live(tab) \cup {d}
<1> DEFINE new == [tab EXCEPT ![d] = q]
<1>1. q \in Pcb /\ q # NoPcb /\ Accounted(q)
  BY TcpPcbAssumption DEF Fits
<1>2. new \in [Desc -> Pcb \cup {NoPcb}] /\ new[d] = q /\ \A e \in Desc \ {d} : new[e] = tab[e]
  BY <1>1 DEF TabOK
<1> HIDE DEF new
<1>3. Live(new) = Live(tab) \cup {d}
  BY <1>1, <1>2 DEF Live
<1>4. \A e \in Live(new) : e # d => e \in Live(tab) /\ new[e] = tab[e]
  BY <1>2, <1>3 DEF Live
<1>5. \A e \in Live(new) : Accounted(new[e])
  BY <1>1, <1>2, <1>4 DEF TabOK
<1>6. ASSUME NEW a \in Live(new), NEW b \in Live(new), Active(new[a]), Active(new[b]),
             SameEndpoints(new[a], new[b])
      PROVE  a = b
  <2>1. CASE a # d /\ b # d
    BY <1>4, <1>6, <2>1 DEF TabOK
  <2>2. CASE a # d /\ b = d
    BY <1>2, <1>4, <1>6, <2>2 DEF Fits
  <2>3. CASE a = d /\ b # d
    BY <1>2, <1>4, <1>6, <2>3 DEF Fits, SameEndpoints
  <2> QED BY <2>1, <2>2, <2>3
<1>7. TabOK(new)
  BY <1>2, <1>5, <1>6 DEF TabOK
<1> QED BY <1>3, <1>7 DEF new

\* A step that creates no PCB and turns none into a connection.
LEMMA TabMap ==
  ASSUME NEW tab, TabOK(tab), NEW new \in [Desc -> Pcb \cup {NoPcb}],
         \A d \in Live(new) : /\ d \in Live(tab) /\ Accounted(new[d])
                              /\ SameEndpoints(tab[d], new[d])
                              /\ Active(new[d]) => Active(tab[d])
  PROVE  TabOK(new)
BY DEF TabOK, SameEndpoints

\* The successor of a PCB fits where the PCB was.
LEMMA MovesFits ==
  ASSUME NEW tab, TabOK(tab), NEW d \in Live(tab), NEW q \in Pcb, Accounted(q),
         SameEndpoints(tab[d], q), Active(q) => Active(tab[d])
  PROVE  Fits(tab, d, q)
BY DEF TabOK, Fits, SameEndpoints

\* pcb_release keeps a table good.
LEMMA TabWithout ==
  ASSUME NEW tab, TabOK(tab), NEW gone
  PROVE  TabOK(Without(tab, gone)) /\ Live(Without(tab, gone)) = Live(tab) \ gone
<1> DEFINE new == Without(tab, gone)
<1>1. new \in [Desc -> Pcb \cup {NoPcb}]
  BY DEF Without, TabOK
<1>2. Live(new) = Live(tab) \ gone /\ \A d \in Live(new) : new[d] = tab[d]
  BY DEF Without, Live, TabOK
<1>3. TabOK(new)
  <2> HIDE DEF new
  <2> QED BY <1>1, <1>2, TabMap DEF TabOK, SameEndpoints
<1> QED BY <1>2, <1>3

\* TcpPcb::empty is a closed PCB with nothing in it.
LEMMA EmptyPcbType == EmptyPcb \in Pcb /\ ~Active(EmptyPcb) /\ EmptyPcb.buf = <<>> /\ EmptyPcb.state = "Closed"
<1>1. AnyEndp \in Endp /\ 0 \in SeqNo /\ 0 \in Window /\ 0 \in Nat /\ NoDesc \in Desc \cup {NoDesc}
  BY TcpPcbAssumption DEF AnyEndp, Endp, SeqNo, Window
<1>2. <<>> \in Seq(Byte) /\ <<>> \in Seq(Desc) /\ <<>> \in Seq(TcpQueueEntry)
  OBVIOUS
<1> QED BY <1>1, <1>2 DEF EmptyPcb, Pcb, TcpState, Active
-----------------------------------------------------------------------------
(***************************************************************************)
(* The retransmission queue holds what is not acknowledged.                *)
(***************************************************************************)
Covers(queue, n) == \E i \in DOMAIN queue : queue[i].seq <= n /\ n < EntryEnd(queue[i])

\* UnackedIsQueued for one PCB, during the handshake too: what makes it inductive.
Covered(p) == Active(p) => \A n \in p.snd_una..(p.snd_nxt - 1) : Covers(p.queue, n)

\* q sends from where p does.
SameSend(p, q) == q.snd_una = p.snd_una /\ q.snd_nxt = p.snd_nxt /\ q.queue = p.queue

\* What output() leaves in the queue covers what it sends, and what was covered stays so.
LEMMA QueuedCovers ==
  ASSUME NEW p \in Pcb, NEW flg \in SUBSET Flag, NEW data \in Seq(Byte), NEW n
  PROVE  LET q == Queued(p, flg, data)
             len == Len(data) + IF flg \cap {"SYN", "FIN"} # {} THEN 1 ELSE 0
         IN /\ q.snd_una = p.snd_una /\ q.snd_nxt = p.snd_nxt /\ q.iss = p.iss /\ q.state = p.state
            /\ Covers(p.queue, n) => Covers(q.queue, n)
            /\ /\ flg \cap {"SYN", "FIN"} # {} \/ data # <<>>
               /\ OutputSeq(p, flg) <= n /\ n < Plus(OutputSeq(p, flg), len)
               => Covers(q.queue, n)
<1> DEFINE e == [seq |-> OutputSeq(p, flg), flg |-> flg, data |-> data,
                 age |-> 0, idle |-> 0, rto |-> TCP_DEFAULT_RTO]
           q == Queued(p, flg, data)
           keeps == flg \cap {"SYN", "FIN"} # {} \/ data # <<>>
<1>1. p.queue \in Seq(TcpQueueEntry) /\ e \in TcpQueueEntry
  BY TcpPcbAssumption DEF TcpQueueEntry, OutputSeq, Pcb
<1>2. /\ q.snd_una = p.snd_una /\ q.snd_nxt = p.snd_nxt /\ q.iss = p.iss /\ q.state = p.state
      /\ q.queue = IF keeps THEN Append(p.queue, e) ELSE p.queue
  BY DEF Queued, Pcb
<1>3. EntryEnd(e) = Plus(OutputSeq(p, flg), Len(data) + IF flg \cap {"SYN", "FIN"} # {} THEN 1 ELSE 0)
  BY DEF EntryEnd
<1>4. e.seq = OutputSeq(p, flg)
  OBVIOUS
<1> HIDE DEF e, q
<1>5. /\ DOMAIN Append(p.queue, e) = 1..(Len(p.queue) + 1) /\ DOMAIN p.queue = 1..Len(p.queue)
      /\ \A i \in DOMAIN p.queue : Append(p.queue, e)[i] = p.queue[i]
      /\ Append(p.queue, e)[Len(p.queue) + 1] = e /\ Len(p.queue) \in Nat
  BY <1>1
<1>6. Covers(p.queue, n) => Covers(q.queue, n)
  <2>1. Covers(p.queue, n) => Covers(Append(p.queue, e), n)
    BY <1>5 DEF Covers
  <2> QED BY <1>2, <2>1
<1>7. keeps /\ e.seq <= n /\ n < EntryEnd(e) => Covers(q.queue, n)
  <2>1. Len(p.queue) + 1 \in DOMAIN Append(p.queue, e)
    BY <1>5
  <2> QED BY <1>2, <1>5, <2>1 DEF Covers
<1> HIDE DEF keeps
<1>8. keeps /\ OutputSeq(p, flg) <= n
        /\ n < Plus(OutputSeq(p, flg), Len(data) + IF flg \cap {"SYN", "FIN"} # {} THEN 1 ELSE 0)
        => Covers(q.queue, n)
  BY <1>3, <1>4, <1>7, Zenon
<1> QED BY <1>2, <1>6, <1>8 DEF q, keeps

\* A connection that just sent its SYN: everything from iss up to snd.nxt is that SYN.
LEMMA SynCovered ==
  ASSUME NEW p \in Pcb, NEW flg \in SUBSET Flag, "SYN" \in flg, NEW q,
         q.queue = Queued(p, flg, <<>>).queue, q.snd_una = p.iss, q.snd_nxt = Plus(p.iss, 1)
  PROVE  Covered(q)
<1> SUFFICES ASSUME NEW n \in p.iss..(Plus(p.iss, 1) - 1) PROVE Covers(q.queue, n)
  BY DEF Covered
<1>1. flg \cap {"SYN", "FIN"} # {} /\ OutputSeq(p, flg) = p.iss /\ <<>> \in Seq(Byte) /\ Len(<<>>) = 0
  BY DEF OutputSeq
<1>2. p.iss \in Int /\ Plus(p.iss, 1) \in Int
  BY PlusType, TcpPcbAssumption DEF Pcb, SeqNo
<1>3. p.iss <= n /\ n < Plus(p.iss, 1)
  BY <1>2
<1>4. n < Plus(OutputSeq(p, flg), Len(<<>>) + IF flg \cap {"SYN", "FIN"} # {} THEN 1 ELSE 0)
  BY <1>1, <1>3
<1> QED BY <1>1, <1>3, <1>4, QueuedCovers

\* An ACK that does not move snd.una back.
LEMMA AckCovered ==
  ASSUME NEW p \in Pcb, Active(p), Covered(p), NEW ack \in SeqNo, p.snd_una <= ack
  PROVE  LET q == retrans_queue_cleanup([p EXCEPT !.snd_una = ack])
         IN q.snd_una = ack /\ q.snd_nxt = p.snd_nxt /\ q.iss = p.iss /\ Covered(q)
\* The acknowledged entries that leave are of no use to what is not acknowledged.
<1>CleanupCovers. ASSUME NEW o \in Pcb, NEW n \in Int, o.snd_una <= n, Covers(o.queue, n)
      PROVE  Covers(retrans_queue_cleanup(o).queue, n)
  <2> USE <1>CleanupCovers
  \* The end of a queue entry is a sequence number.
  <2>EntryEndType. ASSUME NEW e \in TcpQueueEntry PROVE EntryEnd(e) \in SeqNo
    <3> USE <2>EntryEndType
    <3>1. e.seq \in Int /\ Len(e.data) \in Int
      BY TcpPcbAssumption DEF TcpQueueEntry, SeqNo
    <3>2. Len(e.data) + (IF e.flg \cap {"SYN", "FIN"} # {} THEN 1 ELSE 0) \in Int
      BY <3>1
    <3> QED BY <3>1, <3>2, PlusType DEF EntryEnd
  <2> DEFINE q == o.queue
             kept == {i \in DOMAIN q : o.snd_una < EntryEnd(q[i])}
             rest == IF kept = {} THEN <<>> ELSE SubSeq(q, Min(kept), Len(q))
  <2>1. q \in Seq(TcpQueueEntry) /\ Len(q) \in Nat /\ DOMAIN q = 1..Len(q) /\ o.snd_una \in Int
    BY TcpPcbAssumption DEF Pcb, SeqNo
  <2>2. PICK i \in DOMAIN q : q[i].seq <= n /\ n < EntryEnd(q[i])
    BY DEF Covers
  <2>3. retrans_queue_cleanup(o).queue = rest
    BY DEF retrans_queue_cleanup, Pcb
  <2>4. EntryEnd(q[i]) \in Int
    <3>1. EntryEnd(q[i]) \in SeqNo
      BY <2>1, <2>EntryEndType
    <3> QED BY <3>1, TcpPcbAssumption DEF SeqNo
  <2>5. i \in kept
    BY <2>1, <2>2, <2>4
  <2>6. kept \in SUBSET Nat
    BY <2>1
  <2> DEFINE m == Min(kept)
  <2>7. m \in kept /\ m <= i
    <3> HIDE DEF kept
    <3> QED BY <2>5, <2>6, MinProperties
  <2>8. m \in 1..Len(q) /\ i \in 1..Len(q) /\ m <= i
    BY <2>1, <2>2, <2>7
  <2>9. rest = SubSeq(q, m, Len(q))
    BY <2>5
  <2> HIDE DEF m, kept, rest, q
  <2>10. i - m + 1 \in 1..Len(rest) /\ rest[i - m + 1] = q[i] /\ DOMAIN rest = 1..Len(rest)
    <3>1. Len(rest) = Len(q) - m + 1 /\ rest \in Seq(TcpQueueEntry)
      BY <2>1, <2>8, <2>9
    <3>2. i - m + 1 \in 1..Len(rest)
      BY <2>1, <2>8, <3>1
    <3>3. rest[i - m + 1] = q[m + (i - m + 1) - 1]
      BY <2>1, <2>8, <2>9, <3>1, <3>2
    <3>4. m + (i - m + 1) - 1 = i
      BY <2>8
    <3> QED BY <3>1, <3>2, <3>3, <3>4
  <2> QED BY <2>2, <2>3, <2>10 DEF Covers
<1> DEFINE r == [p EXCEPT !.snd_una = ack]
           q == retrans_queue_cleanup(r)
<1>1. r \in Pcb /\ r.snd_una = ack /\ r.snd_nxt = p.snd_nxt /\ r.iss = p.iss /\ r.queue = p.queue
  BY DEF Pcb
<1> HIDE DEF r
<1>2. q.snd_una = ack /\ q.snd_nxt = p.snd_nxt /\ q.iss = p.iss
  BY <1>1 DEF retrans_queue_cleanup, Pcb
<1>3. ASSUME NEW n \in ack..(p.snd_nxt - 1) PROVE Covers(q.queue, n)
  <2>1. n \in p.snd_una..(p.snd_nxt - 1) /\ ack <= n /\ n \in Int
    BY TcpPcbAssumption DEF Pcb, SeqNo
  <2>2. Covers(r.queue, n)
    BY <1>1, <2>1 DEF Covered
  <2> QED BY <1>1, <2>1, <2>2, <1>CleanupCovers
<1> HIDE DEF q
<1>4. Covered(q)
  BY <1>2, <1>3 DEF Covered
<1> QED BY <1>2, <1>4 DEF q, r

\* Steps that send nothing new and acknowledge nothing.
LEMMA SameSendCovered ==
  ASSUME NEW p, NEW q, SameSend(p, q), Covered(p), Active(q) => Active(p) PROVE Covered(q)
BY DEF SameSend, Covered

\* The SYN that SYN_SENT waits for.
LEMMA SynSentSynCovered ==
  ASSUME NEW p \in Pcb, NEW seg \in Segment, Active(p), Covered(p)
  PROVE  Covered(SynSentSyn(p, seg))
<1> DEFINE nxt == Plus(seg.seq, 1)
           q == [p EXCEPT !.rcv_nxt = nxt]
           a == SynSentAcked(p, seg)
           est == [a EXCEPT !.state = "Established", !.snd_wnd = seg.wnd, !.snd_wl1 = seg.seq,
                            !.snd_wl2 = seg.ack]
           rcvd == [a EXCEPT !.state = "SynReceived"]
           fin == Queued(rcvd, {"SYN", "ACK"}, <<>>)
<1>1. seg.ack \in SeqNo /\ seg.seq \in SeqNo /\ seg.wnd \in Window /\ seg.seq \in Int
  BY TcpPcbAssumption DEF Segment, SeqNo
<1>2. nxt \in SeqNo
  BY <1>1, PlusType
<1>3. a = IF SynSentAcceptable(p, seg) THEN retrans_queue_cleanup([q EXCEPT !.snd_una = seg.ack]) ELSE q
  BY DEF SynSentAcked
<1>4. SynSentSyn(p, seg) \in {est, fin}
  BY DEF SynSentSyn
<1> HIDE DEF nxt
<1>5. q \in Pcb /\ SameSend(p, q) /\ q.state = p.state
  BY <1>2 DEF Pcb, SameSend
<1>6. Covered(q) /\ Active(q)
  BY <1>5, SameSendCovered DEF Active
<1>7. SynSentAcceptable(p, seg) => q.snd_una <= seg.ack
  BY <1>5 DEF SynSentAcceptable, SameSend
<1> HIDE DEF q
<1>8. a \in Pcb /\ Covered(a) /\ Active(a)
  <2>1. [q EXCEPT !.snd_una = seg.ack] \in Pcb /\ [q EXCEPT !.snd_una = seg.ack].state = q.state
    BY <1>1, <1>5, MovesUna DEF Moves
  <2>2. LET c == retrans_queue_cleanup([q EXCEPT !.snd_una = seg.ack])
        IN c \in Pcb /\ Active(c)
    BY <1>6, <2>1, CleanupType DEF Active
  <2>3. SynSentAcceptable(p, seg) => Covered(retrans_queue_cleanup([q EXCEPT !.snd_una = seg.ack]))
    BY <1>1, <1>5, <1>6, <1>7, AckCovered
  <2> QED BY <1>3, <1>5, <1>6, <2>2, <2>3
<1> HIDE DEF a
<1>9. SameSend(a, est) /\ SameSend(a, rcvd) /\ rcvd \in Pcb
  BY <1>1, <1>8 DEF SameSend, Pcb, TcpState
<1>10. Covered(est) /\ Covered(rcvd) /\ Active(rcvd)
  <2>1. rcvd.state = "SynReceived"
    BY <1>8 DEF Pcb
  <2> HIDE DEF est, rcvd
  <2> QED BY <1>8, <1>9, <2>1, SameSendCovered DEF Active
<1> HIDE DEF est, rcvd
<1>11. Covered(fin)
  <2>1. {"SYN", "ACK"} \in SUBSET Flag /\ <<>> \in Seq(Byte)
    BY DEF Flag
  <2>2. /\ fin.snd_una = rcvd.snd_una /\ fin.snd_nxt = rcvd.snd_nxt
        /\ \A n : Covers(rcvd.queue, n) => Covers(fin.queue, n)
    BY <1>9, <2>1, QueuedCovers, Zenon
  <2> HIDE DEF fin
  <2> QED BY <1>10, <2>2 DEF Covered
<1> QED BY <1>4, <1>10, <1>11

\* A tick changes when an entry is sent again, not what it holds.
LEMMA ResentKeeps ==
  ASSUME NEW e \in TcpQueueEntry
  PROVE  LET r == Resent(Aged(e)) IN r.seq = e.seq /\ r.flg = e.flg /\ r.data = e.data
<1> DEFINE a == Aged(e)
           age == e.age + 1
           idle == e.idle + 1
           rto == a.rto * 2
           r == Resent(a)
<1>1. a \in {e, [e EXCEPT !.age = age, !.idle = idle]}
  BY DEF Aged
<1>2. r \in {a, [a EXCEPT !.idle = 0, !.rto = rto]}
  BY DEF Resent
<1> HIDE DEF age, idle
<1>3. a.seq = e.seq /\ a.flg = e.flg /\ a.data = e.data /\ a = [k \in DOMAIN a |-> a[k]] /\ DOMAIN a = DOMAIN e
  <2> HIDE DEF a
  <2> QED BY <1>1 DEF TcpQueueEntry
<1> HIDE DEF a, rto, r
<1>4. r.seq = a.seq /\ r.flg = a.flg /\ r.data = a.data
  BY <1>2, <1>3 DEF TcpQueueEntry
<1> QED BY <1>3, <1>4 DEF a, r

-----------------------------------------------------------------------------
(***************************************************************************)
(* What is sent.                                                           *)
(***************************************************************************)
\* join is what the recursion of Joined yields for the first n sequences of ss.
Joins(join, ss, n) == join = [k \in 0..n |-> IF k = 0 THEN <<>> ELSE join[k - 1] \o ss[k]]

\* Joined yields a sequence of what the joined sequences are made of.
LEMMA JoinedType ==
  ASSUME NEW S, NEW ss \in Seq(Seq(S)) PROVE Joined(ss) \in Seq(S)
\* The recursion of Joined has a solution.
<1>JoinExists. \A n \in 0..Len(ss) : \E join \in [0..n -> Seq(S)] : Joins(join, ss, n)
  <2> DEFINE P(n, join) == join \in [0..n -> Seq(S)] /\ Joins(join, ss, n)
             Bad == {n \in 0..Len(ss) : ~\E join : P(n, join)}
  <2>1. SUFFICES ASSUME Bad # {} PROVE FALSE
    BY Zenon
  <2>2. Len(ss) \in Nat
    OBVIOUS
  <2>3. Bad \in SUBSET Nat
    <3> HIDE DEF P
    <3> QED BY <2>2
  <2>4. PICK n \in Bad : \A m \in Bad : ~(<<m, n>> \in OpToRel(<, Nat))
    <3> HIDE DEF Bad
    <3> QED BY <2>1, <2>3, WFMin, NatLessThanWellFounded
  <2>5. n \in 0..Len(ss) /\ ~\E join : P(n, join)
    BY Zenon
  <2>6. CASE n = 0
    <3>1. P(0, [k \in 0..0 |-> <<>>])
      BY DEF Joins
    <3> QED BY <3>1, <2>5, <2>6, Zenon
  <2>7. CASE n # 0
    <3>1. n - 1 \in 0..Len(ss) /\ n \in Nat /\ n - 1 \in Nat /\ n - 1 < n
      BY <2>2, <2>5, <2>7
    <3>2. <<n - 1, n>> \in OpToRel(<, Nat)
      BY <3>1 DEF OpToRel
    <3>3. n - 1 \notin Bad
      BY <2>4, <3>2, Zenon
    <3>4. PICK g : P(n - 1, g)
      BY <3>3, <3>1, Zenon
    <3> DEFINE e == g[n - 1] \o ss[n]
               join == [k \in 0..n |-> IF k = n THEN e ELSE g[k]]
    <3>5. e \in Seq(S)
      <4>1. ss[n] \in Seq(S)
        BY <2>2, <2>5, <2>7
      <4>2. g[n - 1] \in Seq(S)
        BY <3>4, <3>1
      <4> QED BY <4>1, <4>2
    <3>6. join \in [0..n -> Seq(S)]
      <4> HIDE DEF e
      <4>1. \A k \in 0..n : k # n => k \in 0..(n - 1)
        BY <3>1
      <4>2. \A k \in 0..(n - 1) : g[k] \in Seq(S)
        BY <3>4
      <4> QED BY <3>5, <4>1, <4>2, Zenon
    <3>7. \A k \in 0..n : join[k] = IF k = 0 THEN <<>> ELSE join[k - 1] \o ss[k]
      <4> TAKE k \in 0..n
      <4>1. CASE k = n
        <5>1. k - 1 \in 0..n /\ k - 1 # n
          BY <4>1, <3>1
        <5> QED BY <5>1, <4>1, <2>7
      <4>2. CASE k # n
        <5>1. k \in 0..(n - 1) /\ join[k] = g[k]
          BY <4>2, <3>1
        <5>2. k # 0 => join[k - 1] = g[k - 1]
          BY <5>1, <3>1
        <5>3. g[k] = IF k = 0 THEN <<>> ELSE g[k - 1] \o ss[k]
          BY <3>4, <5>1 DEF Joins
        <5> QED BY <5>1, <5>2, <5>3
      <4> QED BY <4>1, <4>2
    <3>8. P(n, join)
      <4>1. join = [k \in 0..n |-> join[k]]
        BY <3>6
      <4> HIDE DEF join
      <4> QED BY <3>6, <3>7, <4>1 DEF Joins
    <3> QED BY <3>8, <2>5, Zenon
  <2> QED BY <2>6, <2>7
<1> DEFINE f == CHOOSE join : Joins(join, ss, Len(ss))
<1>1. Len(ss) \in Nat /\ Len(ss) \in 0..Len(ss)
  OBVIOUS
<1>2. \E join \in [0..Len(ss) -> Seq(S)] : Joins(join, ss, Len(ss))
  BY <1>1, <1>JoinExists
<1>3. f = [k \in 0..Len(ss) |-> IF k = 0 THEN <<>> ELSE f[k - 1] \o ss[k]]
  <2>1. Joins(f, ss, Len(ss))
    BY <1>2, Zenon
  <2> HIDE DEF f
  <2> QED BY <2>1 DEF Joins
<1>4. Joined(ss) = f[Len(ss)]
  BY DEF Joined, Joins
<1> HIDE DEF f
<1> DEFINE Bad == {k \in 0..Len(ss) : f[k] \notin Seq(S)}
<1>5. ASSUME Bad # {} PROVE FALSE
  <2>1. Bad \in SUBSET Nat
    BY <1>1
  <2>2. PICK n \in Bad : \A m \in Bad : ~(<<m, n>> \in OpToRel(<, Nat))
    <3> HIDE DEF Bad
    <3> QED BY <1>5, <2>1, WFMin, NatLessThanWellFounded
  <2>3. n \in 0..Len(ss) /\ n \in Nat
    BY <1>1
  <2>4. f[n] = IF n = 0 THEN <<>> ELSE f[n - 1] \o ss[n]
    BY <1>3, <2>3
  <2>5. CASE n = 0
    <3>1. f[n] = <<>> /\ <<>> \in Seq(S)
      BY <2>4, <2>5
    <3> QED BY <3>1, Zenon
  <2>6. CASE n # 0
    <3>1. n - 1 \in 0..Len(ss) /\ n - 1 \in Nat /\ n - 1 < n /\ ss[n] \in Seq(S)
      BY <1>1, <2>3, <2>6
    <3>2. <<n - 1, n>> \in OpToRel(<, Nat)
      BY <2>3, <3>1 DEF OpToRel
    <3>3. n - 1 \notin Bad
      BY <2>2, <3>2, Zenon
    <3>4. f[n - 1] \in Seq(S)
      BY <3>1, <3>3, Zenon
    <3>5. f[n] \in Seq(S)
      BY <2>4, <2>6, <3>1, <3>4
    <3> QED BY <3>5
  <2> QED BY <2>5, <2>6
<1> QED BY <1>1, <1>4, <1>5

\* output() builds a segment.
LEMMA OutputType ==
  ASSUME NEW p \in Pcb, NEW flg \in SUBSET Flag, NEW data \in Seq(Byte)
  PROVE  Output(p, flg, data) \in Segment
<1>1. /\ OutputSeq(p, flg) \in SeqNo /\ p.rcv_nxt \in SeqNo /\ p.rcv_wnd \in Window
      /\ p.local \in Endp /\ p.remote \in Endp
  BY DEF OutputSeq, Pcb
<1> QED BY <1>1, Zenon DEF Output, OutputSegment, Segment

\* The RST that segment_arrives answers with is a segment.
LEMMA ResetReplyType == ASSUME NEW seg \in Segment PROVE ResetReply(seg) \in Segment
<1>1. /\ seg.ack \in SeqNo /\ seg.src \in Endp /\ seg.dst \in Endp /\ 0 \in SeqNo /\ 0 \in Window
      /\ {"RST"} \in SUBSET Flag /\ {"RST", "ACK"} \in SUBSET Flag /\ <<>> \in Seq(Byte)
  BY TcpPcbAssumption DEF Segment, SeqNo, Window, Flag
<1>2. Plus(seg.seq, SegLen(seg)) \in SeqNo
  <2>1. seg.seq \in Int /\ Len(seg.data) \in Int
    BY TcpPcbAssumption DEF Segment, SeqNo
  <2>2. SegLen(seg) \in Int
    BY <2>1 DEF SegLen
  <2> QED BY <2>1, <2>2, PlusType
<1> QED BY <1>1, <1>2, Zenon DEF ResetReply, OutputSegment, Segment

\* A loop over the table sends what its rounds send.
LEMMA ForEachDescType ==
  ASSUME NEW S, NEW f, \A d \in Desc : f[d] \in Seq(S) PROVE ForEachDesc(f) \in Seq(S)
<1> DEFINE ss == [n \in 1..PCB_SIZE_MAX |-> f[n - 1]]
<1>1. \A n \in 1..PCB_SIZE_MAX : n - 1 \in Desc
  BY TcpPcbAssumption DEF Desc
<1>2. ss \in [1..PCB_SIZE_MAX -> Seq(S)]
  BY <1>1
<1>3. ForEachDesc(f) = Joined(ss)
  BY DEF ForEachDesc
<1>4. PCB_SIZE_MAX \in Nat
  BY TcpPcbAssumption
<1> HIDE DEF ss
<1>5. ss \in Seq(Seq(S))
  BY <1>2, <1>4
<1> QED BY <1>3, <1>5, JoinedType

\* retrans_emit sends entries of the queue again.
LEMMA RetransType ==
  ASSUME NEW p \in Pcb, NEW S,
         \A i \in DOMAIN p.queue :
           LET e == p.queue[i]
           IN OutputSegment(e.seq, p.rcv_nxt, e.flg, p.rcv_wnd, e.data, p.local, p.remote) \in S
  PROVE  RetransSegments(p) \in Seq(S)
<1> DEFINE again(e) == OutputSegment(e.seq, p.rcv_nxt, e.flg, p.rcv_wnd, e.data, p.local, p.remote)
           ss == [i \in DOMAIN p.queue |-> IF Due(Aged(p.queue[i])) THEN <<again(Aged(p.queue[i]))>> ELSE <<>>]
<1>1. p.queue \in Seq(TcpQueueEntry) /\ DOMAIN p.queue = 1..Len(p.queue) /\ Len(p.queue) \in Nat
  BY DEF Pcb
<1>2. ASSUME NEW i \in DOMAIN p.queue PROVE again(Aged(p.queue[i])) \in S
  <2> DEFINE e == p.queue[i]
  <2>1. e \in TcpQueueEntry
    BY <1>1
  <2>2. Aged(e).seq = e.seq /\ Aged(e).flg = e.flg /\ Aged(e).data = e.data
    BY <2>1 DEF Aged, TcpQueueEntry
  <2> QED BY <2>2
<1> HIDE DEF again
<1>3. ss \in [1..Len(p.queue) -> Seq(S)]
  BY <1>1, <1>2
<1>4. ss \in Seq(Seq(S))
  BY <1>1, <1>3
<1>5. RetransSegments(p) = IF DeadlineExceeded(p) THEN <<>> ELSE Joined(ss)
  BY DEF RetransSegments, again
<1> HIDE DEF ss
<1>6. Joined(ss) \in Seq(S)
  BY <1>4, JoinedType
<1> QED BY <1>5, <1>6

\* pcb_release sends no more than a RST for every connection it finds in a backlog.
LEMMA ReleaseResetsType ==
  ASSUME NEW tab, NEW d, NEW S, \A c \in Live(tab) : Output(tab[c], {"RST"}, <<>>) \in S
  PROVE  ReleaseResets(tab, d) \in Seq(S)
<1> DEFINE open == {c \in TornDown(tab, d) \ {d} : tab[c].state # "Closed"}
           f == [c \in Desc |-> IF c \in open THEN <<Output(tab[c], {"RST"}, <<>>)>> ELSE <<>>]
<1>1. open \subseteq Live(tab)
  BY DEF TornDown
<1>2. ReleaseResets(tab, d) = ForEachDesc(f)
  BY DEF ReleaseResets
<1> HIDE DEF open
<1>3. \A c \in Desc : f[c] \in Seq(S)
  BY <1>1
<1> HIDE DEF f
<1> QED BY <1>2, <1>3, ForEachDescType

\* The FIN of close moves the PCB.
LEMMA FinSentMoves ==
  ASSUME NEW p \in Pcb, Active(p), NEW s \in {"FinWait1", "LastAck"}
  PROVE  Moves(p, FinSent(p, s))
<1> DEFINE q == Queued(p, {"ACK", "FIN"}, <<>>)
           nxt == Plus(q.snd_nxt, 1)
           r == [q EXCEPT !.snd_nxt = nxt, !.state = s]
<1>1. {"ACK", "FIN"} \in SUBSET Flag /\ <<>> \in Seq(Byte)
  BY DEF Flag
<1>2. Moves(p, q) /\ q \in Pcb
  BY <1>1, MovesQueued DEF Moves
<1>3. FinSent(p, s) = r
  BY DEF FinSent
<1> HIDE DEF q
<1>4. nxt \in SeqNo
  <2>1. q.snd_nxt \in Int
    BY <1>2, TcpPcbAssumption DEF Pcb, SeqNo
  <2> QED BY <2>1, PlusType
<1> HIDE DEF nxt
<1>5. r \in Pcb /\ SameBuffer(q, r) /\ SameEndpoints(q, r) /\ r.state = s
  BY <1>2, <1>4 DEF Pcb, TcpState, SameBuffer, SameEndpoints
<1> HIDE DEF r
<1> QED BY <1>2, <1>3, <1>5 DEF Moves, SameBuffer, SameEndpoints

\* The room that send computes from the window is a number.
LEMMA CapacityType == ASSUME NEW p \in Pcb PROVE Capacity(p) \in Nat
<1> DEFINE flight == (p.snd_nxt - p.snd_una) % SeqMod
<1>1. p.snd_nxt \in Int /\ p.snd_una \in Int /\ p.snd_wnd \in Nat
  BY TcpPcbAssumption DEF Pcb, SeqNo, Window
<1>2. flight \in Nat
  <2>1. p.snd_nxt - p.snd_una \in Int
    BY <1>1
  <2> DEFINE k == p.snd_nxt - p.snd_una
  <2>2. k \in Int
    BY <2>1
  <2> HIDE DEF k
  <2>3. k % SeqMod \in Nat
    BY <2>2, TcpPcbAssumption
  <2> QED BY <2>3 DEF k
<1>3. Capacity(p) = IF p.snd_wnd > flight THEN p.snd_wnd - flight ELSE 0
  BY DEF Capacity
<1> HIDE DEF flight
<1> QED BY <1>1, <1>2, <1>3

\* A PCB that has sent text fits where it was.
LEMMA TextSentFits ==
  ASSUME NEW tab, TabOK(tab), NEW d \in Live(tab), NEW text \in Seq(Byte), NEW n \in Nat
  PROVE  Fits(tab, d, TextSent(tab[d], text, n))
<1> DEFINE p == tab[d]
           s == Queued(p, {"ACK", "PSH"}, text)
           nxt == Plus(s.snd_nxt, n)
           q == [s EXCEPT !.snd_nxt = nxt]
<1>1. p \in Pcb /\ Accounted(p)
  BY LivePcbs
<1>2. TextSent(p, text, n) = q
  BY DEF TextSent
<1> HIDE DEF p
<1>3. s \in Pcb /\ SameBuffer(p, s) /\ SameEndpoints(p, s) /\ s.state = p.state
  <2>1. {"ACK", "PSH"} \in SUBSET Flag
    BY DEF Flag
  <2> QED BY <1>1, <2>1, QueuedType
<1> HIDE DEF s
<1>4. nxt \in SeqNo
  <2>1. s.snd_nxt \in Int
    BY <1>3, TcpPcbAssumption DEF Pcb, SeqNo
  <2> QED BY <2>1, PlusType
<1> HIDE DEF nxt
<1>5. q \in Pcb /\ SameBuffer(s, q) /\ SameEndpoints(s, q) /\ q.state = s.state
  BY <1>3, <1>4 DEF Pcb, SameBuffer, SameEndpoints
<1> HIDE DEF q
<1>6. Accounted(q) /\ SameEndpoints(p, q) /\ (Active(q) => Active(p))
  BY <1>1, <1>3, <1>5 DEF Accounted, Active, SameBuffer, SameEndpoints
<1>7. Fits(tab, d, q)
  BY <1>5, <1>6, MovesFits DEF p
<1> QED BY <1>2, <1>7 DEF p

\* receive opens the window by what it takes from the buffer.
LEMMA DrainedAccounted ==
  ASSUME NEW p \in Pcb, Active(p), Accounted(p), NEW n \in Nat, n <= Len(p.buf)
  PROVE  LET q == Drained(p, n)
         IN q \in Pcb /\ Accounted(q) /\ SameEndpoints(p, q) /\ q.state = p.state
<1> DEFINE buf == SubSeq(p.buf, n + 1, Len(p.buf))
           wnd == p.rcv_wnd + n
           q == [p EXCEPT !.buf = buf, !.rcv_wnd = wnd]
<1>1. p.buf \in Seq(Byte) /\ p.rcv_wnd \in Nat /\ RECV_BUF_SIZE \in Nat
  BY TcpPcbAssumption DEF Pcb, Window
<1>2. Len(p.buf) \in Nat
  BY <1>1
<1>3. buf \in Seq(Byte) /\ Len(buf) = Len(p.buf) - n
  <2>1. n + 1 \in Int /\ Len(p.buf) \in Int
    BY <1>2
  <2>2. \A i \in (n + 1)..Len(p.buf) : p.buf[i] \in Byte
    BY <1>1, <1>2
  <2>3. /\ SubSeq(p.buf, n + 1, Len(p.buf)) \in Seq(Byte)
        /\ Len(SubSeq(p.buf, n + 1, Len(p.buf)))
             = IF n + 1 <= Len(p.buf) THEN Len(p.buf) - (n + 1) + 1 ELSE 0
    BY <2>1, <2>2
  <2> DEFINE l == Len(p.buf)
             m == Len(buf)
  <2>4. l \in Nat /\ n <= l /\ m = IF n + 1 <= l THEN l - (n + 1) + 1 ELSE 0
    BY <1>2, <2>3
  <2> HIDE DEF l, m
  <2>5. m = l - n
    BY <2>4
  <2> QED BY <2>3, <2>5 DEF l, m
<1>4. Drained(p, n) = q
  BY DEF Drained
<1>5. wnd + Len(buf) = RECV_BUF_SIZE /\ wnd \in Window
  <2> DEFINE a == p.rcv_wnd
             b == Len(p.buf)
  <2>1. a + b = RECV_BUF_SIZE /\ a \in Nat /\ b \in Nat /\ n <= b
    BY <1>1, <1>2 DEF Accounted
  <2>2. wnd = a + n /\ Len(buf) = b - n
    BY <1>3
  <2> HIDE DEF a, b, wnd, buf
  <2> QED BY <2>1, <2>2 DEF Window
<1> HIDE DEF buf, wnd
<1>6. q \in Pcb /\ q.buf = buf /\ q.rcv_wnd = wnd /\ q.state = p.state /\ SameEndpoints(p, q)
  BY <1>3, <1>5 DEF Pcb, SameEndpoints
<1> HIDE DEF q
<1>7. Accounted(q)
  BY <1>5, <1>6 DEF Accounted, Active
<1> QED BY <1>4, <1>6, <1>7

\* A tick keeps what a PCB owns and the names of its connection; tw_timer is positive in a
\* TIME_WAIT PCB that on_timer does not release.
LEMMA TickedFits ==
  ASSUME NEW p \in Pcb, Accounted(p), ~TimeWaitElapsed(p)
  PROVE  /\ Ticked(p) \in Pcb /\ Accounted(Ticked(p)) /\ SameEndpoints(p, Ticked(p))
         /\ Active(Ticked(p)) => Active(p)
<1> DEFINE r == IF p.state = "TimeWait" THEN [p EXCEPT !.tw_timer = @ - 1] ELSE p
           q == retrans_emit(r)
<1>1. p.state = "TimeWait" => p.tw_timer - 1 \in Nat
  BY DEF TimeWaitElapsed, Pcb
<1>2. /\ r \in Pcb /\ SameEndpoints(p, r) /\ r.state = p.state /\ r.buf = p.buf
      /\ r.rcv_wnd = p.rcv_wnd
  BY <1>1 DEF Pcb, SameEndpoints
<1> HIDE DEF r
<1>3. q \in Pcb /\ SameBuffer(r, q) /\ SameEndpoints(r, q) /\ q.state \in {r.state, "Closed"}
  BY <1>2, EmitType
<1> HIDE DEF q
<1>4. Accounted(q) /\ SameEndpoints(p, q) /\ (Active(q) => Active(p))
  BY <1>2, <1>3 DEF Accounted, Active, SameBuffer, SameEndpoints
<1>5. Ticked(p) = q
  BY DEF Ticked, q, r
<1> QED BY <1>3, <1>4, <1>5

\* A PCB is among those its own release takes with it.
LEMMA TornDownSelf == ASSUME NEW tab, NEW d \in Live(tab) PROVE d \in TornDown(tab, d)
BY DEF TornDown

\* A connection that only listening PCBs match is one that no other PCB is.
LEMMA FreshFits ==
  ASSUME NEW tab, NEW d, NEW local, NEW remote, NEW q,
         \A e \in Matches(tab, local, remote) : tab[e].state = "Listen",
         Starts(q, local, remote), Accounted(q)
  PROVE  Fits(tab, d, q)
<1>1. ASSUME NEW e \in Live(tab), Active(tab[e]), SameEndpoints(tab[e], q) PROVE FALSE
  <2>1. tab[e].local = local /\ tab[e].remote = remote
    BY <1>1 DEF SameEndpoints, Starts
  <2>2. e \in Matches(tab, local, remote)
    BY <2>1 DEF Matches, LocalMatch, RemoteMatch
  <2> QED BY <1>1, <2>2 DEF Active
<1> QED BY <1>1 DEF Fits, Starts

\* accept takes an entry from the backlog.
LEMMA PoppedOK ==
  ASSUME NEW tab, TabOK(tab), NEW d \in Live(tab), tab[d].backlog # <<>>
  PROVE  /\ TabOK(Popped(tab, d)) /\ Live(Popped(tab, d)) = Live(tab)
         /\ Head(tab[d].backlog) \in Desc
<1> DEFINE rest == Tail(tab[d].backlog)
           q == [tab[d] EXCEPT !.backlog = rest]
<1>1. tab[d] \in Pcb /\ Accounted(tab[d]) /\ d \in Desc
  BY LivePcbs
<1>2. tab[d].backlog \in Seq(Desc)
  BY <1>1 DEF Pcb
<1>3. rest \in Seq(Desc) /\ Head(tab[d].backlog) \in Desc
  BY <1>2
<1>4. Popped(tab, d) = [tab EXCEPT ![d] = q]
  BY DEF Popped
<1> HIDE DEF rest
<1>5. q \in Pcb /\ SameBuffer(tab[d], q) /\ SameEndpoints(tab[d], q) /\ q.state = tab[d].state
  BY <1>1, <1>3 DEF Pcb, SameBuffer, SameEndpoints
<1> HIDE DEF q
<1>6. Accounted(q) /\ (Active(q) => Active(tab[d]))
  BY <1>1, <1>5 DEF Accounted, Active, SameBuffer
<1>7. Fits(tab, d, q)
  BY <1>5, <1>6, MovesFits
<1>8. TabOK([tab EXCEPT ![d] = q]) /\ Live([tab EXCEPT ![d] = q]) = Live(tab) \cup {d}
  BY <1>1, <1>7, TabPut
<1>9. Live(tab) \cup {d} = Live(tab)
  OBVIOUS
<1> QED BY <1>3, <1>4, <1>8, <1>9, Zenon

\* What a PCB's successor needs to take its place, its parent's backlog growing with it.
LEMMA WithParentOK ==
  ASSUME NEW tab, TabOK(tab), NEW d \in Live(tab), NEW q \in Pcb, Accounted(q),
         SameEndpoints(tab[d], q), Active(tab[d])
  PROVE  TabOK(WithParent(tab, d, tab[d], q)) /\ Live(WithParent(tab, d, tab[d], q)) = Live(tab)
<1> DEFINE new == WithParent(tab, d, tab[d], q)
           grown(c) == [tab[c] EXCEPT !.backlog = Append(@, d)]
<1>1. d \in Desc /\ Live(tab) \subseteq Desc /\ tab \in [Desc -> Pcb \cup {NoPcb}]
  BY DEF Live, TabOK
<1>2. new[d] = q /\ \A c \in Desc \ {d} : new[c] = tab[c] \/ (c \in Live(tab) /\ new[c] = grown(c))
  BY <1>1 DEF WithParent, ParentOf
<1>3. new = [c \in Desc |-> new[c]]
  BY DEF WithParent
<1> HIDE DEF new
<1>4. ASSUME NEW c \in Live(tab)
      PROVE  /\ new[c] \in Pcb /\ Accounted(new[c]) /\ SameEndpoints(tab[c], new[c])
             /\ Active(new[c]) => Active(tab[c])
  <2>1. tab[c] \in Pcb /\ Accounted(tab[c]) /\ c \in Desc
    BY <1>1, <1>4, LivePcbs
  <2>2. CASE c = d
    BY <1>2, <2>2
  <2>3. CASE c # d /\ new[c] = tab[c]
    BY <2>1, <2>3 DEF SameEndpoints
  <2>4. CASE new[c] = grown(c)
    <3>1. tab[c].backlog \in Seq(Desc)
      BY <2>1 DEF Pcb
    <3>2. Append(tab[c].backlog, d) \in Seq(Desc)
      BY <1>1, <3>1
    <3>3. grown(c) \in Pcb
      BY <2>1, <3>2 DEF Pcb
    <3>4. /\ SameEndpoints(tab[c], grown(c)) /\ grown(c).state = tab[c].state
          /\ grown(c).buf = tab[c].buf /\ grown(c).rcv_wnd = tab[c].rcv_wnd
      BY <2>1 DEF SameEndpoints, Pcb
    <3> HIDE DEF grown
    <3> QED BY <2>1, <2>4, <3>3, <3>4 DEF Accounted, Active
  <2> QED BY <1>1, <1>2, <2>1, <2>2, <2>3, <2>4
<1>5. \A c \in Desc : c \notin Live(tab) => new[c] = NoPcb
  BY <1>1, <1>2 DEF Live
<1>6. new \in [Desc -> Pcb \cup {NoPcb}]
  BY <1>3, <1>4, <1>5
<1>7. Live(new) = Live(tab)
  BY <1>4, <1>5, TcpPcbAssumption DEF Live
<1>8. TabOK(new)
  BY <1>4, <1>6, <1>7, TabMap
<1> QED BY <1>7, <1>8 DEF new

\* The bytes one round of send takes from its argument: no more than are left of it, no more
\* than the window has room for.
LEMMA ChunkType ==
  ASSUME NEW data \in Seq(Byte), NEW sent \in Nat, NEW mss \in Nat, NEW cap \in Nat,
         sent < Len(data), NEW n, n = Min({mss, Len(data) - sent, cap})
  PROVE  n \in Nat /\ n <= cap /\ sent + n <= Len(data) /\ SubSeq(data, sent + 1, sent + n) \in Seq(Byte)
<1> DEFINE remain == Len(data) - sent
<1>1. Len(data) \in Nat /\ remain \in Nat
  OBVIOUS
<1>2. {mss, remain, cap} \in SUBSET Nat /\ {mss, remain, cap} # {} /\ remain \in {mss, remain, cap}
  BY <1>1
<1>3. n \in {mss, remain, cap} /\ n <= remain /\ n <= cap
  BY <1>2, MinProperties
<1>4. n \in Nat
  BY <1>2, <1>3
<1>5. sent + n <= Len(data)
  BY <1>1, <1>3, <1>4
<1>6. \A i \in (sent + 1)..(sent + n) : data[i] \in Byte
  BY <1>1, <1>4, <1>5
<1>7. sent + 1 \in Int /\ sent + n \in Int
  BY <1>4
<1>8. SubSeq(data, sent + 1, sent + n) \in Seq(Byte)
  <2> DEFINE a == sent + 1
             b == sent + n
  <2>1. a \in Int /\ b \in Int /\ \A i \in a..b : data[i] \in Byte
    BY <1>6, <1>7
  <2> HIDE DEF a, b
  <2>2. SubSeq(data, a, b) \in Seq(Byte)
    BY <2>1
  <2> QED BY <2>2 DEF a, b
<1> QED BY <1>3, <1>4, <1>5, <1>8, Zenon

\* The length of a piece of a sequence.
LEMMA PieceLength ==
  ASSUME NEW S, NEW s \in Seq(S), NEW k \in Nat, NEW n \in Nat, k + n <= Len(s)
  PROVE  Len(SubSeq(s, k + 1, k + n)) = n
<1> DEFINE a == k + 1
           b == k + n
<1>1. a \in Int /\ b \in Int /\ b = a + n - 1
  OBVIOUS
<1>2. \A i \in a..b : s[i] \in S
  OBVIOUS
<1> HIDE DEF a, b
<1>3. Len(SubSeq(s, a, b)) = IF a <= b THEN b - a + 1 ELSE 0
  BY <1>1, <1>2
<1>4. Len(SubSeq(s, a, b)) = n
  BY <1>1, <1>3
<1> QED BY <1>4 DEF a, b

-----------------------------------------------------------------------------
(***************************************************************************)
(* What every change of a PCB leaves in the retransmission queue.          *)
(***************************************************************************)
\* A number less than one modulus away from the sequence numbers.
LEMMA ModNear ==
  ASSUME NEW m \in Nat, m > 0, NEW k \in Int
  PROVE  /\ 0 <= k /\ k < m => k % m = k
         /\ m <= k /\ k < m + m => k % m = k - m
         /\ -m <= k /\ k < 0 => k % m = k + m
<1>1. k = m * (k \div m) + (k % m) /\ 0 <= k % m /\ k % m < m /\ k \div m \in Int /\ k % m \in Int
  OBVIOUS
<1> DEFINE d == k \div m
           r == k % m
<1>2. k = m * d + r /\ 0 <= r /\ r < m /\ d \in Int /\ r \in Int
  BY <1>1
<1> HIDE DEF d, r
<1>3. d >= 2 => m * d >= m + m
  BY <1>2
<1>4. d <= -2 => m * d <= -(m + m)
  BY <1>2
<1>5. d >= 2 \/ d <= -2 \/ d = 1 \/ d = 0 \/ d = -1
  BY <1>2
<1>6. (d = 1 => m * d = m) /\ (d = 0 => m * d = 0) /\ (d = -1 => m * d = -m)
  BY <1>2
<1>7. m * d \in Int
  BY <1>2
<1> DEFINE x == m * d
<1> HIDE DEF x
<1>8. /\ x \in Int /\ k = x + r
      /\ (d >= 2 => x >= m + m) /\ (d <= -2 => x <= -(m + m))
      /\ (d = 1 => x = m) /\ (d = 0 => x = 0) /\ (d = -1 => x = -m)
  BY <1>2, <1>3, <1>4, <1>6, <1>7 DEF x
<1>9. /\ 0 <= k /\ k < m => r = k
      /\ m <= k /\ k < m + m => r = k - m
      /\ -m <= k /\ k < 0 => r = k + m
  BY <1>2, <1>5, <1>8
<1> QED BY <1>9 DEF r

\* What a send adds to the queue covers what it adds to the range, as long as snd.nxt does not
\* pass snd.una when it wraps around.
LEMMA SentCovered ==
  ASSUME NEW p \in Pcb, Active(p), Covered(p), NEW flg \in SUBSET Flag, "SYN" \notin flg,
         NEW data \in Seq(Byte), NEW len \in Nat, len < SeqMod,
         len = Len(data) + IF flg \cap {"SYN", "FIN"} # {} THEN 1 ELSE 0,
         p.snd_nxt + len >= SeqMod => p.snd_nxt + len - SeqMod <= p.snd_una,
         NEW q, q.queue = Queued(p, flg, data).queue, q.snd_una = p.snd_una, q.snd_nxt = Plus(p.snd_nxt, len)
  PROVE  Covered(q)
<1> DEFINE nxt == p.snd_nxt
           una == p.snd_una
           end == Plus(nxt, len)
<1>1. nxt \in 0..(SeqMod - 1) /\ una \in 0..(SeqMod - 1) /\ SeqMod \in Nat
  BY TcpPcbAssumption DEF Pcb, SeqNo
<1>2. nxt + len >= SeqMod => end = nxt + len - SeqMod
  <2> DEFINE k == nxt + len
  <2>1. k \in Int /\ k < SeqMod + SeqMod
    BY <1>1
  <2> HIDE DEF k
  <2>2. SeqMod <= k /\ k < SeqMod + SeqMod => k % SeqMod = k - SeqMod
    BY <2>1, ModNear, TcpPcbAssumption
  <2>3. k >= SeqMod => k % SeqMod = k - SeqMod
    BY <1>1, <2>1, <2>2
  <2>4. end = k % SeqMod
    BY DEF Plus, k
  <2>5. k = nxt + len
    BY DEF k
  <2> HIDE DEF end
  <2>6. k >= SeqMod => end = k - SeqMod
    BY <2>3, <2>4
  <2> QED BY <1>1, <2>1, <2>5, <2>6
<1>3. nxt + len < SeqMod => end = nxt + len
  <2> DEFINE k == nxt + len
  <2>1. k \in Int /\ 0 <= k
    BY <1>1
  <2> HIDE DEF k
  <2>2. k < SeqMod => k % SeqMod = k
    BY <1>1, <2>1, ModNear, TcpPcbAssumption
  <2> QED BY <2>2 DEF Plus, k
<1> HIDE DEF end, nxt, una
<1> SUFFICES ASSUME NEW n \in una..(end - 1) PROVE Covers(q.queue, n)
  BY DEF Covered, end, una, nxt
<1>4. end = nxt + len /\ n \in Int /\ una <= n /\ n < nxt + len
  BY <1>1, <1>2, <1>3 DEF nxt, una
<1>5. CASE n < nxt
  <2>1. n \in una..(nxt - 1)
    BY <1>1, <1>4, <1>5
  <2>2. Covers(p.queue, n)
    BY <2>1 DEF Covered, una, nxt
  <2> QED BY <2>2, QueuedCovers
<1>6. CASE nxt <= n
  <2>1. flg \cap {"SYN", "FIN"} # {} \/ data # <<>>
    <3> SUFFICES ASSUME flg \cap {"SYN", "FIN"} = {}, data = <<>> PROVE FALSE
      OBVIOUS
    <3>1. len = 0
      OBVIOUS
    <3> QED BY <1>1, <1>4, <1>6, <3>1
  <2>2. OutputSeq(p, flg) = nxt
    BY DEF OutputSeq, nxt
  <2>3. OutputSeq(p, flg) <= n /\ n < Plus(OutputSeq(p, flg), len)
    BY <1>4, <1>6, <2>2 DEF end
  <2> QED BY <2>1, <2>3, QueuedCovers
<1> QED BY <1>1, <1>4, <1>5, <1>6

\* close.
LEMMA FinSentCovered ==
  ASSUME NEW p \in Pcb, Active(p), Covered(p), NEW state, NEW q, q = FinSent(p, state) PROVE Covered(q)
<1> DEFINE flg == {"ACK", "FIN"}
           r == Queued(p, flg, <<>>)
<1>1. flg \in SUBSET Flag /\ "SYN" \notin flg /\ flg \cap {"SYN", "FIN"} # {} /\ <<>> \in Seq(Byte)
  BY DEF Flag
<1>2. r \in Pcb /\ r.snd_nxt = p.snd_nxt /\ r.snd_una = p.snd_una
  BY <1>1, QueuedType, QueuedCovers
<1>3. q = [r EXCEPT !.snd_nxt = Plus(@, 1), !.state = state]
  BY DEF FinSent
<1> HIDE DEF flg
<1>4. q.queue = r.queue /\ q.snd_una = p.snd_una /\ q.snd_nxt = Plus(p.snd_nxt, 1)
  <2> HIDE DEF r
  <2> QED BY <1>2, <1>3 DEF Pcb
<1>5. p.snd_nxt \in 0..(SeqMod - 1) /\ p.snd_una \in 0..(SeqMod - 1) /\ SeqMod \in Nat /\ 1 < SeqMod
  BY TcpPcbAssumption DEF Pcb, SeqNo
<1>6. p.snd_nxt + 1 >= SeqMod => p.snd_nxt + 1 - SeqMod <= p.snd_una
  BY <1>5
<1>7. 1 = Len(<<>>) + IF flg \cap {"SYN", "FIN"} # {} THEN 1 ELSE 0
  BY <1>1
<1> QED BY <1>1, <1>4, <1>5, <1>6, <1>7, SentCovered

\* send.
LEMMA TextSentCovered ==
  ASSUME NEW p \in Pcb, Active(p), Covered(p), NEW text \in Seq(Byte), Len(text) <= Capacity(p),
         NEW q, q = TextSent(p, text, Len(text))
  PROVE  Covered(q)
<1> DEFINE flg == {"ACK", "PSH"}
           r == Queued(p, flg, text)
           n == Len(text)
<1>1. flg \in SUBSET Flag /\ "SYN" \notin flg /\ flg \cap {"SYN", "FIN"} = {} /\ n \in Nat
  BY DEF Flag
<1>2. r \in Pcb /\ r.snd_nxt = p.snd_nxt /\ r.snd_una = p.snd_una
  BY <1>1, QueuedType, QueuedCovers
<1>3. q = [r EXCEPT !.snd_nxt = Plus(@, n)]
  BY DEF TextSent
<1> HIDE DEF flg, n
<1>4. q.queue = r.queue /\ q.snd_una = p.snd_una /\ q.snd_nxt = Plus(p.snd_nxt, n)
  <2> HIDE DEF r
  <2> QED BY <1>2, <1>3 DEF Pcb
<1> DEFINE nxt == p.snd_nxt
           una == p.snd_una
           wnd == p.snd_wnd
           flight == (nxt - una) % SeqMod
<1>5. /\ nxt \in 0..(SeqMod - 1) /\ una \in 0..(SeqMod - 1) /\ SeqMod \in Nat /\ SeqMod > 0
      /\ wnd \in Nat /\ wnd < SeqMod
  BY TcpPcbAssumption DEF Pcb, SeqNo, Window
<1>6. Capacity(p) = IF wnd > flight THEN wnd - flight ELSE 0
  BY DEF Capacity
<1> HIDE DEF nxt, una, wnd
<1>7. flight = IF nxt >= una THEN nxt - una ELSE nxt - una + SeqMod
  <2> DEFINE k == nxt - una
  <2>1. k \in Int /\ -SeqMod <= k /\ k < SeqMod
    BY <1>5
  <2> HIDE DEF k
  <2>2. k % SeqMod = IF k >= 0 THEN k ELSE k + SeqMod
    BY <1>5, <2>1, ModNear
  <2>3. k >= 0 <=> nxt >= una
    BY <1>5 DEF k
  <2> QED BY <2>2, <2>3 DEF k
<1> HIDE DEF flight
<1>8. n < SeqMod /\ (nxt + n >= SeqMod => nxt + n - SeqMod <= una)
  <2>1. n <= IF wnd > flight THEN wnd - flight ELSE 0
    BY <1>6 DEF n
  <2> QED BY <1>1, <1>5, <1>7, <2>1
<1>9. n = Len(text) + IF flg \cap {"SYN", "FIN"} # {} THEN 1 ELSE 0
  BY <1>1 DEF n
<1> QED BY <1>1, <1>4, <1>5, <1>8, <1>9, SentCovered DEF nxt, una

\* The PCB after the first SYN of an active open.
Dialled(p, local, remote, iss) ==
  [SynSent(p, local, remote, iss) EXCEPT !.snd_una = iss, !.snd_nxt = Plus(iss, 1), !.state = "SynSent"]

\* The first SYN of an active open covers itself.
LEMMA DialledCovered ==
  ASSUME NEW p \in Pcb, NEW local \in Endp, NEW remote \in Endp, NEW iss \in SeqNo
  PROVE  Covered(Dialled(p, local, remote, iss))
<1> DEFINE s == [p EXCEPT !.local = local, !.remote = remote, !.rcv_wnd = RECV_BUF_SIZE, !.iss = iss]
           r == Queued(s, {"SYN"}, <<>>)
           end == Plus(iss, 1)
           q == [r EXCEPT !.snd_una = iss, !.snd_nxt = end, !.state = "SynSent"]
<1>1. {"SYN"} \in SUBSET Flag /\ <<>> \in Seq(Byte) /\ RECV_BUF_SIZE \in Window
  BY TcpPcbAssumption DEF Flag, Window
<1>2. s \in Pcb /\ s.iss = iss
  BY <1>1 DEF Pcb
<1>3. Dialled(p, local, remote, iss) = q
  BY DEF Dialled, SynSent
<1> HIDE DEF s
<1>4. r \in Pcb
  BY <1>1, <1>2, QueuedType
<1> HIDE DEF r, end
<1>5. q.queue = r.queue /\ q.snd_una = iss /\ q.snd_nxt = end
  BY <1>4 DEF Pcb
<1> HIDE DEF q
<1>6. Covered(q)
  BY <1>1, <1>2, <1>5, SynCovered DEF r, end
<1> QED BY <1>3, <1>6

\* The SYN of a connection that is being accepted covers itself.
LEMMA SynArrivesCovered ==
  ASSUME NEW p \in Pcb, NEW seg \in Segment, NEW iss \in SeqNo
  PROVE  Covered(SynArrives(p, seg, iss))
<1> DEFINE nxt == Plus(seg.seq, 1)
           s == [p EXCEPT !.local = seg.dst, !.remote = seg.src, !.rcv_wnd = RECV_BUF_SIZE,
                          !.rcv_nxt = nxt, !.iss = iss]
           r == Queued(s, {"SYN", "ACK"}, <<>>)
           end == Plus(iss, 1)
           q == [r EXCEPT !.snd_nxt = end, !.snd_una = iss, !.state = "SynReceived"]
<1>1. {"SYN", "ACK"} \in SUBSET Flag /\ <<>> \in Seq(Byte) /\ RECV_BUF_SIZE \in Window
  BY TcpPcbAssumption DEF Flag, Window
<1>2. seg.dst \in Endp /\ seg.src \in Endp /\ nxt \in SeqNo
  <2>1. seg.dst \in Endp /\ seg.src \in Endp /\ seg.seq \in Int
    BY TcpPcbAssumption DEF Segment, SeqNo
  <2> QED BY <2>1, PlusType
<1>3. SynArrives(p, seg, iss) = q
  BY DEF SynArrives
<1> HIDE DEF nxt
<1>4. s \in Pcb /\ s.iss = iss
  BY <1>1, <1>2 DEF Pcb
<1> HIDE DEF s
<1>5. r \in Pcb
  BY <1>1, <1>4, QueuedType
<1> HIDE DEF r, end
<1>6. q.queue = r.queue /\ q.snd_una = iss /\ q.snd_nxt = end
  BY <1>5 DEF Pcb
<1> HIDE DEF q
<1>7. Covered(q)
  BY <1>1, <1>4, <1>6, SynCovered DEF r, end
<1> QED BY <1>3, <1>7

\* receive sends nothing.
LEMMA DrainedCovered ==
  ASSUME NEW p \in Pcb, Covered(p), NEW n, NEW q, q = Drained(p, n) PROVE Covered(q)
<1> DEFINE buf == SubSeq(p.buf, n + 1, Len(p.buf))
           wnd == p.rcv_wnd + n
<1>1. q = [p EXCEPT !.buf = buf, !.rcv_wnd = wnd]
  BY DEF Drained
<1> HIDE DEF buf, wnd
<1>2. SameSend(p, q) /\ q.state = p.state
  BY <1>1 DEF SameSend, Pcb
<1> QED BY <1>2, SameSendCovered DEF Active

\* on_timer.
LEMMA TickedCovered ==
  ASSUME NEW p \in Pcb, Covered(p), ~TimeWaitElapsed(p) PROVE Covered(Ticked(p))
\* So it keeps the queue covered.
<1>EmitCovered. ASSUME NEW o \in Pcb, Covered(o) PROVE Covered(retrans_emit(o))
  <2> USE <1>EmitCovered
  <2> DEFINE resent == [i \in DOMAIN o.queue |-> Resent(Aged(o.queue[i]))]
  <2>1. CASE DeadlineExceeded(o)
    <3>1. retrans_emit(o).state = "Closed"
      BY <2>1 DEF retrans_emit, Pcb
    <3> QED BY <3>1 DEF Covered, Active
  <2>2. CASE ~DeadlineExceeded(o)
    <3> DEFINE q == [o EXCEPT !.queue = resent]
    <3>1. retrans_emit(o) = q
      BY <2>2 DEF retrans_emit
    <3>2. ASSUME NEW i \in DOMAIN o.queue
          PROVE  EntryEnd(resent[i]) = EntryEnd(o.queue[i]) /\ resent[i].seq = o.queue[i].seq
      <4> DEFINE e == o.queue[i]
                 r == Resent(Aged(e))
      <4>0. o.queue \in Seq(TcpQueueEntry)
        BY DEF Pcb
      <4>1. e \in TcpQueueEntry /\ resent[i] = r
        BY <4>0
      <4> HIDE DEF e
      <4>2. r.seq = e.seq /\ r.flg = e.flg /\ r.data = e.data
        BY <4>1, ResentKeeps
      <4> HIDE DEF r, resent
      <4> QED BY <4>1, <4>2 DEF EntryEnd, e
    <3>3. DOMAIN resent = DOMAIN o.queue
      OBVIOUS
    <3> HIDE DEF resent
    <3>4. \A n : Covers(o.queue, n) => Covers(resent, n)
      BY <3>2, <3>3 DEF Covers
    <3>5. q.state = o.state /\ q.snd_una = o.snd_una /\ q.snd_nxt = o.snd_nxt /\ q.queue = resent
      BY DEF Pcb
    <3> HIDE DEF q
    <3>6. Covered(q)
      BY <3>4, <3>5 DEF Covered, Active
    <3> QED BY <3>1, <3>6
  <2> QED BY <2>1, <2>2
<1> DEFINE r == IF p.state = "TimeWait" THEN [p EXCEPT !.tw_timer = @ - 1] ELSE p
<1>1. p.state = "TimeWait" => p.tw_timer - 1 \in Nat
  BY DEF TimeWaitElapsed, Pcb
<1>2. r \in Pcb /\ SameSend(p, r) /\ r.state = p.state
  BY <1>1 DEF Pcb, SameSend
<1>3. Ticked(p) = retrans_emit(r)
  BY DEF Ticked
<1> HIDE DEF r
<1>4. Covered(r)
  BY <1>2, SameSendCovered DEF Active
<1> QED BY <1>2, <1>3, <1>4, <1>EmitCovered

\* A segment that is processed keeps what is unacknowledged in the queue.
LEMMA ProcessedCovered ==
  ASSUME NEW p \in Pcb, Covered(p), Active(p), p.state # "LastAck", NEW seg \in Segment
  PROVE  LET acked == ProcessAck(p, seg)
         IN Covered(acked) /\ Covered(ProcessFin(ProcessText(acked, seg), seg))
\* The 5th to the 8th step.
<1>ProcessAckCovered. Covered(ProcessAck(p, seg))
  \* The 5th check keeps what may have to be sent again.
  <2>AckInSyncCovered. ASSUME NEW o \in Pcb, Active(o), Covered(o) PROVE Covered(AckInSync(o, seg))
    <3> USE <2>AckInSyncCovered
    <3> DEFINE clean == retrans_queue_cleanup([o EXCEPT !.snd_una = seg.ack])
               a == Acked(o, seg)
               q == IF AckAdvances(o, seg) THEN a ELSE o
    <3>1. seg.ack \in SeqNo /\ seg.seq \in SeqNo /\ seg.wnd \in Window
      BY DEF Segment
    <3>2. AckAdvances(o, seg) => Covered(clean)
      <4>1. AckAdvances(o, seg) => o.snd_una <= seg.ack
        <5>1. o.snd_una \in SeqNo
          BY DEF Pcb
        <5>2. \A n \in SeqNo : n \in Int
          BY TcpPcbAssumption DEF SeqNo
        <5>3. o.snd_una \in Int /\ seg.ack \in Int
          BY <3>1, <5>1, <5>2, Zenon
        <5> QED BY <5>3 DEF AckAdvances
      <4> QED BY <3>1, <4>1, AckCovered
    <3>3. clean \in Pcb /\ clean.state = o.state
      <4>1. [o EXCEPT !.snd_una = seg.ack] \in Pcb /\ [o EXCEPT !.snd_una = seg.ack].state = o.state
        BY <3>1 DEF Pcb
      <4> QED BY <4>1, CleanupType
    <3> DEFINE b == [clean EXCEPT !.snd_wnd = seg.wnd, !.snd_wl1 = seg.seq, !.snd_wl2 = seg.ack]
    <3>4. a = clean \/ a = b
      BY DEF Acked
    <3> HIDE DEF clean
    <3>5. a \in Pcb /\ a.state = o.state /\ SameSend(clean, a)
      <4>1. b \in Pcb /\ b.state = o.state /\ SameSend(clean, b)
        BY <3>1, <3>3 DEF SameSend, Pcb
      <4> HIDE DEF a, b
      <4> QED BY <3>3, <3>4, <4>1 DEF SameSend
    <3> HIDE DEF a
    <3>6. AckAdvances(o, seg) => Covered(a)
      BY <3>2, <3>3, <3>5, SameSendCovered DEF Active
    <3>7. Covered(q) /\ q \in Pcb /\ Active(q)
      BY <3>5, <3>6 DEF Active
    <3>8. AckInSync(o, seg) \in {q, [q EXCEPT !.state = "FinWait2"]}
      BY DEF AckInSync, a
    <3> HIDE DEF q
    <3>9. SameSend(q, [q EXCEPT !.state = "FinWait2"])
      BY <3>7 DEF SameSend, Pcb
    <3> QED BY <3>7, <3>8, <3>9, SameSendCovered
  <2> DEFINE est == [p EXCEPT !.state = "Established"]
  <2>1. est \in Pcb /\ Active(est) /\ SameSend(p, est)
    <3>1. "Established" \in TcpState
      BY DEF TcpState
    <3>2. est \in Pcb /\ est.state = "Established"
      BY <3>1, StateType
    <3>3. SameSend(p, est)
      BY DEF SameSend, Pcb
    <3> QED BY <3>2, <3>3 DEF Active
  <2>2. SameSend(p, StartTimeWait(p))
    BY DEF StartTimeWait, SameSend, Pcb
  <2>3. ProcessAck(p, seg) \in {AckInSync(est, seg), AckInSync(p, seg), StartTimeWait(p), p}
    BY DEF ProcessAck
  <2> HIDE DEF est
  <2>4. Covered(est) /\ Covered(StartTimeWait(p))
    BY <2>1, <2>2, SameSendCovered
  <2>5. Covered(AckInSync(est, seg)) /\ Covered(AckInSync(p, seg))
    BY <2>1, <2>4, <2>AckInSyncCovered
  <2> QED BY <2>3, <2>4, <2>5
\* Text and FIN that arrive leave the sending side alone.
<1>TextFinCovered. ASSUME NEW o \in Pcb, Active(o), Covered(o)
      PROVE  Covered(ProcessFin(ProcessText(o, seg), seg))
  <2> USE <1>TextFinCovered
  <2> DEFINE r == ProcessText(o, seg)
             q == ProcessFin(r, seg)
  <2>1. SameSend(o, r) /\ r.state = o.state
    BY DEF ProcessText, SameSend, Pcb
  <2>2. SameSend(r, q)
    BY DEF ProcessText, ProcessFin, StartTimeWait, SameSend, Pcb
  <2>3. SameSend(o, q)
    BY <2>1, <2>2 DEF SameSend
  <2> QED BY <2>3, SameSendCovered
<1> DEFINE acked == ProcessAck(p, seg)
<1>1. Covered(acked)
  BY <1>ProcessAckCovered
<1>2. acked \in Pcb /\ Active(acked)
  BY ProcessAckMoves, Zenon DEF Moves
<1> HIDE DEF acked
<1>3. Covered(ProcessFin(ProcessText(acked, seg), seg))
  BY <1>1, <1>2, <1>TextFinCovered
<1> QED BY <1>1, <1>3 DEF acked
-----------------------------------------------------------------------------
(***************************************************************************)
(* The state every change of a PCB leaves it in.                           *)
(***************************************************************************)
\* The cleanup of the queue changes the queue alone.
LEMMA CleanupKeeps ==
  ASSUME NEW p \in Pcb
  PROVE  LET q == retrans_queue_cleanup(p)
         IN q.state = p.state /\ q.snd_nxt = p.snd_nxt /\ q.snd_una = p.snd_una /\ q.rcv_nxt = p.rcv_nxt /\ q.iss = p.iss
<1> DEFINE kept == {i \in DOMAIN p.queue : p.snd_una < EntryEnd(p.queue[i])}
           x == IF kept = {} THEN <<>> ELSE SubSeq(p.queue, Min(kept), Len(p.queue))
           q == [p EXCEPT !.queue = x]
<1>1. retrans_queue_cleanup(p) = q
  BY DEF retrans_queue_cleanup
<1> HIDE DEF x
<1>2. q.state = p.state /\ q.snd_nxt = p.snd_nxt /\ q.snd_una = p.snd_una /\ q.rcv_nxt = p.rcv_nxt /\ q.iss = p.iss
  BY DEF Pcb
<1> HIDE DEF q
<1> QED BY <1>1, <1>2, Zenon

\* The state after the 5th step.
LEMMA ProcessAckState ==
  ASSUME NEW p \in Pcb, NEW seg \in Segment
  PROVE  LET q == ProcessAck(p, seg)
         IN /\ q.state \in CASE p.state = "SynReceived" -> {"Established"}
                             [] p.state = "FinWait1"    -> {"FinWait1", "FinWait2"}
                             [] p.state = "Closing"     -> {"Closing", "TimeWait"}
                             [] OTHER                   -> {p.state}
            /\ q.snd_nxt = p.snd_nxt /\ q.rcv_nxt = p.rcv_nxt /\ q.iss = p.iss
\* The state after an ACK in a synchronized state.
<1>AckInSyncState. ASSUME NEW o \in Pcb
      PROVE  /\ AckInSync(o, seg).snd_nxt = o.snd_nxt /\ AckInSync(o, seg).rcv_nxt = o.rcv_nxt
             /\ AckInSync(o, seg).iss = o.iss
             /\ AckInSync(o, seg).state
                  \in IF o.state = "FinWait1" THEN {"FinWait1", "FinWait2"} ELSE {o.state}
  <2> USE <1>AckInSyncState
  <2> DEFINE s == [o EXCEPT !.snd_una = seg.ack]
             c == retrans_queue_cleanup(s)
             a == [c EXCEPT !.snd_wnd = seg.wnd, !.snd_wl1 = seg.seq, !.snd_wl2 = seg.ack]
             q == IF AckAdvances(o, seg) THEN Acked(o, seg) ELSE o
             Same(r) == r.state = o.state /\ r.snd_nxt = o.snd_nxt /\ r.rcv_nxt = o.rcv_nxt /\ r.iss = o.iss
  <2>1. s \in Pcb /\ Same(s)
    BY DEF Pcb, Segment
  <2>2. Acked(o, seg) \in {a, c}
    BY Zenon DEF Acked
  <2> HIDE DEF s
  <2>3. c \in Pcb /\ Same(c)
    BY <2>1, CleanupKeeps, CleanupType
  <2> HIDE DEF c
  <2>4. seg.wnd \in Window /\ seg.seq \in SeqNo /\ seg.ack \in SeqNo
    BY DEF Segment
  <2>5. a \in Pcb /\ Same(a)
    BY <2>3, <2>4 DEF Pcb
  <2> HIDE DEF a
  <2>6. q \in Pcb /\ Same(q)
    BY <2>2, <2>3, <2>5
  <2>7. AckInSync(o, seg) = IF q.state = "FinWait1" /\ seg.ack = q.snd_nxt THEN [q EXCEPT !.state = "FinWait2"] ELSE q
    BY Zenon DEF AckInSync
  <2> HIDE DEF q
  <2> QED BY <2>6, <2>7 DEF Pcb
<1> DEFINE q == ProcessAck(p, seg)
           e == [p EXCEPT !.state = "Established"]
           s == [p EXCEPT !.state = "TimeWait", !.tw_timer = TCP_TIMEWAIT_SEC]
<1>1. e \in Pcb /\ e.state = "Established" /\ e.snd_nxt = p.snd_nxt /\ e.rcv_nxt = p.rcv_nxt /\ e.iss = p.iss
  BY DEF Pcb, TcpState
<1>2. s.state = "TimeWait" /\ s.snd_nxt = p.snd_nxt /\ s.rcv_nxt = p.rcv_nxt /\ s.iss = p.iss
  BY DEF Pcb
<1>3. /\ p.state = "SynReceived" => q = AckInSync(e, seg)
      /\ p.state \in AckStates => q = AckInSync(p, seg)
      /\ p.state \notin AckStates \cup {"SynReceived"} => q = p \/ (q = s /\ p.state \in {"Closing", "TimeWait"})
  <2>1. CASE p.state = "SynReceived"
    BY <2>1 DEF ProcessAck, AckStates
  <2>2. CASE p.state \in AckStates
    BY <2>2 DEF ProcessAck, AckStates
  <2>3. CASE p.state \notin AckStates \cup {"SynReceived"}
    BY <2>3 DEF ProcessAck, AckStates, StartTimeWait
  <2> QED BY <2>1, <2>2, <2>3
<1> HIDE DEF e, s, q
<1>4. CASE p.state = "SynReceived"
  <2>1. q = AckInSync(e, seg)
    BY <1>3, <1>4
  <2>2. q.state \in {"Established"} /\ q.snd_nxt = p.snd_nxt /\ q.rcv_nxt = p.rcv_nxt /\ q.iss = p.iss
    BY <1>1, <2>1, <1>AckInSyncState
  <2> QED BY <1>4, <2>2 DEF q
<1>5. CASE p.state \in AckStates
  <2>1. q = AckInSync(p, seg)
    BY <1>3, <1>5
  <2>2. /\ q.state \in IF p.state = "FinWait1" THEN {"FinWait1", "FinWait2"} ELSE {p.state}
        /\ q.snd_nxt = p.snd_nxt /\ q.rcv_nxt = p.rcv_nxt /\ q.iss = p.iss
    BY <2>1, <1>AckInSyncState
  <2> QED BY <1>5, <2>2 DEF q, AckStates
<1>6. CASE p.state \notin AckStates \cup {"SynReceived"}
  <2>1. q = p \/ (q = s /\ p.state \in {"Closing", "TimeWait"})
    BY <1>3, <1>6
  <2> QED BY <1>2, <1>6, <2>1 DEF q, AckStates
<1> QED BY <1>4, <1>5, <1>6

\* An active open leaves the PCB in SYN_SENT.
LEMMA StartedState ==
  ASSUME NEW p \in Pcb, p.buf = <<>>, NEW local \in Endp, NEW remote \in Endp, NEW iss \in SeqNo
  PROVE  Dialled(p, local, remote, iss) \in Pcb /\ Dialled(p, local, remote, iss).state = "SynSent"
<1> DEFINE s == SynSent(p, local, remote, iss)
           end == Plus(iss, 1)
           q == [s EXCEPT !.snd_una = iss, !.snd_nxt = end, !.state = "SynSent"]
<1>1. s \in Pcb
  BY SynSentStarts DEF Starts
<1>2. Dialled(p, local, remote, iss) = q
  BY DEF Dialled
<1>3. end \in SeqNo
  <2>1. iss \in Int /\ 1 \in Int
    BY TcpPcbAssumption DEF SeqNo
  <2> QED BY <2>1, PlusType
<1> HIDE DEF s, end
<1>4. q \in Pcb /\ q.state = "SynSent"
  BY <1>1, <1>3 DEF Pcb, TcpState
<1> QED BY <1>2, <1>4

\* close sets the state it is given; send leaves the state alone.
LEMMA SentState ==
  ASSUME NEW p \in Pcb
  PROVE  /\ \A state : FinSent(p, state).state = state
         /\ \A n : \A text \in Seq(Byte) : TextSent(p, text, n).state = p.state
<1> SUFFICES ASSUME NEW state, NEW text \in Seq(Byte), NEW n
             PROVE  FinSent(p, state).state = state /\ TextSent(p, text, n).state = p.state
  <2>1. <<>> \in Seq(Byte)
    OBVIOUS
  <2> QED BY <2>1, Zenon
<1> DEFINE r == Queued(p, {"ACK", "FIN"}, <<>>)
           s == Queued(p, {"ACK", "PSH"}, text)
           a == Plus(r.snd_nxt, 1)
           b == Plus(s.snd_nxt, n)
<1>1. r \in Pcb /\ s \in Pcb /\ s.state = p.state
  <2>1. {"ACK", "FIN"} \in SUBSET Flag /\ {"ACK", "PSH"} \in SUBSET Flag /\ <<>> \in Seq(Byte)
    BY DEF Flag
  <2> QED BY <2>1, QueuedType, QueuedCovers
<1>2. FinSent(p, state) = [r EXCEPT !.snd_nxt = a, !.state = state] /\ TextSent(p, text, n) = [s EXCEPT !.snd_nxt = b]
  BY DEF FinSent, TextSent
<1> HIDE DEF r, s, a, b
<1> QED BY <1>1, <1>2 DEF Pcb

\* A connection that is being accepted is in SYN_RECEIVED.
LEMMA SynArrivesState ==
  ASSUME NEW p \in Pcb, NEW seg \in Segment, NEW iss \in SeqNo PROVE SynArrives(p, seg, iss).state = "SynReceived"
<1> DEFINE nxt == Plus(seg.seq, 1)
           s == [p EXCEPT !.local = seg.dst, !.remote = seg.src, !.rcv_wnd = RECV_BUF_SIZE,
                          !.rcv_nxt = nxt, !.iss = iss]
           r == Queued(s, {"SYN", "ACK"}, <<>>)
           end == Plus(iss, 1)
           q == [r EXCEPT !.snd_nxt = end, !.snd_una = iss, !.state = "SynReceived"]
<1>1. {"SYN", "ACK"} \in SUBSET Flag /\ <<>> \in Seq(Byte) /\ RECV_BUF_SIZE \in Window
  BY TcpPcbAssumption DEF Flag, Window
<1>2. seg.dst \in Endp /\ seg.src \in Endp /\ nxt \in SeqNo
  <2>1. seg.dst \in Endp /\ seg.src \in Endp /\ seg.seq \in Int
    BY TcpPcbAssumption DEF Segment, SeqNo
  <2> QED BY <2>1, PlusType
<1>3. SynArrives(p, seg, iss) = q
  BY DEF SynArrives
<1> HIDE DEF nxt
<1>4. s \in Pcb
  BY <1>1, <1>2 DEF Pcb
<1> HIDE DEF s
<1>5. r \in Pcb
  BY <1>1, <1>4, QueuedType
<1> HIDE DEF r, end
<1>6. q.state = "SynReceived"
  BY <1>5 DEF Pcb
<1> QED BY <1>3, <1>6

\* A tick of the timer leaves the state alone or closes the PCB.
LEMMA TickedState == ASSUME NEW p \in Pcb, ~TimeWaitElapsed(p) PROVE Ticked(p).state \in {p.state, "Closed"}
<1> DEFINE r == IF p.state = "TimeWait" THEN [p EXCEPT !.tw_timer = @ - 1] ELSE p
<1>1. p.state = "TimeWait" => p.tw_timer - 1 \in Nat
  BY DEF TimeWaitElapsed, Pcb
<1>2. r \in Pcb /\ r.state = p.state
  BY <1>1 DEF Pcb
<1>3. Ticked(p) = retrans_emit(r)
  BY DEF Ticked
<1> HIDE DEF r
<1> QED BY <1>2, <1>3, EmitType

\* The state after a segment that is processed to the end.
LEMMA ProcessedState ==
  ASSUME NEW p \in Pcb, Accounted(p), Active(p), NEW seg \in Segment, ~TextRefused(ProcessAck(p, seg), seg)
  PROVE  ProcessFin(ProcessText(ProcessAck(p, seg), seg), seg).state
           \in CASE p.state \in {"SynReceived", "Established"} -> {"Established", "CloseWait"}
                [] p.state = "FinWait1" -> {"FinWait1", "FinWait2", "Closing", "TimeWait"}
                [] p.state = "FinWait2" -> {"FinWait2", "TimeWait"}
                [] p.state = "Closing"  -> {"Closing", "TimeWait"}
                [] OTHER                -> {p.state}
\* The state after the 8th step.
<1>ProcessFinState. ASSUME NEW o \in Pcb
      PROVE  LET q == ProcessFin(o, seg)
             IN /\ q.state \in {o.state} \cup CASE o.state \in {"SynReceived", "Established"} -> {"CloseWait"}
                                               [] o.state = "FinWait1" -> {"Closing", "TimeWait"}
                                               [] o.state = "FinWait2" -> {"TimeWait"}
                                               [] OTHER -> {}
                /\ q.snd_nxt = o.snd_nxt /\ q.iss = o.iss
  <2> USE <1>ProcessFinState
  <2> DEFINE nxt == Plus(seg.seq, 1)
             r == [o EXCEPT !.rcv_nxt = nxt]
             c == [r EXCEPT !.state = "CloseWait"]
             g == [r EXCEPT !.state = "Closing"]
             s == [r EXCEPT !.state = "TimeWait", !.tw_timer = TCP_TIMEWAIT_SEC]
             q == ProcessFin(o, seg)
  <2>1. nxt \in SeqNo
    <3>1. seg.seq \in Int
      BY TcpPcbAssumption DEF Segment, SeqNo
    <3> QED BY <3>1, PlusType
  <2>2. q \in {o} \cup CASE o.state \in {"SynReceived", "Established"} -> {c}
                        [] o.state = "FinWait1" -> {s, g}
                        [] o.state = "FinWait2" -> {s}
                        [] OTHER -> {r}
    BY DEF ProcessFin, StartTimeWait
  <2> HIDE DEF nxt
  <2>3. r \in Pcb /\ r.state = o.state /\ r.snd_nxt = o.snd_nxt /\ r.iss = o.iss
    BY <2>1 DEF Pcb
  <2> HIDE DEF r
  <2>4. /\ c.state = "CloseWait" /\ c.snd_nxt = o.snd_nxt /\ c.iss = o.iss
        /\ g.state = "Closing" /\ g.snd_nxt = o.snd_nxt /\ g.iss = o.iss
        /\ s.state = "TimeWait" /\ s.snd_nxt = o.snd_nxt /\ s.iss = o.iss
    BY <2>3 DEF Pcb
  <2> HIDE DEF c, g, s, q
  <2> QED BY <2>2, <2>3, <2>4 DEF q
<1> DEFINE acked == ProcessAck(p, seg)
           read == ProcessText(acked, seg)
           a == acked.state
           b == p.state
           c == ProcessFin(read, seg).state
<1>1. acked \in Pcb /\ Accounted(acked) /\ Active(acked)
  <2>1. Moves(p, acked) /\ Active(acked)
    BY ProcessAckMoves
  <2> HIDE DEF acked
  <2> QED BY <2>1, MovesAccounted DEF Moves
<1>2. a \in CASE b = "SynReceived" -> {"Established"}
              [] b = "FinWait1"    -> {"FinWait1", "FinWait2"}
              [] b = "Closing"     -> {"Closing", "TimeWait"}
              [] OTHER             -> {b}
  BY ProcessAckState
<1> HIDE DEF acked
<1>3. read.state = a /\ read \in Pcb
  BY <1>1, ProcessTextAccounted DEF acked
<1> HIDE DEF read
<1>4. c \in {a} \cup CASE a \in {"SynReceived", "Established"} -> {"CloseWait"}
                       [] a = "FinWait1" -> {"Closing", "TimeWait"}
                       [] a = "FinWait2" -> {"TimeWait"}
                       [] OTHER -> {}
  BY <1>3, <1>ProcessFinState
<1> HIDE DEF a, b, c
<1>5. c \in CASE b \in {"SynReceived", "Established"} -> {"Established", "CloseWait"}
              [] b = "FinWait1" -> {"FinWait1", "FinWait2", "Closing", "TimeWait"}
              [] b = "FinWait2" -> {"FinWait2", "TimeWait"}
              [] b = "Closing"  -> {"Closing", "TimeWait"}
              [] OTHER          -> {b}
  BY <1>2, <1>4
<1> QED BY <1>5 DEF b, c, read, acked

\* Before the deadline a tick of the timer touches the queue and the TIME_WAIT timer only.
LEMMA TickedSame ==
  ASSUME NEW p \in Pcb, ~DeadlineExceeded(p)
  PROVE  Ticked(p).state = p.state /\ Ticked(p).buf = p.buf /\ Ticked(p).backlog = p.backlog
<1> DEFINE z == [i \in DOMAIN p.queue |-> Resent(Aged(p.queue[i]))]
           o == [p EXCEPT !.tw_timer = @ - 1]
<1>1. CASE p.state # "TimeWait"
  <2>1. Ticked(p) = [p EXCEPT !.queue = z]
    BY <1>1, Zenon DEF Ticked, retrans_emit
  <2> HIDE DEF z
  <2> QED BY <2>1 DEF Pcb
<1>2. CASE p.state = "TimeWait"
  <2>1. o.queue = p.queue
    BY DEF Pcb
  <2>2. Ticked(p) = retrans_emit(o)
    BY <1>2, Zenon DEF Ticked
  <2>3. ~DeadlineExceeded(o) /\ z = [i \in DOMAIN o.queue |-> Resent(Aged(o.queue[i]))]
    <3> HIDE DEF o
    <3> QED BY <2>1, Zenon DEF DeadlineExceeded, z
  <2>4. Ticked(p) = [o EXCEPT !.queue = z]
    <3> HIDE DEF o, z
    <3> QED BY <2>2, <2>3, Zenon DEF retrans_emit, z
  <2> HIDE DEF z
  <2> QED BY <2>4 DEF Pcb
<1> QED BY <1>1, <1>2

\* send leaves the buffer alone.
LEMMA TextSentSame ==
  ASSUME NEW p \in Pcb, NEW text \in Seq(Byte), NEW n
  PROVE  TextSent(p, text, n).state = p.state /\ TextSent(p, text, n).buf = p.buf
<1> DEFINE s == Queued(p, {"ACK", "PSH"}, text)
           nxt == Plus(s.snd_nxt, n)
<1>1. s \in Pcb /\ SameBuffer(p, s) /\ s.state = p.state
  BY QueuedType DEF Flag
<1>2. TextSent(p, text, n) = [s EXCEPT !.snd_nxt = nxt]
  BY DEF TextSent
<1> HIDE DEF s, nxt
<1> QED BY <1>1, <1>2 DEF Pcb, SameBuffer
-----------------------------------------------------------------------------
(***************************************************************************)
(* What is in the retransmission queue, and what a change leaves alone.    *)
(***************************************************************************)
\* What the queue holds, without the times.
Sent(p) == {[seq |-> p.queue[i].seq, flg |-> p.queue[i].flg, data |-> p.queue[i].data] : i \in DOMAIN p.queue}

\* output() adds at most what it sends.
LEMMA QueuedSent ==
  ASSUME NEW p \in Pcb, NEW flg, NEW data
  PROVE  LET q == Queued(p, flg, data)
         IN /\ Sent(q) \subseteq Sent(p) \cup {[seq |-> OutputSeq(p, flg), flg |-> flg, data |-> data]}
            /\ q.mode = p.mode /\ q.iss = p.iss /\ q.snd_nxt = p.snd_nxt /\ q.rcv_nxt = p.rcv_nxt
<1> DEFINE e == [seq |-> OutputSeq(p, flg), flg |-> flg, data |-> data, age |-> 0, idle |-> 0, rto |-> TCP_DEFAULT_RTO]
           new == Append(p.queue, e)
           r == [p EXCEPT !.queue = new]
           q == Queued(p, flg, data)
<1>1. q \in {p, r}
  BY DEF Queued
<1>2. p.queue \in Seq(TcpQueueEntry)
  BY DEF Pcb
<1>3. \A i \in DOMAIN new : new[i] = e \/ (i \in DOMAIN p.queue /\ new[i] = p.queue[i])
  <2> HIDE DEF e
  <2> QED BY <1>2
<1>4. e.seq = OutputSeq(p, flg) /\ e.flg = flg /\ e.data = data
  OBVIOUS
<1> HIDE DEF e, new, q
<1>5. /\ r.queue = new /\ r.mode = p.mode /\ r.iss = p.iss /\ r.snd_nxt = p.snd_nxt /\ r.rcv_nxt = p.rcv_nxt
  BY DEF Pcb
<1> HIDE DEF r
<1>6. Sent(r) \subseteq Sent(p) \cup {[seq |-> OutputSeq(p, flg), flg |-> flg, data |-> data]}
  BY <1>3, <1>4, <1>5 DEF Sent
<1> QED BY <1>1, <1>5, <1>6 DEF q

\* retrans_queue_cleanup adds nothing.
LEMMA CleanupSent ==
  ASSUME NEW p \in Pcb
  PROVE  Sent(retrans_queue_cleanup(p)) \subseteq Sent(p) /\ retrans_queue_cleanup(p).mode = p.mode
<1> DEFINE kept == {i \in DOMAIN p.queue : p.snd_una < EntryEnd(p.queue[i])}
           m == Min(kept)
           x == IF kept = {} THEN <<>> ELSE SubSeq(p.queue, m, Len(p.queue))
           q == [p EXCEPT !.queue = x]
<1>1. retrans_queue_cleanup(p) = q
  BY DEF retrans_queue_cleanup
<1>2. p.queue \in Seq(TcpQueueEntry)
  BY DEF Pcb
<1>3. kept # {} => m \in 1..Len(p.queue)
  <2>1. kept \in SUBSET Nat /\ kept \subseteq 1..Len(p.queue)
    BY <1>2
  <2> HIDE DEF kept
  <2> QED BY <2>1, MinProperties
<1> HIDE DEF kept, m
<1>4. \A i \in DOMAIN x : \E j \in DOMAIN p.queue : x[i] = p.queue[j]
  <2>1. CASE kept = {}
    BY <2>1
  <2>2. CASE kept # {}
    <3> DEFINE s == p.queue
               l == Len(s)
    <3>1. x = SubSeq(s, m, l) /\ m \in 1..l /\ l \in Nat /\ DOMAIN s = 1..l
      BY <1>2, <1>3, <2>2
    <3> HIDE DEF s, l, x
    <3>2. \A i \in DOMAIN x : m + i - 1 \in 1..l /\ x[i] = s[m + i - 1]
      BY <3>1
    <3>3. \A i \in DOMAIN x : m + i - 1 \in DOMAIN s
      BY <3>1, <3>2
    <3> QED BY <3>2, <3>3 DEF s
  <2> QED BY <2>1, <2>2
<1> HIDE DEF x
<1>5. q.queue = x /\ q.mode = p.mode
  BY DEF Pcb
<1> HIDE DEF q
<1>6. Sent(q) \subseteq Sent(p)
  BY <1>4, <1>5 DEF Sent
<1> QED BY <1>1, <1>5, <1>6

\* q is p after an ACK: acknowledged entries are gone and snd.una may have advanced to it.
AckOnly(p, q, seg) ==
  /\ Sent(q) \subseteq Sent(p) /\ q.mode = p.mode
  /\ q.snd_una = p.snd_una \/ (q.snd_una = seg.ack /\ p.snd_una < seg.ack /\ seg.ack <= p.snd_nxt)

\* What a SYN leaves in the queue.
SynEntry(iss, flg) == [seq |-> iss, flg |-> flg, data |-> <<>>]
LEMMA QueuedSyn ==
  ASSUME NEW p \in Pcb, NEW flg \in SUBSET Flag, "SYN" \in flg, NEW q, q = Queued(p, flg, <<>>)
  PROVE  /\ q \in Pcb /\ Sent(q) \subseteq Sent(p) \cup {SynEntry(p.iss, flg)} /\ SameEndpoints(p, q) /\ SameBuffer(p, q)
         /\ q.mode = p.mode /\ q.iss = p.iss /\ q.snd_nxt = p.snd_nxt /\ q.rcv_nxt = p.rcv_nxt
         /\ q.snd_una = p.snd_una /\ q.state = p.state
<1>1. <<>> \in Seq(Byte) /\ OutputSeq(p, flg) = p.iss
  BY DEF OutputSeq
<1>2. q \in Pcb /\ SameEndpoints(p, q) /\ SameBuffer(p, q)
  BY <1>1, QueuedType, Zenon
<1>3. q.snd_una = p.snd_una /\ q.state = p.state
  BY <1>1, QueuedCovers, Zenon
<1>4. /\ Sent(q) \subseteq Sent(p) \cup {[seq |-> OutputSeq(p, flg), flg |-> flg, data |-> <<>>]}
      /\ q.mode = p.mode /\ q.iss = p.iss /\ q.snd_nxt = p.snd_nxt /\ q.rcv_nxt = p.rcv_nxt
  BY QueuedSent, Zenon
<1> QED BY <1>1, <1>2, <1>3, <1>4, Zenon DEF SynEntry

-----------------------------------------------------------------------------
(***************************************************************************)
(* The text a connection carries.  Byte number i of the text a host sends  *)
(* is i, and has the sequence number iss + i.                              *)
(***************************************************************************)
Early == {"Listen", "SynSent"}
Sending == {"SynSent", "SynReceived", "Established", "CloseWait"}
Receiving == {"SynReceived", "Established", "FinWait1", "FinWait2"}

\* A segment, or an entry of the queue, of a host whose initial sequence number is iss.
Numbered(e, iss) ==
  ("SYN" \in e.flg => e.seq = iss) /\ \A i \in DOMAIN e.data : e.data[i] = e.seq - iss + i - 1

\* A PCB of the host at addr, whose initial sequence number is iss.
Linked(p, addr, iss) ==
  /\ p.mode = "Rfc" /\ \A e \in Sent(p) : Numbered(e, iss)
  /\ Active(p) \/ Sent(p) # {} => p.local.addr = addr
  /\ Active(p) => p.iss = iss /\ p.remote.addr # ANY

\* A PCB that has sent n bytes, and one whose application has taken n bytes of what a peer sent
\* whose initial sequence number is one of peers.
Wrote(p, iss, n) == p.state \in Sending => p.snd_nxt = iss + 1 + n
Got(p, peers, n) ==
  /\ \A i \in DOMAIN p.buf : p.buf[i] = n + i
  /\ p.state \in Receiving => \A k \in peers : p.rcv_nxt = k + 1 + n + Len(p.buf)

\* q has of p what it still sends and takes.
Carries(p, q) ==
  /\ Sent(q) \subseteq Sent(p) /\ SameEndpoints(p, q) /\ q.mode = p.mode /\ q.iss = p.iss
  /\ q.snd_nxt = p.snd_nxt /\ q.rcv_nxt = p.rcv_nxt /\ q.buf = p.buf
  /\ Active(q) => Active(p)
  /\ \A S \in {Early, Sending, Receiving} : q.state \in S => p.state \in S

\* Such a step changes nothing about the text.
LEMMA CarriesText ==
  ASSUME NEW p, NEW q, Carries(p, q)
  PROVE  /\ \A addr, iss : Linked(p, addr, iss) => Linked(q, addr, iss)
         /\ \A iss, n : Wrote(p, iss, n) => Wrote(q, iss, n)
         /\ \A peers, n : Got(p, peers, n) => Got(q, peers, n)
<1>1. ASSUME NEW addr, NEW iss, Linked(p, addr, iss) PROVE Linked(q, addr, iss)
  BY <1>1 DEF Linked, Carries, SameEndpoints
<1>2. ASSUME NEW iss, NEW n, Wrote(p, iss, n) PROVE Wrote(q, iss, n)
  BY <1>2 DEF Wrote, Carries
<1>3. ASSUME NEW peers, NEW n, Got(p, peers, n) PROVE Got(q, peers, n)
  BY <1>3 DEF Got, Carries
<1> QED BY <1>1, <1>2, <1>3

\* The 5th check.
LEMMA ProcessAckCarries ==
  ASSUME NEW p \in Pcb, NEW seg \in Segment, Active(p), p.state # "SynSent" PROVE Carries(p, ProcessAck(p, seg))
\* The 5th check.
<1>ProcessAckOnly. AckOnly(p, ProcessAck(p, seg), seg)
  \* The 5th check in the states that process an ACK.
  <2>AckInSyncOnly. ASSUME NEW o \in Pcb PROVE AckOnly(o, AckInSync(o, seg), seg)
    <3> USE <2>AckInSyncOnly
    <3> DEFINE s == [o EXCEPT !.snd_una = seg.ack]
               c == retrans_queue_cleanup(s)
               a == [c EXCEPT !.snd_wnd = seg.wnd, !.snd_wl1 = seg.seq, !.snd_wl2 = seg.ack]
               q == IF AckAdvances(o, seg) THEN Acked(o, seg) ELSE o
               Only(r) == Sent(r) \subseteq Sent(o) /\ r.mode = o.mode /\ r.snd_una = seg.ack
    <3>1. s \in Pcb /\ s.queue = o.queue /\ s.mode = o.mode /\ s.snd_una = seg.ack
      BY DEF Pcb, Segment
    <3>2. Acked(o, seg) \in {a, c}
      BY Zenon DEF Acked
    <3>3. Only(s)
      BY <3>1 DEF Sent
    <3> HIDE DEF s
    <3>4. c \in Pcb /\ Sent(c) \subseteq Sent(s) /\ c.mode = s.mode /\ c.snd_una = s.snd_una
      BY <3>1, CleanupKeeps, CleanupType, CleanupSent
    <3>5. Only(c)
      BY <3>3, <3>4, Zenon
    <3> HIDE DEF c
    <3>6. seg.wnd \in Window /\ seg.seq \in SeqNo /\ seg.ack \in SeqNo
      BY DEF Segment
    <3>7. a \in Pcb /\ a.queue = c.queue /\ a.mode = c.mode /\ a.snd_una = c.snd_una
      BY <3>4, <3>6 DEF Pcb
    <3> HIDE DEF a
    <3>8. Only(a)
      BY <3>5, <3>7 DEF Sent
    <3>9. q \in Pcb /\ AckOnly(o, q, seg)
      BY <3>2, <3>4, <3>5, <3>7, <3>8, Zenon DEF AckOnly, AckAdvances
    <3>10. AckInSync(o, seg) = IF q.state = "FinWait1" /\ seg.ack = q.snd_nxt THEN [q EXCEPT !.state = "FinWait2"] ELSE q
      BY Zenon DEF AckInSync
    <3> HIDE DEF q, Only
    <3>11. [q EXCEPT !.state = "FinWait2"].queue = q.queue /\ [q EXCEPT !.state = "FinWait2"].mode = q.mode
           /\ [q EXCEPT !.state = "FinWait2"].snd_una = q.snd_una
      BY <3>9 DEF Pcb
    <3> QED BY <3>9, <3>10, <3>11 DEF AckOnly, Sent
  <2> DEFINE e == [p EXCEPT !.state = "Established"]
             s == [p EXCEPT !.state = "TimeWait", !.tw_timer = TCP_TIMEWAIT_SEC]
             q == ProcessAck(p, seg)
  <2>1. /\ e \in Pcb /\ e.queue = p.queue /\ e.mode = p.mode /\ e.snd_una = p.snd_una /\ e.snd_nxt = p.snd_nxt
        /\ s.queue = p.queue /\ s.mode = p.mode /\ s.snd_una = p.snd_una
    BY DEF Pcb, TcpState
  <2>2. q \in {AckInSync(e, seg), AckInSync(p, seg), s, p}
    BY DEF ProcessAck, StartTimeWait
  <2> HIDE DEF e, s, q
  <2>3. AckOnly(p, AckInSync(p, seg), seg) /\ AckOnly(e, AckInSync(e, seg), seg)
    BY <2>1, <2>AckInSyncOnly
  <2>4. AckOnly(p, AckInSync(e, seg), seg) /\ AckOnly(p, s, seg) /\ AckOnly(p, p, seg)
    BY <2>1, <2>3 DEF AckOnly, Sent
  <2> QED BY <2>2, <2>3, <2>4 DEF q
<1> DEFINE q == ProcessAck(p, seg)
<1>1. Moves(p, q) /\ AckOnly(p, q, seg)
  BY ProcessAckMoves, <1>ProcessAckOnly
<1>2. /\ q.state \in CASE p.state = "SynReceived" -> {"Established"}
                       [] p.state = "FinWait1"    -> {"FinWait1", "FinWait2"}
                       [] p.state = "Closing"     -> {"Closing", "TimeWait"}
                       [] OTHER                   -> {p.state}
      /\ q.snd_nxt = p.snd_nxt /\ q.rcv_nxt = p.rcv_nxt /\ q.iss = p.iss
  BY ProcessAckState, Zenon
<1> HIDE DEF q
<1>3. \A S \in {Early, Sending, Receiving} : q.state \in S => p.state \in S
  BY <1>2 DEF Early, Sending, Receiving, Active
<1>4. Carries(p, q)
  BY <1>1, <1>2, <1>3 DEF Moves, AckOnly, SameBuffer, Carries
<1> QED BY <1>4 DEF q

\* Text that follows the text of a buffer.
LEMMA Appended ==
  ASSUME NEW buf \in Seq(Byte), NEW data \in Seq(Byte), NEW n \in Nat, \A i \in DOMAIN buf : buf[i] = n + i,
         \A i \in DOMAIN data : data[i] = n + Len(buf) + i
  PROVE  Len(buf \o data) = Len(buf) + Len(data) /\ \A i \in DOMAIN (buf \o data) : (buf \o data)[i] = n + i
<1> DEFINE new == buf \o data
           a == Len(buf)
           b == Len(data)
<1>1. a \in Nat /\ b \in Nat /\ DOMAIN buf = 1..a /\ DOMAIN data = 1..b
  OBVIOUS
<1>2. Len(new) = a + b /\ DOMAIN new = 1..(a + b)
  BY <1>1
<1>3. \A i \in 1..(a + b) : new[i] = IF i <= a THEN buf[i] ELSE data[i - a]
  BY <1>1
<1>4. \A i \in 1..b : data[i] = n + a + i
  BY <1>1
<1> HIDE DEF a, b, new
<1>5. ASSUME NEW i \in 1..(a + b) PROVE new[i] = n + i
  <2>1. CASE i <= a
    <3>1. i \in 1..a /\ new[i] = buf[i]
      BY <1>1, <1>3, <2>1
    <3> QED BY <1>1, <3>1
  <2>2. CASE ~(i <= a)
    <3>1. i - a \in 1..b
      BY <1>1, <2>2
    <3>2. data[i - a] = n + a + (i - a) /\ new[i] = data[i - a]
      BY <1>3, <1>4, <2>2, <3>1
    <3> QED BY <1>1, <3>1, <3>2
  <2> QED BY <2>1, <2>2
<1> QED BY <1>2, <1>5 DEF a, b, new

\* An addition that does not wrap.
LEMMA PlusNear == ASSUME NEW n \in Nat, NEW k \in Nat, n + k < SeqMod PROVE Plus(n, k) = n + k
BY TcpPcbAssumption DEF Plus

\* Text of a segment that is taken follows what was taken before.
LEMMA ProcessedText ==
  ASSUME NEW p \in Pcb, NEW seg \in Segment, Active(p), Accounted(p), p.state # "SynSent",
         NEW acked, acked = ProcessAck(p, seg), ~TextRefused(acked, seg),
         NEW q, q = ProcessFin(ProcessText(acked, seg), seg), NEW peers,
         HasText(acked, seg) =>
           \E k \in Nat : peers = {k} /\ Numbered(seg, k) /\ \A i \in DOMAIN seg.data : k + seg.data[i] + 2 < SeqMod
  PROVE  /\ \A addr, iss : Linked(p, addr, iss) => Linked(q, addr, iss)
         /\ \A iss, n : Wrote(p, iss, n) => Wrote(q, iss, n)
         /\ \A n \in Nat : Got(p, peers, n) => Got(q, peers, n)
         /\ q.state \notin Early /\ SameEndpoints(p, q)
\* The 7th and 8th step leave the queue alone, append the text they take to the buffer and
\* count it; a FIN leaves the states in which text is taken.
<1>TextFinKeeps. ASSUME NEW v \in Pcb, q = ProcessFin(ProcessText(v, seg), seg)
      PROVE  /\ Sent(q) = Sent(v) /\ q.mode = v.mode /\ q.iss = v.iss /\ q.snd_nxt = v.snd_nxt /\ q.snd_una = v.snd_una
             /\ q.buf = IF HasText(v, seg) THEN v.buf \o seg.data ELSE v.buf
             /\ "FIN" \in seg.flg => q.rcv_nxt = Plus(seg.seq, 1) /\ q.state \notin {"SynReceived", "Established", "FinWait1", "FinWait2"}
             /\ "FIN" \notin seg.flg =>
                  q.state = v.state /\ q.rcv_nxt = IF HasText(v, seg) THEN Plus(seg.seq, Len(seg.data)) ELSE v.rcv_nxt
  <2> USE <1>TextFinKeeps
  <2> DEFINE buf == v.buf \o seg.data
             end == Plus(seg.seq, Len(seg.data))
             wnd == v.rcv_wnd - Len(seg.data)
             t == [v EXCEPT !.buf = buf, !.rcv_nxt = end, !.rcv_wnd = wnd]
             r == ProcessText(v, seg)
             nxt == Plus(seg.seq, 1)
             f == [r EXCEPT !.rcv_nxt = nxt]
             c == [f EXCEPT !.state = "CloseWait"]
             g == [f EXCEPT !.state = "Closing"]
             s == [f EXCEPT !.state = "TimeWait", !.tw_timer = TCP_TIMEWAIT_SEC]
             Same(a, b) == a.queue = b.queue /\ a.mode = b.mode /\ a.iss = b.iss /\ a.snd_nxt = b.snd_nxt /\ a.snd_una = b.snd_una
  <2>1. r = IF HasText(v, seg) THEN t ELSE v
    BY DEF ProcessText
  <2>2. /\ "FIN" \notin seg.flg => q = r
        /\ "FIN" \in seg.flg => q \in CASE r.state \in {"SynReceived", "Established"} -> {c}
                                        [] r.state = "FinWait1" -> {s, g}
                                        [] r.state = "FinWait2" -> {s}
                                        [] OTHER -> {f}
    <3> HIDE DEF r
    <3> QED BY DEF ProcessFin, StartTimeWait, r
  <2> HIDE DEF buf, end, wnd, nxt
  <2>3. DOMAIN v = DOMAIN t /\ Same(t, v) /\ t.buf = buf /\ t.rcv_nxt = end /\ t.state = v.state
    BY DEF Pcb
  <2> HIDE DEF t
  <2>4. /\ DOMAIN r = DOMAIN v /\ Same(r, v) /\ r.state = v.state
        /\ r.buf = IF HasText(v, seg) THEN buf ELSE v.buf
        /\ r.rcv_nxt = IF HasText(v, seg) THEN end ELSE v.rcv_nxt
    BY <2>1, <2>3
  <2>5. {"state", "mode", "iss", "snd_nxt", "snd_una", "queue", "buf", "rcv_nxt", "tw_timer"} \subseteq DOMAIN v
    BY DEF Pcb
  <2> HIDE DEF r
  <2>6. Same(f, r) /\ f.buf = r.buf /\ f.rcv_nxt = nxt /\ f.state = r.state /\ DOMAIN f = DOMAIN r
    BY <2>4, <2>5
  <2> HIDE DEF f
  <2>7. \A x \in {c, g, s} : Same(x, r) /\ x.buf = r.buf /\ x.rcv_nxt = nxt
    BY <2>4, <2>5, <2>6
  <2>8. c.state = "CloseWait" /\ g.state = "Closing" /\ s.state = "TimeWait"
    BY <2>4, <2>5, <2>6
  <2> HIDE DEF c, g, s
  <2>9. CASE "FIN" \notin seg.flg
    BY <2>2, <2>4, <2>9 DEF Sent, buf, end
  <2>10. CASE "FIN" \in seg.flg
    <3>1. q.state \notin {"SynReceived", "Established", "FinWait1", "FinWait2"} /\ q \in {c, g, s, f}
      BY <2>2, <2>6, <2>8, <2>10
    <3>2. Same(q, r) /\ q.buf = r.buf /\ q.rcv_nxt = nxt
      BY <2>6, <2>7, <3>1
    <3> QED BY <2>4, <2>10, <3>1, <3>2 DEF Sent, buf, nxt
  <2> QED BY <2>9, <2>10
<1>1. acked \in Pcb /\ Active(acked) /\ Carries(p, acked)
  BY ProcessAckMoves, ProcessAckCarries, Zenon DEF Moves
<1>2. SameEndpoints(p, q) /\ Active(q)
  BY ArrivalAccounted
<1>3. /\ Sent(q) = Sent(acked) /\ q.mode = acked.mode /\ q.iss = acked.iss /\ q.snd_nxt = acked.snd_nxt
      /\ q.buf = IF HasText(acked, seg) THEN acked.buf \o seg.data ELSE acked.buf
      /\ "FIN" \in seg.flg => q.state \notin Receiving
      /\ "FIN" \notin seg.flg =>
           q.state = acked.state /\ q.rcv_nxt = IF HasText(acked, seg) THEN Plus(seg.seq, Len(seg.data)) ELSE acked.rcv_nxt
  BY <1>1, <1>TextFinKeeps DEF Receiving
<1>4. (q.state \in Sending => p.state \in Sending) /\ q.state \notin Early
  BY ProcessedState DEF Sending, Early, Active
<1>5. ASSUME NEW addr, NEW iss, Linked(p, addr, iss) PROVE Linked(q, addr, iss)
  BY <1>1, <1>2, <1>3, <1>5 DEF Linked, Carries, SameEndpoints
<1>6. ASSUME NEW iss, NEW n, Wrote(p, iss, n) PROVE Wrote(q, iss, n)
  BY <1>1, <1>3, <1>4, <1>6 DEF Wrote, Carries
<1>7. ASSUME NEW n \in Nat, Got(p, peers, n) PROVE Got(q, peers, n)
  <2>1. Got(acked, peers, n)
    BY <1>1, <1>7, CarriesText, Zenon
  <2>2. CASE ~HasText(acked, seg)
    BY <1>3, <2>1, <2>2 DEF Got
  <2>3. CASE HasText(acked, seg)
    <3> DEFINE a == Len(acked.buf)
               b == Len(seg.data)
    <3>1. PICK k \in Nat : peers = {k} /\ Numbered(seg, k) /\ \A i \in DOMAIN seg.data : k + seg.data[i] + 2 < SeqMod
      BY <2>3
    <3>2. acked.state \in Receiving /\ acked.rcv_nxt = seg.seq /\ seg.data # <<>>
      BY <2>3 DEF HasText, TextRefused, Receiving
    <3>3. acked.buf \in Seq(Byte) /\ seg.data \in Seq(Byte)
      BY <1>1 DEF Pcb, Segment
    <3>4. a \in Nat /\ b \in Nat /\ b # 0 /\ DOMAIN seg.data = 1..b
      BY <3>2, <3>3, LenType
    <3>5. seg.seq = k + 1 + n + a /\ \A i \in DOMAIN acked.buf : acked.buf[i] = n + i
      BY <2>1, <3>1, <3>2 DEF Got
    <3>6. \A i \in DOMAIN seg.data : seg.data[i] = seg.seq - k + i - 1
      BY <3>1 DEF Numbered
    <3> HIDE DEF a, b
    <3>7. ASSUME NEW i \in 1..b PROVE seg.data[i] = n + a + i
      <4>1. seg.data[i] = seg.seq - k + i - 1
        BY <3>4, <3>6
      <4> QED BY <3>4, <3>5, <4>1
    <3>8. Len(q.buf) = a + b /\ \A i \in DOMAIN q.buf : q.buf[i] = n + i
      <4>1. q.buf = acked.buf \o seg.data
        BY <1>3, <2>3
      <4> DEFINE u == acked.buf
                 v == seg.data
                 w == q.buf
      <4>2. \A i \in DOMAIN v : v[i] = n + Len(u) + i
        BY <3>4, <3>7 DEF a
      <4>3. u \in Seq(Byte) /\ v \in Seq(Byte) /\ w = u \o v
        BY <3>3, <4>1
      <4>4. \A i \in DOMAIN u : u[i] = n + i
        BY <3>5
      <4> HIDE DEF u, v, w
      <4>5. Len(u \o v) = Len(u) + Len(v) /\ \A i \in DOMAIN (u \o v) : (u \o v)[i] = n + i
        BY <4>2, <4>3, <4>4, Appended, Zenon
      <4> QED BY <4>3, <4>5, Zenon DEF a, b, u, v, w
    <3>9. q.state \in Receiving => q.rcv_nxt = k + 1 + n + (a + b)
      <4>1. seg.data[b] = n + a + b /\ k + seg.data[b] + 2 < SeqMod
        BY <3>1, <3>4, <3>7
      <4>2. seg.seq \in Nat /\ seg.seq + b < SeqMod /\ seg.seq + b = k + 1 + n + (a + b)
        BY <3>4, <3>5, <4>1, TcpPcbAssumption
      <4>3. Plus(seg.seq, b) = seg.seq + b
        BY <3>4, <4>2, PlusNear
      <4> QED BY <1>3, <2>3, <4>2, <4>3 DEF b
    <3> QED BY <3>1, <3>8, <3>9 DEF Got
  <2> QED BY <2>2, <2>3
<1> QED BY <1>2, <1>4, <1>5, <1>6, <1>7

\* send passes on the text that follows what was sent before.
LEMMA TextSentText ==
  ASSUME NEW p \in Pcb, p.state \in {"Established", "CloseWait"}, NEW addr, NEW iss \in Nat, Linked(p, addr, iss),
         NEW w \in Nat, Wrote(p, iss, w), NEW text \in Seq(Byte), NEW n \in Nat, \A i \in DOMAIN text : text[i] = w + i,
         iss + 1 + w + n < SeqMod, NEW q, q = TextSent(p, text, n)
  PROVE  /\ Numbered([seq |-> p.snd_nxt, flg |-> {"ACK", "PSH"}, data |-> text], iss)
         /\ Linked(q, addr, iss) /\ Wrote(q, iss, w + n) /\ q.state = p.state /\ SameEndpoints(p, q)
         /\ \A peers, m : Got(p, peers, m) => Got(q, peers, m)
\* send queues its text behind everything sent so far.
<1>TextSentKeeps. ASSUME NEW k, q = TextSent(p, text, k)
      PROVE  /\ Sent(q) \subseteq Sent(p) \cup {[seq |-> p.snd_nxt, flg |-> {"ACK", "PSH"}, data |-> text]}
             /\ q.mode = p.mode /\ q.iss = p.iss /\ q.snd_nxt = Plus(p.snd_nxt, k) /\ q.rcv_nxt = p.rcv_nxt
             /\ q.snd_una = p.snd_una /\ q.state = p.state /\ SameEndpoints(p, q) /\ SameBuffer(p, q)
  <2> USE <1>TextSentKeeps
  <2> DEFINE flg == {"ACK", "PSH"}
             r == Queued(p, flg, text)
             end == Plus(r.snd_nxt, k)
             x == [r EXCEPT !.snd_nxt = end]
  <2>1. flg \in SUBSET Flag /\ OutputSeq(p, flg) = p.snd_nxt
    BY DEF Flag, OutputSeq
  <2>2. q = x
    BY Zenon DEF TextSent
  <2> HIDE DEF flg
  <2>3. r \in Pcb /\ SameEndpoints(p, r) /\ SameBuffer(p, r)
    BY <2>1, QueuedType, Zenon
  <2>4. r.snd_una = p.snd_una /\ r.state = p.state
    BY <2>1, QueuedCovers, Zenon
  <2>5. /\ Sent(r) \subseteq Sent(p) \cup {[seq |-> p.snd_nxt, flg |-> flg, data |-> text]}
        /\ r.mode = p.mode /\ r.iss = p.iss /\ r.snd_nxt = p.snd_nxt /\ r.rcv_nxt = p.rcv_nxt
    BY <2>1, QueuedSent, Zenon
  <2>6. end = Plus(p.snd_nxt, k)
    BY <2>5
  <2> HIDE DEF r, end
  <2>7. /\ x.queue = r.queue /\ x.mode = r.mode /\ x.iss = r.iss /\ x.rcv_nxt = r.rcv_nxt /\ x.snd_una = r.snd_una /\ x.snd_nxt = end
        /\ x.state = r.state /\ x.local = r.local /\ x.remote = r.remote /\ x.buf = r.buf /\ x.rcv_wnd = r.rcv_wnd
    BY <2>3 DEF Pcb
  <2> HIDE DEF x
  <2> QED BY <2>2, <2>3, <2>4, <2>5, <2>6, <2>7 DEF Sent, SameEndpoints, SameBuffer, flg
<1> DEFINE e == [seq |-> p.snd_nxt, flg |-> {"ACK", "PSH"}, data |-> text]
<1>1. /\ Sent(q) \subseteq Sent(p) \cup {e}
      /\ q.mode = p.mode /\ q.iss = p.iss /\ q.snd_nxt = Plus(p.snd_nxt, n) /\ q.rcv_nxt = p.rcv_nxt
      /\ q.state = p.state /\ SameEndpoints(p, q) /\ SameBuffer(p, q)
  BY <1>TextSentKeeps
<1>2. p.snd_nxt = iss + 1 + w /\ Active(p)
  BY DEF Wrote, Sending, Active
<1>3. Numbered(e, iss)
  <2>1. e.seq = iss + 1 + w /\ e.data = text /\ "SYN" \notin e.flg
    BY <1>2
  <2> HIDE DEF e
  <2>2. DOMAIN text \subseteq Int
    OBVIOUS
  <2>3. ASSUME NEW i \in DOMAIN text PROVE text[i] = iss + 1 + w - iss + i - 1
    BY <2>2
  <2> QED BY <2>1, <2>3 DEF Numbered
<1> HIDE DEF e
<1>4. Linked(q, addr, iss)
  BY <1>1, <1>2, <1>3 DEF Linked, Active, SameEndpoints
<1>5. q.snd_nxt = iss + 1 + (w + n)
  <2>1. p.snd_nxt \in Nat /\ p.snd_nxt + n < SeqMod
    BY <1>2, TcpPcbAssumption
  <2>2. Plus(p.snd_nxt, n) = p.snd_nxt + n
    BY <2>1, PlusNear
  <2> QED BY <1>1, <1>2, <2>2
<1>6. ASSUME NEW peers, NEW m, Got(p, peers, m) PROVE Got(q, peers, m)
  BY <1>1, <1>6 DEF Got, SameBuffer
<1> QED BY <1>1, <1>3, <1>4, <1>5, <1>6 DEF Wrote, e

\* A piece of a sequence.
LEMMA Piece ==
  ASSUME NEW S, NEW s \in Seq(S), NEW k \in Nat, NEW n \in Nat, k + n <= Len(s)
  PROVE  /\ SubSeq(s, k + 1, k + n) \in Seq(S) /\ Len(SubSeq(s, k + 1, k + n)) = n
         /\ \A i \in 1..n : SubSeq(s, k + 1, k + n)[i] = s[k + i]
<1> DEFINE a == k + 1
           b == k + n
<1>1. a \in Int /\ b \in Int /\ b = a + n - 1 /\ \A i \in a..b : s[i] \in S
  OBVIOUS
<1> HIDE DEF a, b
<1>2. SubSeq(s, a, b) \in Seq(S) /\ \A i \in 1..(b - a + 1) : SubSeq(s, a, b)[i] = s[a + i - 1]
  BY <1>1
<1>3. ASSUME NEW i \in 1..n PROVE SubSeq(s, a, b)[i] = s[k + i]
  <2>1. i \in 1..(b - a + 1) /\ a + i - 1 = k + i
    BY <1>1 DEF a
  <2> QED BY <1>2, <2>1
<1>4. Len(SubSeq(s, a, b)) = n
  BY PieceLength, Zenon DEF a, b
<1> QED BY <1>2, <1>3, <1>4 DEF a, b

\* receive takes the text from the front of the buffer.
LEMMA DrainedText ==
  ASSUME NEW p \in Pcb, NEW n \in 1..Len(p.buf), NEW peers, NEW m \in Nat, Got(p, peers, m), peers \subseteq Nat,
         NEW q, q = Drained(p, n)
  PROVE  /\ Got(q, peers, m + n) /\ SameEndpoints(p, q) /\ q.state = p.state
         /\ \A addr, iss : Linked(p, addr, iss) => Linked(q, addr, iss)
         /\ \A iss, w : Wrote(p, iss, w) => Wrote(q, iss, w)
         /\ SubSeq(p.buf, 1, n) \in Seq(Byte) /\ Len(SubSeq(p.buf, 1, n)) = n
         /\ \A i \in 1..n : SubSeq(p.buf, 1, n)[i] = m + i
<1> DEFINE a == Len(p.buf)
           rest == SubSeq(p.buf, n + 1, a)
           text == SubSeq(p.buf, 1, n)
           wnd == p.rcv_wnd + n
           x == [p EXCEPT !.buf = rest, !.rcv_wnd = wnd]
<1>1. p.buf \in Seq(Byte) /\ a \in Nat /\ n \in Nat /\ n <= a /\ a - n \in Nat /\ DOMAIN p.buf = 1..a
  BY DEF Pcb
<1>2. \A i \in 1..a : p.buf[i] = m + i
  BY <1>1 DEF Got
<1>3. q = x
  BY Zenon DEF Drained
<1> HIDE DEF rest, wnd
<1>4. /\ x.buf = rest /\ x.queue = p.queue /\ x.mode = p.mode /\ x.iss = p.iss /\ x.snd_nxt = p.snd_nxt /\ x.rcv_nxt = p.rcv_nxt
      /\ x.state = p.state /\ x.local = p.local /\ x.remote = p.remote
  BY DEF Pcb
<1> HIDE DEF x, a
<1>p. ASSUME NEW k \in Nat, NEW l \in Nat, k + l <= a
      PROVE  /\ SubSeq(p.buf, k + 1, k + l) \in Seq(Byte) /\ Len(SubSeq(p.buf, k + 1, k + l)) = l
             /\ \A i \in 1..l : SubSeq(p.buf, k + 1, k + l)[i] = p.buf[k + i]
  <2> DEFINE u == p.buf
  <2>1. u \in Seq(Byte) /\ k + l <= Len(u)
    BY <1>1, <1>p DEF a
  <2> HIDE DEF u
  <2>2. /\ SubSeq(u, k + 1, k + l) \in Seq(Byte) /\ Len(SubSeq(u, k + 1, k + l)) = l
        /\ \A i \in 1..l : SubSeq(u, k + 1, k + l)[i] = u[k + i]
    BY <2>1, Piece
  <2> QED BY <2>2 DEF u
<1>5. rest \in Seq(Byte) /\ Len(rest) = a - n /\ \A i \in 1..(a - n) : rest[i] = p.buf[n + i]
  <2> DEFINE l == a - n
  <2>1. n + l = a /\ n + l <= a /\ l \in Nat
    BY <1>1
  <2> HIDE DEF l
  <2>2. /\ SubSeq(p.buf, n + 1, n + l) \in Seq(Byte) /\ Len(SubSeq(p.buf, n + 1, n + l)) = l
        /\ \A i \in 1..l : SubSeq(p.buf, n + 1, n + l)[i] = p.buf[n + i]
    BY <1>1, <1>p, <2>1, Zenon
  <2> QED BY <2>1, <2>2, Zenon DEF rest, l
<1>6. text \in Seq(Byte) /\ Len(text) = n /\ \A i \in 1..n : text[i] = m + i
  <2>1. 0 \in Nat /\ 0 + n <= a /\ 0 + 1 = 1 /\ 0 + n = n /\ \A i \in 1..n : 0 + i = i
    BY <1>1
  <2>2. /\ SubSeq(p.buf, 0 + 1, 0 + n) \in Seq(Byte) /\ Len(SubSeq(p.buf, 0 + 1, 0 + n)) = n
        /\ \A i \in 1..n : SubSeq(p.buf, 0 + 1, 0 + n)[i] = p.buf[0 + i]
    BY <1>1, <1>p, <2>1, Zenon
  <2>3. text \in Seq(Byte) /\ Len(text) = n /\ \A i \in 1..n : text[i] = p.buf[i]
    BY <2>1, <2>2
  <2> HIDE DEF text
  <2>4. \A i \in 1..n : i \in 1..a
    BY <1>1
  <2> QED BY <1>2, <2>3, <2>4, Zenon
<1>7. Got(q, peers, m + n)
  <2>1. \A i \in DOMAIN rest : rest[i] = (m + n) + i
    <3>1. DOMAIN rest = 1..(a - n)
      BY <1>1, <1>5
    <3>2. ASSUME NEW i \in 1..(a - n) PROVE rest[i] = (m + n) + i
      <4>1. n + i \in 1..a
        BY <1>1
      <4>2. rest[i] = m + (n + i)
        BY <1>2, <1>5, <4>1, Zenon
      <4> QED BY <1>1, <4>2
    <3> QED BY <3>1, <3>2
  <2>2. ASSUME p.state \in Receiving, NEW k \in peers PROVE p.rcv_nxt = k + 1 + (m + n) + (a - n)
    <3>1. p.rcv_nxt = k + 1 + m + a /\ k \in Nat
      BY <2>2 DEF Got, a
    <3> QED BY <1>1, <3>1
  <2> QED BY <1>3, <1>4, <1>5, <2>1, <2>2 DEF Got
<1>8. /\ \A addr, iss : Linked(p, addr, iss) => Linked(q, addr, iss)
      /\ \A iss, w : Wrote(p, iss, w) => Wrote(q, iss, w)
  BY <1>3, <1>4 DEF Linked, Wrote, Sent, Active
<1> QED BY <1>3, <1>4, <1>6, <1>7, <1>8 DEF SameEndpoints

\* The FIN of close carries no text.
LEMMA FinSentText ==
  ASSUME NEW p \in Pcb, p.state \in {"SynReceived", "Established", "CloseWait"}, NEW q,
         q = FinSent(p, IF p.state = "CloseWait" THEN "LastAck" ELSE "FinWait1")
  PROVE  /\ \A addr, iss : Linked(p, addr, iss) => Linked(q, addr, iss)
         /\ \A iss, n : Wrote(q, iss, n)
         /\ \A peers, n : Got(p, peers, n) => Got(q, peers, n)
         /\ q.state \notin Early /\ SameEndpoints(p, q)
\* close queues a FIN that follows everything sent so far.
<1>FinSentKeeps. ASSUME NEW state, q = FinSent(p, state)
      PROVE  /\ Sent(q) \subseteq Sent(p) \cup {[seq |-> p.snd_nxt, flg |-> {"ACK", "FIN"}, data |-> <<>>]}
             /\ q.mode = p.mode /\ q.iss = p.iss /\ q.snd_nxt = Plus(p.snd_nxt, 1) /\ q.rcv_nxt = p.rcv_nxt
             /\ q.snd_una = p.snd_una /\ q.state = state /\ SameEndpoints(p, q) /\ SameBuffer(p, q)
  <2> USE <1>FinSentKeeps
  <2> DEFINE flg == {"ACK", "FIN"}
             r == Queued(p, flg, <<>>)
             end == Plus(r.snd_nxt, 1)
             x == [r EXCEPT !.snd_nxt = end, !.state = state]
  <2>1. flg \in SUBSET Flag /\ <<>> \in Seq(Byte) /\ OutputSeq(p, flg) = p.snd_nxt
    BY DEF Flag, OutputSeq
  <2>2. q = x
    BY Zenon DEF FinSent
  <2> HIDE DEF flg
  <2>3. r \in Pcb /\ SameEndpoints(p, r) /\ SameBuffer(p, r)
    BY <2>1, QueuedType, Zenon
  <2>4. r.snd_una = p.snd_una
    BY <2>1, QueuedCovers, Zenon
  <2>5. /\ Sent(r) \subseteq Sent(p) \cup {[seq |-> p.snd_nxt, flg |-> flg, data |-> <<>>]}
        /\ r.mode = p.mode /\ r.iss = p.iss /\ r.snd_nxt = p.snd_nxt /\ r.rcv_nxt = p.rcv_nxt
    BY <2>1, QueuedSent, Zenon
  <2>6. end = Plus(p.snd_nxt, 1)
    BY <2>5
  <2> HIDE DEF r, end
  <2>7. /\ x.queue = r.queue /\ x.mode = r.mode /\ x.iss = r.iss /\ x.rcv_nxt = r.rcv_nxt /\ x.snd_una = r.snd_una /\ x.snd_nxt = end
        /\ x.state = state /\ x.local = r.local /\ x.remote = r.remote /\ x.buf = r.buf /\ x.rcv_wnd = r.rcv_wnd
    BY <2>3 DEF Pcb
  <2> HIDE DEF x
  <2> QED BY <2>2, <2>3, <2>4, <2>5, <2>6, <2>7 DEF Sent, SameEndpoints, SameBuffer, flg
<1> DEFINE state == IF p.state = "CloseWait" THEN "LastAck" ELSE "FinWait1"
           e == [seq |-> p.snd_nxt, flg |-> {"ACK", "FIN"}, data |-> <<>>]
<1>1. /\ Sent(q) \subseteq Sent(p) \cup {e} /\ q.mode = p.mode /\ q.iss = p.iss /\ q.rcv_nxt = p.rcv_nxt
      /\ q.state = state /\ SameEndpoints(p, q) /\ SameBuffer(p, q)
  BY <1>FinSentKeeps
<1>2. \A iss : Numbered(e, iss)
  BY DEF Numbered
<1> HIDE DEF e
<1>3. Active(p) /\ q.state \notin Sending \cup Early /\ (q.state \in Receiving => p.state \in Receiving)
  BY <1>1 DEF Active, Sending, Early, Receiving
<1>4. ASSUME NEW addr, NEW iss, Linked(p, addr, iss) PROVE Linked(q, addr, iss)
  BY <1>1, <1>2, <1>3, <1>4 DEF Linked, SameEndpoints
<1>5. ASSUME NEW peers, NEW n, Got(p, peers, n) PROVE Got(q, peers, n)
  BY <1>1, <1>3, <1>5 DEF Got, SameBuffer
<1> QED BY <1>1, <1>3, <1>4, <1>5 DEF Wrote

\* A tick of the timer.
LEMMA TickedCarries == ASSUME NEW p \in Pcb, Accounted(p), ~TimeWaitElapsed(p) PROVE Carries(p, Ticked(p))
\* A tick of the timer touches the times in the queue, and may close the PCB.
<1>TickedKeeps. ASSUME NEW q, q = Ticked(p)
      PROVE  /\ Sent(q) \subseteq Sent(p) /\ q.mode = p.mode /\ q.iss = p.iss /\ q.snd_nxt = p.snd_nxt /\ q.rcv_nxt = p.rcv_nxt
             /\ q.snd_una = p.snd_una /\ q.buf = p.buf
  <2> USE <1>TickedKeeps
  <2> DEFINE timer == p.tw_timer - 1
             r == IF p.state = "TimeWait" THEN [p EXCEPT !.tw_timer = timer] ELSE p
             aged == AgedQueue(p)
             resent == [i \in DOMAIN p.queue |-> Resent(Aged(p.queue[i]))]
             Same(x) == x.mode = p.mode /\ x.iss = p.iss /\ x.snd_nxt = p.snd_nxt /\ x.rcv_nxt = p.rcv_nxt /\ x.snd_una = p.snd_una /\ x.buf = p.buf
  <2>1. p.state = "TimeWait" => timer \in Nat
    BY DEF TimeWaitElapsed, Pcb
  <2> HIDE DEF timer
  <2>2. r \in Pcb /\ Same(r) /\ r.queue = p.queue
    BY <2>1 DEF Pcb
  <2>3. q = retrans_emit(r)
    BY Zenon DEF Ticked, timer
  <2> HIDE DEF r
  <2>4. q \in {[r EXCEPT !.state = "Closed", !.queue = aged], [r EXCEPT !.queue = resent]}
    BY <2>2, <2>3, Zenon DEF retrans_emit, AgedQueue
  <2>5. \A i \in DOMAIN p.queue : p.queue[i] \in TcpQueueEntry
    BY DEF Pcb
  <2>6. \A e \in TcpQueueEntry : Aged(e).seq = e.seq /\ Aged(e).flg = e.flg /\ Aged(e).data = e.data
    BY DEF Aged, TcpQueueEntry
  <2>7. /\ DOMAIN aged = DOMAIN p.queue /\ DOMAIN resent = DOMAIN p.queue
        /\ \A i \in DOMAIN p.queue : aged[i] = Aged(p.queue[i]) /\ resent[i] = Resent(Aged(p.queue[i]))
    BY DEF AgedQueue
  <2> HIDE DEF aged, resent
  <2>8. Same(q) /\ q.queue \in {aged, resent}
    BY <2>2, <2>4 DEF Pcb
  <2>9. \A i \in DOMAIN q.queue : /\ i \in DOMAIN p.queue /\ q.queue[i].seq = p.queue[i].seq /\ q.queue[i].flg = p.queue[i].flg
                                  /\ q.queue[i].data = p.queue[i].data
    BY <2>5, <2>6, <2>7, <2>8, ResentKeeps
  <2> QED BY <2>8, <2>9 DEF Sent
<1> DEFINE q == Ticked(p)
<1>1. /\ Sent(q) \subseteq Sent(p) /\ q.mode = p.mode /\ q.iss = p.iss /\ q.snd_nxt = p.snd_nxt /\ q.rcv_nxt = p.rcv_nxt
      /\ q.buf = p.buf
  BY <1>TickedKeeps, Zenon
<1>2. SameEndpoints(p, q) /\ (Active(q) => Active(p)) /\ q.state \in {p.state, "Closed"}
  BY TickedFits, TickedState
<1> HIDE DEF q
<1>3. \A S \in {Early, Sending, Receiving} : q.state \in S => p.state \in S
  BY <1>2 DEF Early, Sending, Receiving
<1> QED BY <1>1, <1>2, <1>3 DEF Carries, q

\* The SYN that a host answers is numbered.
LEMMA SynNumbered == ASSUME NEW iss, NEW flg PROVE Numbered(SynEntry(iss, flg), iss)
BY DEF Numbered, SynEntry

\* The peer's SYN reaches a PCB in SYN_SENT.
LEMMA SynSentText ==
  ASSUME NEW p \in Pcb, p.state = "SynSent", p.buf = <<>>, NEW addr, NEW iss, Linked(p, addr, iss),
         NEW seg \in Segment, seg.seq \in Nat, seg.seq + 1 < SeqMod, NEW q, q = SynSentSyn(p, seg)
  PROVE  /\ Linked(q, addr, iss) /\ Got(q, {seg.seq}, 0)
         /\ \A n : Wrote(p, iss, n) => Wrote(q, iss, n)
         /\ q.state \notin Early /\ SameEndpoints(p, q)
\* The answer to a SYN in SYN_SENT.
<1>SynSentSynKeeps. /\ Sent(q) \subseteq Sent(p) \cup {SynEntry(p.iss, {"SYN", "ACK"})}
                    /\ q.mode = p.mode /\ q.iss = p.iss /\ q.snd_nxt = p.snd_nxt /\ q.rcv_nxt = Plus(seg.seq, 1)
                    /\ q.snd_una = p.snd_una \/ (q.snd_una = seg.ack /\ p.snd_una <= seg.ack /\ "ACK" \in seg.flg)
                    /\ q.state \in {"SynReceived", "Established"}
  <2> DEFINE nxt == Plus(seg.seq, 1)
             r == [p EXCEPT !.rcv_nxt = nxt]
             una == [r EXCEPT !.snd_una = seg.ack]
             c == retrans_queue_cleanup(una)
             a == SynSentAcked(p, seg)
             est == [a EXCEPT !.state = "Established", !.snd_wnd = seg.wnd, !.snd_wl1 = seg.seq, !.snd_wl2 = seg.ack]
             rcvd == [a EXCEPT !.state = "SynReceived"]
             flg == {"SYN", "ACK"}
             syn == Queued(rcvd, flg, <<>>)
             Same(x, y) == x.mode = y.mode /\ x.iss = y.iss /\ x.snd_nxt = y.snd_nxt /\ x.rcv_nxt = y.rcv_nxt
  <2>0. seg.ack \in SeqNo /\ nxt \in SeqNo /\ seg.wnd \in Window /\ seg.seq \in SeqNo
    <3>1. seg.ack \in SeqNo /\ seg.seq \in Int /\ seg.wnd \in Window /\ seg.seq \in SeqNo
      BY TcpPcbAssumption DEF Segment, SeqNo
    <3> QED BY <3>1, PlusType
  <2>1. a \in {r, c} /\ (a = c => SynSentAcceptable(p, seg) \/ a = r)
    BY DEF SynSentAcked
  <2>2. q \in {est, syn}
    BY DEF SynSentSyn
  <2> HIDE DEF nxt
  <2>3. /\ r \in Pcb /\ r.queue = p.queue /\ r.mode = p.mode /\ r.iss = p.iss /\ r.snd_nxt = p.snd_nxt /\ r.rcv_nxt = nxt
        /\ r.snd_una = p.snd_una
    BY <2>0 DEF Pcb
  <2> HIDE DEF r
  <2>4. una \in Pcb /\ una.queue = r.queue /\ Same(una, r) /\ una.snd_una = seg.ack
    BY <2>0, <2>3 DEF Pcb
  <2> HIDE DEF una
  <2>5. c \in Pcb /\ Sent(c) \subseteq Sent(una) /\ Same(c, una) /\ c.snd_una = una.snd_una
    BY <2>4, CleanupType, CleanupKeeps, CleanupSent
  <2> HIDE DEF c
  <2>6. a \in Pcb /\ Sent(a) \subseteq Sent(p) /\ Same(a, r)
    <3>1. Sent(r) = Sent(p) /\ Sent(una) = Sent(p)
      BY <2>3, <2>4, Zenon DEF Sent
    <3>2. Sent(c) \subseteq Sent(p) /\ Same(c, r)
      BY <2>4, <2>5, <3>1, Zenon
    <3> HIDE DEF Same
    <3>3. Same(r, r)
      BY DEF Same
    <3> QED BY <2>1, <2>3, <2>5, <3>1, <3>2, <3>3
  <2>7. a.snd_una = p.snd_una \/ (a.snd_una = seg.ack /\ p.snd_una <= seg.ack /\ "ACK" \in seg.flg)
    BY <2>1, <2>3, <2>4, <2>5, Zenon DEF SynSentAcceptable
  <2> HIDE DEF a
  <2>8. est.queue = a.queue /\ Same(est, a) /\ est.snd_una = a.snd_una /\ est.state = "Established"
    BY <2>0, <2>6 DEF Pcb
  <2>9. rcvd \in Pcb /\ rcvd.queue = a.queue /\ Same(rcvd, a) /\ rcvd.snd_una = a.snd_una /\ rcvd.state = "SynReceived"
    BY <2>6 DEF Pcb, TcpState
  <2> HIDE DEF est, rcvd
  <2>10. /\ Same(syn, rcvd) /\ syn.snd_una = rcvd.snd_una /\ syn.state = "SynReceived"
         /\ Sent(syn) \subseteq Sent(rcvd) \cup {SynEntry(rcvd.iss, flg)}
    <3>1. flg \in SUBSET Flag /\ "SYN" \in flg
      BY DEF Flag
    <3> HIDE DEF flg
    <3> QED BY <2>9, <3>1, QueuedSyn, Zenon
  <2> HIDE DEF syn
  <2>11. Sent(rcvd) = Sent(a) /\ Sent(est) = Sent(a)
    BY <2>8, <2>9 DEF Sent
  <2> QED BY <2>2, <2>3, <2>6, <2>7, <2>8, <2>9, <2>10, <2>11 DEF nxt
<1>1. /\ Sent(q) \subseteq Sent(p) \cup {SynEntry(p.iss, {"SYN", "ACK"})}
      /\ q.mode = p.mode /\ q.iss = p.iss /\ q.snd_nxt = p.snd_nxt /\ q.rcv_nxt = Plus(seg.seq, 1)
      /\ q.state \in {"SynReceived", "Established"}
  BY <1>SynSentSynKeeps
<1>2. Active(p) /\ p.iss = iss /\ p.state \in Sending /\ q.state \notin Early
  BY <1>1 DEF Active, Linked, Sending, Early
<1>3. SameBuffer(p, q) /\ SameEndpoints(p, q)
  BY <1>2, SynSentSynMoves DEF Moves
<1>4. Numbered(SynEntry(p.iss, {"SYN", "ACK"}), iss)
  BY <1>2, SynNumbered
<1>5. Linked(q, addr, iss)
  BY <1>1, <1>2, <1>3, <1>4 DEF Linked, SameEndpoints
<1>6. q.buf = <<>> /\ q.rcv_nxt = seg.seq + 1 + 0 + Len(q.buf)
  <2>1. Plus(seg.seq, 1) = seg.seq + 1
    BY PlusNear
  <2> QED BY <1>1, <1>3, <2>1 DEF SameBuffer
<1>7. Got(q, {seg.seq}, 0)
  BY <1>6 DEF Got
<1> QED BY <1>1, <1>2, <1>3, <1>5, <1>7 DEF Wrote

\* The peer's SYN reaches a PCB in LISTEN.
LEMMA SynArrivesText ==
  ASSUME NEW p \in Pcb, p.state = "Listen", p.buf = <<>>, NEW addr, NEW iss \in SeqNo, Linked(p, addr, iss), iss + 1 < SeqMod,
         NEW seg \in Segment, seg.seq \in Nat, seg.seq + 1 < SeqMod, seg.dst.addr = addr, seg.src.addr # ANY,
         NEW q, q = SynArrives(p, seg, iss)
  PROVE  Linked(q, addr, iss) /\ Got(q, {seg.seq}, 0) /\ Wrote(q, iss, 0) /\ q.state \notin Early /\ q.remote = seg.src
\* A SYN taken by a listening PCB.
<1>SynArrivesKeeps. /\ Sent(q) \subseteq Sent(p) \cup {SynEntry(iss, {"SYN", "ACK"})}
                    /\ q.mode = p.mode /\ q.iss = iss /\ q.snd_nxt = Plus(iss, 1) /\ q.snd_una = iss
                    /\ q.rcv_nxt = Plus(seg.seq, 1) /\ q.state = "SynReceived"
  <2> DEFINE nxt == Plus(seg.seq, 1)
             s == [p EXCEPT !.local = seg.dst, !.remote = seg.src, !.rcv_wnd = RECV_BUF_SIZE, !.rcv_nxt = nxt, !.iss = iss]
             flg == {"SYN", "ACK"}
             r == Queued(s, flg, <<>>)
             end == Plus(iss, 1)
             x == [r EXCEPT !.snd_nxt = end, !.snd_una = iss, !.state = "SynReceived"]
  <2>1. flg \in SUBSET Flag /\ "SYN" \in flg /\ RECV_BUF_SIZE \in Window
    BY TcpPcbAssumption DEF Flag, Window
  <2>2. seg.dst \in Endp /\ seg.src \in Endp /\ nxt \in SeqNo
    <3>1. seg.dst \in Endp /\ seg.src \in Endp /\ seg.seq \in Int
      BY TcpPcbAssumption DEF Segment, SeqNo
    <3> QED BY <3>1, PlusType
  <2>3. q = x
    BY DEF SynArrives
  <2> HIDE DEF nxt
  <2>4. s \in Pcb /\ s.queue = p.queue /\ s.mode = p.mode /\ s.iss = iss /\ s.rcv_nxt = nxt
    BY <2>1, <2>2 DEF Pcb
  <2> HIDE DEF s
  <2> HIDE DEF flg
  <2>6. r \in Pcb /\ Sent(r) \subseteq Sent(s) \cup {SynEntry(iss, flg)} /\ r.mode = p.mode /\ r.iss = iss /\ r.rcv_nxt = nxt
    BY <2>1, <2>4, QueuedSyn, Zenon
  <2> HIDE DEF r, end
  <2>7. /\ x.queue = r.queue /\ x.mode = r.mode /\ x.iss = r.iss /\ x.rcv_nxt = r.rcv_nxt
        /\ x.snd_nxt = end /\ x.snd_una = iss /\ x.state = "SynReceived"
    BY <2>6 DEF Pcb
  <2> HIDE DEF x
  <2> QED BY <2>3, <2>4, <2>6, <2>7 DEF Sent, nxt, end, flg
<1>1. /\ Sent(q) \subseteq Sent(p) \cup {SynEntry(iss, {"SYN", "ACK"})}
      /\ q.mode = p.mode /\ q.iss = iss /\ q.snd_nxt = Plus(iss, 1)
      /\ q.rcv_nxt = Plus(seg.seq, 1) /\ q.state = "SynReceived"
  BY <1>SynArrivesKeeps
<1>2. q.local = seg.dst /\ q.remote = seg.src /\ q.buf = <<>>
  BY SynArrivesStarts DEF Starts
<1>3. Numbered(SynEntry(iss, {"SYN", "ACK"}), iss)
  BY SynNumbered
<1>4. Linked(q, addr, iss)
  BY <1>1, <1>2, <1>3 DEF Linked
<1>5. q.rcv_nxt = seg.seq + 1 + 0 + Len(q.buf)
  <2>1. Plus(seg.seq, 1) = seg.seq + 1
    BY PlusNear
  <2> QED BY <1>1, <1>2, <2>1
<1>6. q.snd_nxt = iss + 1 + 0
  <2>1. iss \in Nat
    BY TcpPcbAssumption DEF SeqNo
  <2>2. Plus(iss, 1) = iss + 1
    BY <2>1, PlusNear
  <2> QED BY <1>1, <2>1, <2>2
<1> QED BY <1>1, <1>2, <1>4, <1>5, <1>6 DEF Got, Wrote, Early

\* An active open.
LEMMA DialledText ==
  ASSUME NEW local \in Endp, NEW remote \in Endp, NEW iss \in SeqNo, iss + 1 < SeqMod, remote.addr # ANY,
         NEW q, q = Dialled(EmptyPcb, local, remote, iss)
  PROVE  Linked(q, local.addr, iss) /\ (\A peers : Got(q, peers, 0)) /\ Wrote(q, iss, 0) /\ q.buf = <<>>
\* The first SYN of an active open.
<1>DialledKeeps. ASSUME NEW p \in Pcb, q = Dialled(p, local, remote, iss)
      PROVE  /\ Sent(q) \subseteq Sent(p) \cup {SynEntry(iss, {"SYN"})}
             /\ q.mode = p.mode /\ q.iss = iss /\ q.snd_nxt = Plus(iss, 1) /\ q.snd_una = iss
             /\ q.rcv_nxt = p.rcv_nxt /\ q.state = "SynSent" /\ q.local = local /\ q.remote = remote /\ q.buf = p.buf
  <2> USE <1>DialledKeeps
  <2> DEFINE s == [p EXCEPT !.local = local, !.remote = remote, !.rcv_wnd = RECV_BUF_SIZE, !.iss = iss]
             flg == {"SYN"}
             r == Queued(s, flg, <<>>)
             end == Plus(iss, 1)
             x == [r EXCEPT !.snd_una = iss, !.snd_nxt = end, !.state = "SynSent"]
  <2>1. flg \in SUBSET Flag /\ "SYN" \in flg /\ RECV_BUF_SIZE \in Window
    BY TcpPcbAssumption DEF Flag, Window
  <2>2. q = x
    BY DEF Dialled, SynSent
  <2>3. /\ s \in Pcb /\ s.queue = p.queue /\ s.mode = p.mode /\ s.iss = iss /\ s.rcv_nxt = p.rcv_nxt
        /\ s.local = local /\ s.remote = remote /\ s.buf = p.buf
    BY <2>1 DEF Pcb
  <2> HIDE DEF s
  <2> HIDE DEF flg
  <2>5. /\ r \in Pcb /\ Sent(r) \subseteq Sent(s) \cup {SynEntry(iss, flg)} /\ r.mode = p.mode /\ r.iss = iss
        /\ r.rcv_nxt = p.rcv_nxt /\ SameEndpoints(s, r) /\ SameBuffer(s, r)
    BY <2>1, <2>3, QueuedSyn, Zenon
  <2> HIDE DEF r, end
  <2>6. /\ x.queue = r.queue /\ x.mode = r.mode /\ x.iss = r.iss /\ x.rcv_nxt = r.rcv_nxt /\ x.snd_nxt = end /\ x.snd_una = iss
        /\ x.state = "SynSent" /\ x.local = r.local /\ x.remote = r.remote /\ x.buf = r.buf
    BY <2>5 DEF Pcb
  <2> HIDE DEF x
  <2> QED BY <2>2, <2>3, <2>5, <2>6 DEF Sent, end, flg, SameEndpoints, SameBuffer
<1>1. EmptyPcb \in Pcb /\ EmptyPcb.buf = <<>> /\ EmptyPcb.mode = "Rfc" /\ Sent(EmptyPcb) = {}
  <2>1. EmptyPcb.buf = <<>> /\ EmptyPcb.mode = "Rfc" /\ EmptyPcb.queue = <<>>
    BY DEF EmptyPcb
  <2>2. Sent(EmptyPcb) = {}
    BY <2>1 DEF Sent
  <2> QED BY <2>1, <2>2, EmptyPcbType, Zenon
<1>2. /\ Sent(q) \subseteq Sent(EmptyPcb) \cup {SynEntry(iss, {"SYN"})}
      /\ q.mode = "Rfc" /\ q.iss = iss /\ q.snd_nxt = Plus(iss, 1)
      /\ q.state = "SynSent" /\ q.local = local /\ q.remote = remote /\ q.buf = <<>>
  BY <1>1, <1>DialledKeeps
<1>3. Numbered(SynEntry(iss, {"SYN"}), iss)
  BY SynNumbered
<1>4. Linked(q, local.addr, iss)
  BY <1>1, <1>2, <1>3 DEF Linked
<1>5. q.snd_nxt = iss + 1 + 0
  <2>1. iss \in Nat
    BY TcpPcbAssumption DEF SeqNo
  <2>2. Plus(iss, 1) = iss + 1
    BY <2>1, PlusNear
  <2> QED BY <1>2, <2>1, <2>2
<1> QED BY <1>2, <1>4, <1>5 DEF Got, Wrote, Receiving
=============================================================================
