------------------------------- MODULE TcpPcb -------------------------------
(***************************************************************************)
(* The protocol control block of tcp.rs and what one segment, one timer    *)
(* tick or one output does to it, as operators.  Tcp.tla makes the state   *)
(* machine out of them.                                                    *)
(*                                                                         *)
(* Sequence numbers are u32 values: additions wrap at SeqMod and, as in    *)
(* the code, comparisons do not.  Time is counted in runs of on_timer: an  *)
(* entry of the retransmission queue holds the ticks since it was first    *)
(* (age) and last (idle) sent instead of the two timestamps, and tw_timer  *)
(* the ticks left instead of the expiry time.  A set of names stands for   *)
(* the flag byte.  snd.up, rcv.up and irs are written and never read, and  *)
(* are left out.                                                           *)
(***************************************************************************)
EXTENDS Integers, Sequences, FiniteSetsExt, Functions

CONSTANTS SeqMod,                 \* 2^32
          RECV_BUF_SIZE,          \* 65535, which is also the largest u16
          TCP_DEFAULT_RTO,        \* in ticks, like the next two
          TCP_RETRANS_DEADLINE,
          TCP_TIMEWAIT_SEC,
          PCB_SIZE_MAX,           \* slots of the table
          Addr, ANY,              \* IPv4 addresses, 0.0.0.0 among them
          Port,                   \* u16, 0 included
          Byte,                   \* the payload bytes
          NoPcb                   \* an empty slot of PCBS

Desc   == 0..(PCB_SIZE_MAX - 1)
SeqNo  == 0..(SeqMod - 1)
Window == 0..RECV_BUF_SIZE
Flag   == {"SYN", "ACK", "FIN", "RST", "PSH"}
Endp   == [addr : Addr, port : Port]
AnyEndp == [addr |-> ANY, port |-> 0]
NoDesc == -1

Segment == [src : Endp, dst : Endp, seq : SeqNo, ack : SeqNo,
            flg : SUBSET Flag, wnd : Window, data : Seq(Byte)]

TcpState == {"Closed", "Listen", "SynSent", "SynReceived", "Established", "FinWait1",
             "FinWait2", "Closing", "TimeWait", "CloseWait", "LastAck"}

TcpQueueEntry == [seq : SeqNo, flg : SUBSET Flag, data : Seq(Byte),
                  age : Nat, idle : Nat, rto : Nat]

Pcb == [state : TcpState, mode : {"Rfc", "Socket"}, local : Endp, remote : Endp,
        snd_nxt : SeqNo, snd_una : SeqNo, snd_wnd : Window, snd_wl1 : SeqNo, snd_wl2 : SeqNo,
        iss : SeqNo, rcv_nxt : SeqNo, rcv_wnd : Window, mss : Nat, buf : Seq(Byte),
        queue : Seq(TcpQueueEntry), tw_timer : Nat, parent_desc : Desc \cup {NoDesc},
        backlog : Seq(Desc), backlog_max : Nat, intr : BOOLEAN]

ASSUME TcpPcbAssumption ==
  /\ SeqMod \in Nat /\ SeqMod > 1
  /\ RECV_BUF_SIZE \in Nat /\ RECV_BUF_SIZE < SeqMod
  /\ TCP_DEFAULT_RTO \in Nat \ {0}
  /\ TCP_RETRANS_DEADLINE \in Nat \ {0}
  /\ TCP_TIMEWAIT_SEC \in Nat
  /\ PCB_SIZE_MAX \in Nat
  /\ ANY \in Addr
  /\ Port \subseteq Nat /\ 0 \in Port
  /\ NoPcb \notin Pcb

EmptyPcb ==
  [state |-> "Closed", mode |-> "Rfc", local |-> AnyEndp, remote |-> AnyEndp,
   snd_nxt |-> 0, snd_una |-> 0, snd_wnd |-> 0, snd_wl1 |-> 0, snd_wl2 |-> 0,
   iss |-> 0, rcv_nxt |-> 0, rcv_wnd |-> 0, mss |-> 0, buf |-> <<>>,
   queue |-> <<>>, tw_timer |-> 0, parent_desc |-> NoDesc,
   backlog |-> <<>>, backlog_max |-> 0, intr |-> FALSE]

\* A PCB of a connection, complete or not.
Active(p) == p.state \notin {"Closed", "Listen"}

Plus(n, k) == (n + k) % SeqMod

\* The sequences ss[1], ss[2], ... one after the other.
Joined(ss) ==
  LET join[n \in 0..Len(ss)] == IF n = 0 THEN <<>> ELSE join[n - 1] \o ss[n]
  IN join[Len(ss)]

\* SegInfo.len: the sequence numbers a segment occupies.
SegLen(seg) ==
  Len(seg.data) + (IF "SYN" \in seg.flg THEN 1 ELSE 0) + (IF "FIN" \in seg.flg THEN 1 ELSE 0)
-----------------------------------------------------------------------------
(***************************************************************************)
(* Output and the retransmission queue.                                    *)
(***************************************************************************)
OutputSegment(seq, ack, flg, wnd, data, local, remote) ==
  [src |-> local, dst |-> remote, seq |-> seq, ack |-> ack, flg |-> flg,
   wnd |-> wnd, data |-> data]

OutputSeq(p, flg) == IF "SYN" \in flg THEN p.iss ELSE p.snd_nxt

\* The segment output() sends ...
Output(p, flg, data) ==
  OutputSegment(OutputSeq(p, flg), p.rcv_nxt, flg, p.rcv_wnd, data, p.local, p.remote)

\* ... and what it leaves in the queue: SYN, FIN and text are kept until acknowledged.
Queued(p, flg, data) ==
  IF flg \cap {"SYN", "FIN"} # {} \/ data # <<>>
  THEN [p EXCEPT !.queue = Append(@, [seq |-> OutputSeq(p, flg), flg |-> flg, data |-> data,
                                      age |-> 0, idle |-> 0, rto |-> TCP_DEFAULT_RTO])]
  ELSE p

\* The sequence number that acknowledges a queue entry.
EntryEnd(e) ==
  Plus(e.seq, Len(e.data) + IF e.flg \cap {"SYN", "FIN"} # {} THEN 1 ELSE 0)

\* Defect: an entry leaves as soon as its first byte is due.
retrans_queue_cleanupEarly(p) ==
  LET kept == {i \in DOMAIN p.queue : p.snd_una < p.queue[i].seq}
  IN [p EXCEPT !.queue = IF kept = {} THEN <<>> ELSE SubSeq(@, Min(kept), Len(@))]

\* Entries leave from the front up to the first one that is not acknowledged.
retrans_queue_cleanup(p) ==
  LET kept == {i \in DOMAIN p.queue : p.snd_una < EntryEnd(p.queue[i])}
  IN [p EXCEPT !.queue = IF kept = {} THEN <<>> ELSE SubSeq(@, Min(kept), Len(@))]

\* One tick on a queue entry; past the deadline its times no longer matter.
Aged(e) ==
  IF e.age >= TCP_RETRANS_DEADLINE THEN e ELSE [e EXCEPT !.age = @ + 1, !.idle = @ + 1]

Due(e) == e.idle >= e.rto

\* Defect: a retransmission counts as the first transmission.
ResentAsFirst(e) == IF Due(e) THEN [e EXCEPT !.age = 0, !.idle = 0] ELSE e

Resent(e) == IF Due(e) THEN [e EXCEPT !.idle = 0, !.rto = @ * 2] ELSE e

AgedQueue(p) == [i \in DOMAIN p.queue |-> Aged(p.queue[i])]

DeadlineExceeded(p) ==
  \E i \in DOMAIN p.queue : Aged(p.queue[i]).age >= TCP_RETRANS_DEADLINE

\* retrans_emit: past the deadline the PCB is closed and stays in its slot.
retrans_emit(p) ==
  IF DeadlineExceeded(p)
  THEN [p EXCEPT !.state = "Closed", !.queue = AgedQueue(p)]
  ELSE [p EXCEPT !.queue = [i \in DOMAIN p.queue |-> Resent(Aged(p.queue[i]))]]

RetransSegments(p) ==
  IF DeadlineExceeded(p)
  THEN <<>>
  ELSE Joined([i \in DOMAIN p.queue |->
         LET e == Aged(p.queue[i])
         IN IF Due(e) THEN <<OutputSegment(e.seq, p.rcv_nxt, e.flg, p.rcv_wnd, e.data, p.local, p.remote)>>
                      ELSE <<>>])

StartTimeWait(p) == [p EXCEPT !.state = "TimeWait", !.tw_timer = TCP_TIMEWAIT_SEC]
-----------------------------------------------------------------------------
(***************************************************************************)
(* The steps of segment_arrives on the PCB that pcb_select found.          *)
(***************************************************************************)
\* The RST that answers a segment no connection accounts for.
ResetReply(seg) ==
  IF "ACK" \in seg.flg
  THEN OutputSegment(seg.ack, 0, {"RST"}, 0, <<>>, seg.dst, seg.src)
  ELSE OutputSegment(0, Plus(seg.seq, SegLen(seg)), {"RST", "ACK"}, 0, <<>>, seg.dst, seg.src)

\* A SYN reaches a LISTEN PCB: what becomes of the PCB that takes the connection.
SynArrives(p, seg, iss) ==
  LET q == [p EXCEPT !.local = seg.dst, !.remote = seg.src, !.rcv_wnd = RECV_BUF_SIZE,
                     !.rcv_nxt = Plus(seg.seq, 1), !.iss = iss]
  IN [Queued(q, {"SYN", "ACK"}, <<>>) EXCEPT
        !.snd_nxt = Plus(iss, 1), !.snd_una = iss, !.state = "SynReceived"]

\* The first SYN of an active open.
SynSent(p, local, remote, iss) ==
  LET q == [p EXCEPT !.local = local, !.remote = remote, !.rcv_wnd = RECV_BUF_SIZE, !.iss = iss]
  IN Queued(q, {"SYN"}, <<>>)

\* SYN_SENT, 1st check: the ACK acknowledges something that was not sent.
SynSentBadAck(p, seg) ==
  "ACK" \in seg.flg /\ (seg.ack <= p.iss \/ seg.ack > p.snd_nxt)

SynSentAcceptable(p, seg) ==
  "ACK" \in seg.flg /\ p.snd_una <= seg.ack /\ seg.ack <= p.snd_nxt

\* SYN_SENT, 4th check: una and the queue after a SYN.
SynSentAcked(p, seg) ==
  LET q == [p EXCEPT !.rcv_nxt = Plus(seg.seq, 1)]
  IN IF SynSentAcceptable(p, seg)
     THEN retrans_queue_cleanup([q EXCEPT !.snd_una = seg.ack])
     ELSE q

SynSentSyn(p, seg) ==
  LET q == SynSentAcked(p, seg)
  IN IF q.snd_una > q.iss
     THEN [q EXCEPT !.state = "Established", !.snd_wnd = seg.wnd, !.snd_wl1 = seg.seq,
                    !.snd_wl2 = seg.ack]
     ELSE Queued([q EXCEPT !.state = "SynReceived"], {"SYN", "ACK"}, <<>>)

\* The four-way test of the sequence number against the receive window.
Acceptable(p, seg) ==
  LET nxt_plus_wnd == Plus(p.rcv_nxt, p.rcv_wnd)
      end_seq == (seg.seq + SegLen(seg) - 1) % SeqMod
      InWindow(n) == p.rcv_nxt <= n /\ n < nxt_plus_wnd
  IN CASE SegLen(seg) = 0 /\ p.rcv_wnd = 0 -> seg.seq = p.rcv_nxt
       [] SegLen(seg) = 0 /\ p.rcv_wnd # 0 -> InWindow(seg.seq)
       [] SegLen(seg) # 0 /\ p.rcv_wnd = 0 -> FALSE
       [] OTHER -> InWindow(seg.seq) \/ InWindow(end_seq)

SynReceivedGoodAck(p, seg) == p.snd_una <= seg.ack /\ seg.ack <= p.snd_nxt

AckStates == {"Established", "CloseWait", "FinWait1", "FinWait2"}

\* An ACK for something not yet sent.  One below snd.una is a duplicate, whatever snd.nxt is.
AckTooNew(p, seg) == p.state \in AckStates /\ p.snd_una <= seg.ack /\ p.snd_nxt < seg.ack

NewerWindow(p, seg) ==
  p.snd_wl1 < seg.seq \/ (p.snd_wl1 = seg.seq /\ p.snd_wl2 <= seg.ack)

\* An ACK of new data: the queue shrinks and the send window may be updated.
Acked(p, seg) ==
  LET q == retrans_queue_cleanup([p EXCEPT !.snd_una = seg.ack])
  IN IF NewerWindow(p, seg)
     THEN [q EXCEPT !.snd_wnd = seg.wnd, !.snd_wl1 = seg.seq, !.snd_wl2 = seg.ack]
     ELSE q

AckAdvances(p, seg) == p.snd_una < seg.ack /\ seg.ack <= p.snd_nxt

AckInSync(p, seg) ==
  LET q == IF AckAdvances(p, seg) THEN Acked(p, seg) ELSE p
  IN IF q.state = "FinWait1" /\ seg.ack = q.snd_nxt
     THEN [q EXCEPT !.state = "FinWait2"]
     ELSE q

\* 5th check, for every state that goes on to the text (LAST_ACK does not).
ProcessAck(p, seg) ==
  CASE p.state = "SynReceived" -> AckInSync([p EXCEPT !.state = "Established"], seg)
    [] p.state \in AckStates   -> AckInSync(p, seg)
    [] p.state = "Closing" /\ seg.ack = p.snd_nxt  -> StartTimeWait(p)
    [] p.state = "TimeWait" /\ "FIN" \in seg.flg   -> StartTimeWait(p)
    [] OTHER -> p

\* 7th step.
HasText(p, seg) == p.state \in {"Established", "FinWait1", "FinWait2"} /\ seg.data # <<>>

\* Defect: only the window is checked.
TextRefusedBySize(p, seg) == HasText(p, seg) /\ p.rcv_wnd < Len(seg.data)

TextRefused(p, seg) ==
  HasText(p, seg) /\ (p.rcv_nxt # seg.seq \/ p.rcv_wnd < Len(seg.data))

\* Defect: PSH counted as a sequence number.
ProcessTextPush(p, seg) ==
  IF HasText(p, seg)
  THEN [p EXCEPT !.buf = @ \o seg.data, !.rcv_nxt = Plus(seg.seq, Len(seg.data) + 1),
                 !.rcv_wnd = @ - Len(seg.data)]
  ELSE p

ProcessText(p, seg) ==
  IF HasText(p, seg)
  THEN [p EXCEPT !.buf = @ \o seg.data, !.rcv_nxt = Plus(seg.seq, Len(seg.data)),
                 !.rcv_wnd = @ - Len(seg.data)]
  ELSE p

\* Defect: a FIN always leads to CLOSE_WAIT.
ProcessFinCloseWait(p, seg) ==
  IF "FIN" \in seg.flg THEN [p EXCEPT !.rcv_nxt = Plus(seg.seq, 1), !.state = "CloseWait"] ELSE p

\* 8th step.  The segment is not compared with rcv_nxt again.
ProcessFin(p, seg) ==
  LET q == [p EXCEPT !.rcv_nxt = Plus(seg.seq, 1)]
  IN CASE "FIN" \notin seg.flg -> p
       [] "FIN" \in seg.flg /\ p.state \in {"SynReceived", "Established"} ->
            [q EXCEPT !.state = "CloseWait"]
       [] "FIN" \in seg.flg /\ p.state = "FinWait1" ->
            IF seg.ack = p.snd_nxt THEN StartTimeWait(q) ELSE [q EXCEPT !.state = "Closing"]
       [] "FIN" \in seg.flg /\ p.state = "FinWait2" -> StartTimeWait(q)
       [] OTHER -> q
-----------------------------------------------------------------------------
(***************************************************************************)
(* What close, send, receive and on_timer do to a PCB.                     *)
(***************************************************************************)
\* The FIN of close().
FinSent(p, state) ==
  [Queued(p, {"ACK", "FIN"}, <<>>) EXCEPT !.snd_nxt = Plus(@, 1), !.state = state]

\* What the peer's window still allows.
Capacity(p) ==
  LET in_flight == (p.snd_nxt - p.snd_una) % SeqMod
  IN IF p.snd_wnd > in_flight THEN p.snd_wnd - in_flight ELSE 0

\* send passes n bytes to output.
TextSent(p, text, n) == [Queued(p, {"ACK", "PSH"}, text) EXCEPT !.snd_nxt = Plus(@, n)]

\* Defects: the window does not open again; it opens twice as far.
DrainedWindowKept(p, n) == [p EXCEPT !.buf = SubSeq(@, n + 1, Len(@))]
DrainedTwice(p, n) == [p EXCEPT !.buf = SubSeq(@, n + 1, Len(@)), !.rcv_wnd = @ + 2 * n]

\* receive takes n bytes from the buffer and opens the window by as much.
Drained(p, n) == [p EXCEPT !.buf = SubSeq(@, n + 1, Len(@)), !.rcv_wnd = @ + n]

\* Defect: the TIME_WAIT timer never runs down.
TickedRetransOnly(p) == retrans_emit(p)

Ticked(p) ==
  retrans_emit(IF p.state = "TimeWait" THEN [p EXCEPT !.tw_timer = @ - 1] ELSE p)

TimeWaitElapsed(p) == p.state = "TimeWait" /\ p.tw_timer = 0
-----------------------------------------------------------------------------
(***************************************************************************)
(* The table.                                                              *)
(***************************************************************************)
Live(tab) == {d \in Desc : tab[d] # NoPcb}

\* pcb_alloc takes the first free slot.
Allocates(tab, d) == d \notin Live(tab) /\ \A e \in Desc : e < d => e \in Live(tab)
TableFull(tab) == Live(tab) = Desc

LocalMatch(p, local) ==
  /\ p.local.port = local.port
  /\ p.local.addr = local.addr \/ p.local.addr = ANY \/ local.addr # ANY

RemoteMatch(p, remote) ==
  p.remote = remote \/ p.remote = AnyEndp \/ remote = AnyEndp

Matches(tab, local, remote) ==
  {d \in Live(tab) : LocalMatch(tab[d], local) /\ RemoteMatch(tab[d], remote)}

\* pcb_select returns d: the first match that is not in LISTEN or else the last that is.
Selects(tab, local, remote, d) ==
  LET matches == Matches(tab, local, remote)
      others  == {e \in matches : tab[e].state # "Listen"}
  IN IF others # {}
     THEN d \in others /\ \A e \in others : d <= e
     ELSE d \in matches /\ \A e \in matches : e <= d

\* f[0] \o f[1] \o ...: what a loop over the table sends.
ForEachDesc(f) == Joined([n \in 1..PCB_SIZE_MAX |-> f[n - 1]])

\* pcb_release also releases what the backlog holds, transitively: the least set that holds
\* d and what the backlogs of its members hold.
TornDown(tab, d) ==
  LET Closed(S) == \A e \in S : Range(tab[e].backlog) \cap Live(tab) \subseteq S
  IN {c \in Live(tab) : \A S \in SUBSET Live(tab) : d \in S /\ Closed(S) => c \in S}

\* The RSTs it sends for the connections it finds there.
ReleaseResets(tab, d) ==
  LET open == {c \in TornDown(tab, d) \ {d} : tab[c].state # "Closed"}
  IN ForEachDesc([c \in Desc |-> IF c \in open THEN <<Output(tab[c], {"RST"}, <<>>)>> ELSE <<>>])

Without(tab, released) == [d \in Desc |-> IF d \in released THEN NoPcb ELSE tab[d]]

\* Defect: the connection stays in the backlog.
PoppedPeek(tab, d) == tab

\* accept takes the first connection from the backlog.
Popped(tab, d) == [tab EXCEPT ![d].backlog = Tail(@)]

\* The PCB that gets a new connection in its backlog.
ParentOf(tab, p) ==
  IF p.state = "SynReceived" THEN {p.parent_desc} \cap Live(tab) ELSE {}

WithParent(tab, d, p, q) ==
  LET parent == ParentOf(tab, p)
  IN [c \in Desc |-> CASE c = d -> q
                       [] c # d /\ c \in parent -> [tab[c] EXCEPT !.backlog = Append(@, d)]
                       [] OTHER -> tab[c]]
=============================================================================
