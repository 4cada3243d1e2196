-------------------------------- MODULE Sock --------------------------------
(***************************************************************************)
(* The socket layer of sock.rs: the table SOCKS of descriptors, over the   *)
(* tables of TCP and UDP PCBs.  SOCKS and the two tables have a mutex      *)
(* each, and a call takes them one after the other: open allocates a PCB   *)
(* and then a descriptor, accept takes a connection from the backlog and   *)
(* then a descriptor, close reads its descriptor, clears it and then       *)
(* closes the PCB, and every other call reads its descriptor and then uses *)
(* the copy.  Each critical section is one action.                         *)
(*                                                                         *)
(* The PCBs are modelled by what becomes of their slots: the states that   *)
(* tcp::close, accept and pcb_release tell apart, the backlog and the      *)
(* parent.  CLOSING stands for the states after the FIN, ESTABLISHED also  *)
(* for CLOSE_WAIT.  Segments and timers take a PCB from state to state and *)
(* release it (Established, NewConnection, Reset, TimedOut).  For the      *)
(* properties every PCB has a number, and a descriptor remembers the       *)
(* number of the PCB for which it was made.                                *)
(*                                                                         *)
(* The application is assumed to use only descriptors that it holds: it    *)
(* closes a descriptor once, and not while one of its calls is under way.  *)
(***************************************************************************)
EXTENDS Integers, Sequences, Functions

CONSTANTS Thread,          \* the application's threads
          PCB_SIZE_MAX,    \* slots in each table of PCBs
          Desc,            \* positions of SOCKS
          BacklogMax,      \* the argument of listen
          MaxPcbs,         \* bound on the number of PCBs ever made
          NoPcb, NoSock

Slot == 0..(PCB_SIZE_MAX - 1)
Num == 1..MaxPcbs
TcpState == {"CLOSED", "LISTEN", "SYN_SENT", "SYN_RECEIVED", "ESTABLISHED", "CLOSING"}
TcpPcb == [num : Num, state : TcpState, backlog : Seq(Slot), parent : Slot]
Sock == [ty : {"STREAM", "DGRAM"}, desc : Slot, num : Num]

ASSUME SockAssumption ==
  /\ PCB_SIZE_MAX \in Nat /\ MaxPcbs \in Nat /\ BacklogMax \in Nat
  /\ Desc \subseteq Nat
  /\ NoPcb \notin TcpPcb \cup Num /\ NoSock \notin Sock

VARIABLES socks,   \* SOCKS
          tcp,     \* PCBS of tcp.rs
          udp,     \* PCBS of udp.rs; of a PCB only its number matters
          thr,     \* where each thread is, its descriptor and its copy of the Sock
          held,    \* the descriptors the application may use
          pcbs,    \* how many PCBs there have been
          given,   \* the PCBs that open or accept returned, for the properties
          dropped, \* the PCBs that a segment released, likewise
          stale    \* whether a slot was taken again with an old name left for it, likewise

vars == <<socks, tcp, udp, thr, held, pcbs, given, dropped, stale>>

\* "alloc": open or accept has its PCB; "clear" and "proto": the two steps left of close;
\* the others: a call has its copy of the Sock and has yet to enter tcp.rs or udp.rs, or
\* to return from it.
Calls == {"listen", "accept", "connect", "connecting", "other"}
ThreadState == [pc : {"idle", "alloc", "clear", "proto"} \cup Calls, d : Desc \cup {-1}, sock : Sock \cup {NoSock}]

TypeOK ==
  /\ socks \in [Desc -> Sock \cup {NoSock}]
  /\ tcp \in [Slot -> TcpPcb \cup {NoPcb}]
  /\ udp \in [Slot -> Num \cup {NoPcb}]
  /\ thr \in [Thread -> ThreadState]
  /\ held \subseteq Desc
  /\ pcbs \in 0..MaxPcbs
  /\ given \subseteq Num /\ dropped \subseteq Num
  /\ stale \in BOOLEAN

Idle == [pc |-> "idle", d |-> -1, sock |-> NoSock]
At(pc, d, sock) == [pc |-> pc, d |-> d, sock |-> sock]
Live(s) == tcp[s] # NoPcb
NewPcb(state, parent) == [num |-> pcbs + 1, state |-> state, backlog |-> <<>>, parent |-> parent]

Init ==
  /\ socks = [d \in Desc |-> NoSock]
  /\ tcp = [s \in Slot |-> NoPcb]
  /\ udp = [s \in Slot |-> NoPcb]
  /\ thr = [t \in Thread |-> Idle]
  /\ held = {}
  /\ pcbs = 0
  /\ given = {} /\ dropped = {}
  /\ stale = FALSE
-----------------------------------------------------------------------------
\* pcb_alloc of both tables and sock_alloc take the first free position.
FirstFree(table, none, i) == table[i] = none /\ \A j \in DOMAIN table : j < i => table[j] # none

\* The slots that pcb_release(s) frees: s, the backlog of s, their backlogs and so on.
Drained(s) ==
  {x \in Slot : \A S \in SUBSET Slot :
     (s \in S /\ \A y \in S : Live(y) => Range(tcp[y].backlog) \subseteq S) => x \in S}

\* tcp.rs, pcb_release.
Released(s) == [x \in Slot |-> IF x \in Drained(s) THEN NoPcb ELSE tcp[x]]

\* Who has a PCB for the application: a descriptor, an open or accept that has yet to store
\* it, and a close that has yet to close it.
Holders == {<<"sock", d>> : d \in {x \in Desc : socks[x] # NoSock}}
           \cup {<<"thread", t>> : t \in {u \in Thread : thr[u].pc \in {"alloc", "proto"}}}
Has(h) == IF h[1] = "sock" THEN socks[h[2]] ELSE thr[h[2]].sock
OfType(ty) == {h \in Holders : Has(h).ty = ty}

\* A free slot of tcp that is still named: by a backlog, or by a descriptor whose PCB a
\* segment released.
Dangling(s) ==
  \/ \E x \in Slot : Live(x) /\ s \in Range(tcp[x].backlog)
  \/ \E h \in OfType("STREAM") : Has(h).desc = s /\ Has(h).num \in dropped

\* open up to its lock of SOCKS: tcp::socket or udp::open.
Open(t, ty, s) ==
  /\ thr[t] = Idle /\ pcbs < MaxPcbs
  /\ CASE ty = "STREAM" -> /\ FirstFree(tcp, NoPcb, s)
                           /\ tcp' = [tcp EXCEPT ![s] = NewPcb("CLOSED", s)] /\ UNCHANGED udp
                           /\ stale' = (stale \/ Dangling(s))
       [] ty = "DGRAM"  -> /\ FirstFree(udp, NoPcb, s)
                           /\ udp' = [udp EXCEPT ![s] = pcbs + 1] /\ UNCHANGED <<tcp, stale>>
  /\ pcbs' = pcbs + 1
  /\ given' = given \cup {pcbs + 1}
  /\ thr' = [thr EXCEPT ![t] = At("alloc", -1, [ty |-> ty, desc |-> s, num |-> pcbs + 1])]
  /\ UNCHANGED <<socks, held, dropped>>

\* The end of open and accept: sock_alloc, and the descriptor is the application's.
Alloc(t, d) ==
  /\ thr[t].pc = "alloc" /\ FirstFree(socks, NoSock, d)
  /\ socks' = [socks EXCEPT ![d] = thr[t].sock]
  /\ held' = held \cup {d}
  /\ thr' = [thr EXCEPT ![t] = Idle]
  /\ UNCHANGED <<tcp, udp, pcbs, given, dropped, stale>>

\* sock_get at the start of a call; the calls on streams return on a datagram socket.
Call(t, d, call) ==
  /\ thr[t] = Idle /\ d \in held
  /\ call \in {"listen", "accept", "connect"} => socks[d].ty = "STREAM"
  /\ thr' = [thr EXCEPT ![t] = At(call, d, socks[d])]
  /\ UNCHANGED <<socks, tcp, udp, held, pcbs, given, dropped, stale>>

\* sock_get of close.
Close(t, d) ==
  /\ thr[t] = Idle /\ d \in held /\ \A u \in Thread : thr[u].d # d
  /\ held' = held \ {d}
  /\ thr' = [thr EXCEPT ![t] = At("clear", d, socks[d])]
  /\ UNCHANGED <<socks, tcp, udp, pcbs, given, dropped, stale>>

\* Defect: the descriptor stays in SOCKS.
CloseForgetsSlot(t) ==
  /\ thr[t].pc = "clear"
  /\ thr' = [thr EXCEPT ![t] = At("proto", -1, thr[t].sock)]
  /\ UNCHANGED <<socks, tcp, udp, held, pcbs, given, dropped, stale>>

CloseClear(t) ==
  /\ thr[t].pc = "clear"
  /\ socks' = [socks EXCEPT ![thr[t].d] = NoSock]
  /\ thr' = [thr EXCEPT ![t] = At("proto", -1, thr[t].sock)]
  /\ UNCHANGED <<tcp, udp, held, pcbs, given, dropped, stale>>

\* Defect: a listener is refused like a CLOSED PCB.
TcpClosedKeepsListener(s) ==
  IF Live(s) /\ tcp[s].state = "ESTABLISHED" THEN [tcp EXCEPT ![s].state = "CLOSING"] ELSE tcp

\* tcp::close on slot s.  A CLOSED PCB is refused, as is one that is closing.
TcpClosed(s) ==
  IF ~Live(s) THEN tcp
  ELSE CASE tcp[s].state \in {"LISTEN", "SYN_SENT"} -> Released(s)
         [] tcp[s].state \in {"SYN_RECEIVED", "ESTABLISHED"} -> [tcp EXCEPT ![s].state = "CLOSING"]
         [] OTHER -> tcp

\* The end of close: tcp::close or udp::close.
CloseProto(t) ==
  LET k == thr[t].sock IN
  /\ thr[t].pc = "proto"
  /\ IF k.ty = "STREAM" THEN tcp' = TcpClosed(k.desc) /\ UNCHANGED udp
                        ELSE udp' = [udp EXCEPT ![k.desc] = NoPcb] /\ UNCHANGED tcp
  /\ thr' = [thr EXCEPT ![t] = Idle]
  /\ UNCHANGED <<socks, held, pcbs, given, dropped, stale>>
-----------------------------------------------------------------------------
\* listen on a CLOSED PCB.
Listen(t) ==
  LET s == thr[t].sock.desc IN
  /\ thr[t].pc = "listen" /\ Live(s) /\ tcp[s].state = "CLOSED"
  /\ tcp' = [tcp EXCEPT ![s].state = "LISTEN"]
  /\ thr' = [thr EXCEPT ![t] = Idle]
  /\ UNCHANGED <<socks, udp, held, pcbs, given, dropped, stale>>

\* Defect: the entry is read but not taken from the backlog.
AcceptPeeks(t) ==
  LET s == thr[t].sock.desc
      c == Head(tcp[s].backlog) IN
  /\ thr[t].pc = "accept" /\ Live(s) /\ tcp[s].state = "LISTEN" /\ tcp[s].backlog # <<>> /\ Live(c)
  /\ thr' = [thr EXCEPT ![t] = At("alloc", -1, [thr[t].sock EXCEPT !.desc = c, !.num = tcp[c].num])]
  /\ given' = given \cup {tcp[c].num}
  /\ UNCHANGED <<socks, tcp, udp, held, pcbs, dropped, stale>>

\* One pass of the loop of tcp::accept: an entry whose PCB is gone is skipped.
Accept(t) ==
  LET s == thr[t].sock.desc
      c == Head(tcp[s].backlog) IN
  /\ thr[t].pc = "accept" /\ Live(s) /\ tcp[s].state = "LISTEN" /\ tcp[s].backlog # <<>>
  /\ tcp' = [tcp EXCEPT ![s].backlog = Tail(@)]
  /\ IF Live(c)
     THEN /\ thr' = [thr EXCEPT ![t] = At("alloc", -1, [thr[t].sock EXCEPT !.desc = c, !.num = tcp[c].num])]
          /\ given' = given \cup {tcp[c].num}
     ELSE UNCHANGED <<thr, given>>
  /\ UNCHANGED <<socks, udp, held, pcbs, dropped, stale>>

\* tcp::connect sends its SYN, whatever the state of the PCB.
Connect(t) ==
  LET s == thr[t].sock.desc IN
  /\ thr[t].pc = "connect" /\ Live(s)
  /\ tcp' = [tcp EXCEPT ![s].state = "SYN_SENT"]
  /\ thr' = [thr EXCEPT ![t].pc = "connecting"]
  /\ UNCHANGED <<socks, udp, held, pcbs, given, dropped, stale>>

\* connect gives up: interrupted, or in a state in which it does not expect to be.
ConnectFails(t) ==
  LET s == thr[t].sock.desc IN
  /\ thr[t].pc = "connecting" /\ Live(s)
  /\ tcp' = [tcp EXCEPT ![s].state = "CLOSED"]
  /\ thr' = [thr EXCEPT ![t] = Idle]
  /\ UNCHANGED <<socks, udp, held, pcbs, given, dropped, stale>>

\* Every other return: an error, an interruption, a connection made, or a call that leaves
\* the slots as they are.  connect waits while its handshake goes on.
Return(t) ==
  LET s == thr[t].sock.desc IN
  /\ thr[t].pc \in Calls
  /\ (thr[t].pc = "connecting" /\ Live(s)) => tcp[s].state = "ESTABLISHED"
  /\ thr' = [thr EXCEPT ![t] = Idle]
  /\ UNCHANGED <<socks, tcp, udp, held, pcbs, given, dropped, stale>>
-----------------------------------------------------------------------------
\* A SYN for a listener whose backlog is not full: a PCB for the new connection.
NewConnection(l, s) ==
  /\ Live(l) /\ tcp[l].state = "LISTEN" /\ Len(tcp[l].backlog) < BacklogMax
  /\ pcbs < MaxPcbs /\ FirstFree(tcp, NoPcb, s)
  /\ tcp' = [tcp EXCEPT ![s] = NewPcb("SYN_RECEIVED", l)]
  /\ pcbs' = pcbs + 1
  /\ stale' = (stale \/ Dangling(s))
  /\ UNCHANGED <<socks, udp, thr, held, given, dropped>>

\* The end of a handshake.  The PCB of a new connection joins the backlog of the PCB in the
\* slot of its parent, if there is one.
Established(s) ==
  /\ Live(s) /\ tcp[s].state \in {"SYN_SENT", "SYN_RECEIVED"}
  /\ LET p == tcp[s].parent
         up == [tcp EXCEPT ![s].state = "ESTABLISHED"]
     IN tcp' = IF tcp[s].state = "SYN_RECEIVED" /\ Live(p)
               THEN [up EXCEPT ![p].backlog = Append(@, s)] ELSE up
  /\ UNCHANGED <<socks, udp, thr, held, pcbs, given, dropped, stale>>

\* A segment or the TIME_WAIT timer ends the connection: its PCB is released, and stays
\* in the backlog it may be in.
Reset(s) ==
  /\ Live(s) /\ tcp[s].state \notin {"CLOSED", "LISTEN"}
  /\ tcp' = Released(s)
  /\ dropped' = dropped \cup {tcp[x].num : x \in {y \in Drained(s) : Live(y)}}
  /\ UNCHANGED <<socks, udp, thr, held, pcbs, given, stale>>

\* Retransmission gives up: the PCB is CLOSED and keeps its slot.
TimedOut(s) ==
  /\ Live(s) /\ tcp[s].state \notin {"CLOSED", "LISTEN"}
  /\ tcp' = [tcp EXCEPT ![s].state = "CLOSED"]
  /\ UNCHANGED <<socks, udp, thr, held, pcbs, given, dropped, stale>>
-----------------------------------------------------------------------------
Step(t) ==
  \/ \E ty \in {"STREAM", "DGRAM"}, s \in Slot : Open(t, ty, s)
  \/ \E d \in Desc : Alloc(t, d) \/ Close(t, d)
  \/ \E d \in Desc, call \in Calls \ {"connecting"} : Call(t, d, call)
  \/ CloseClear(t) \/ CloseProto(t)
  \/ Listen(t) \/ Accept(t) \/ Connect(t) \/ ConnectFails(t) \/ Return(t)

Network ==
  \/ \E l, s \in Slot : NewConnection(l, s)
  \/ \E s \in Slot : Established(s) \/ Reset(s) \/ TimedOut(s)

Next == (\E t \in Thread : Step(t)) \/ Network

Spec == Init /\ [][Next]_vars
-----------------------------------------------------------------------------
\* A descriptor names the PCB for which it was made, whatever other threads open, accept
\* and close in between.  For a datagram socket there is no exception.  For a stream, a
\* segment may have released the PCB, and nothing is said once tcp.rs has used the slot
\* again with the old name still there.
RightPcb ==
  /\ \A h \in OfType("DGRAM") : udp[Has(h).desc] = Has(h).num
  /\ ~stale => \A h \in OfType("STREAM") :
       Has(h).num \in dropped \/ (Live(Has(h).desc) /\ tcp[Has(h).desc].num = Has(h).num)

\* No two descriptors, and no calls that are still at it, have one PCB: no connection is
\* accepted twice, and no socket is closed through the descriptor of another.
OneSocketPerPcb ==
  \A ty \in {"STREAM", "DGRAM"} : (ty = "STREAM" => ~stale) =>
    \A g, h \in OfType(ty) : Has(g).num = Has(h).num => g = h

\* No PCB is lost: one that the application was given is behind a descriptor or in a call,
\* or tcp.rs is done with it (CLOSED) or is closing it.
NoOrphan ==
  LET Mine(ty) == {Has(h).num : h \in OfType(ty)} IN
  /\ \A s \in Slot : udp[s] # NoPcb => udp[s] \in Mine("DGRAM")
  /\ ~stale => \A s \in Slot : (Live(s) /\ tcp[s].num \in given) =>
       tcp[s].num \in Mine("STREAM") \/ tcp[s].state \in {"CLOSED", "CLOSING"}
=============================================================================
