--------------------------------- MODULE Udp --------------------------------
(***************************************************************************)
(* The UDP sockets of udp.rs: the table of PCBs under its mutex, the       *)
(* threads that call open, bind, close, sendto and recvfrom, and input on  *)
(* the thread of the network stack.  Each critical section of PCBS is one  *)
(* action.  input notifies the task after it released the mutex, and       *)
(* sendto sends after it released it, so other threads run in between.     *)
(*                                                                         *)
(* A task (platform/linux/task.rs) outlives its PCB: the threads that wait *)
(* on it hold a reference.  It is used as WaitSpec describes it.  Payloads *)
(* are numbered in the order in which they arrive.                         *)
(***************************************************************************)
EXTENDS Integers, Sequences

CONSTANTS Thread,                               \* the application's threads
          PCB_SIZE_MAX,
          Addr, ANY,                            \* IP addresses, IpAddr::ANY among them
          Port,                                 \* port numbers, 0 among them
          DYNAMIC_PORT_MIN, DYNAMIC_PORT_MAX,
          MaxOpens,                             \* bound on the number of calls of open
          MaxInput,                             \* bound on the number of datagrams
          NoPcb, NoTask

Desc == 0..(PCB_SIZE_MAX - 1)
Task == 1..MaxOpens
Endp == [addr : Addr, port : Port]
DynamicPort == DYNAMIC_PORT_MIN..DYNAMIC_PORT_MAX
UdpPcb == [local : Endp, queue : Seq(1..MaxInput), task : Task]

ASSUME UdpAssumption ==
  /\ PCB_SIZE_MAX \in Nat /\ MaxOpens \in Nat /\ MaxInput \in Nat
  /\ ANY \in Addr
  /\ DynamicPort \subseteq Port /\ Port \subseteq Nat /\ 0 \in Port
  /\ DYNAMIC_PORT_MIN \in Nat \ {0} /\ DYNAMIC_PORT_MAX \in Nat
  /\ NoPcb \notin UdpPcb /\ NoTask \notin Task

VARIABLES pcbs,      \* PCBS
          thr,       \* where each thread is, and its local variables
          intr,      \* the tasks whose interrupted flag is set
          notifying, \* the task that input is about to notify
          opens,     \* how many PCBs there have been
          inputs,    \* how many datagrams were queued
          arrived,   \* the datagrams queued on each PCB so far, for the properties
          taken      \* the datagrams recvfrom took from each PCB so far, likewise

vars == <<pcbs, thr, intr, notifying, opens, inputs, arrived, taken>>

\* "lock": about to take the mutex in the loop of recvfrom; "wait": holds a task and its
\* snapshot, nothing notified since; "woken": notified since; "out": sendto, mutex released.
ThreadState ==
  [pc : {"idle", "lock", "wait", "woken", "out"}, desc : Desc \cup {0}, task : Task \cup {NoTask}, local : Endp]

TypeOK ==
  /\ pcbs \in [Desc -> UdpPcb \cup {NoPcb}]
  /\ thr \in [Thread -> ThreadState]
  /\ intr \subseteq Task
  /\ notifying \in Task \cup {NoTask}
  /\ opens \in 0..MaxOpens
  /\ inputs \in 0..MaxInput
  /\ arrived \in [Task -> Seq(1..MaxInput)]
  /\ taken \in [Task -> Seq(1..MaxInput)]

Live == {d \in Desc : pcbs[d] # NoPcb}
Unbound == [addr |-> ANY, port |-> 0]
Idle == [pc |-> "idle", desc |-> 0, task |-> NoTask, local |-> Unbound]
Waiting(t) == thr[t].pc \in {"wait", "woken"}
-----------------------------------------------------------------------------
Init ==
  /\ pcbs = [d \in Desc |-> NoPcb]
  /\ thr = [t \in Thread |-> Idle]
  /\ intr = {}
  /\ notifying = NoTask
  /\ opens = 0
  /\ inputs = 0
  /\ arrived = [k \in Task |-> <<>>]
  /\ taken = [k \in Task |-> <<>>]

\* Defect: only equal addresses conflict.
SelectMatchesExact(local, key) == local.port = key.port /\ local.addr = key.addr

\* The condition of pcb_select on one PCB.
SelectMatches(local, key) ==
  /\ local.port = key.port
  /\ local.addr = key.addr \/ local.addr = ANY \/ key.addr = ANY

Matches(key) == {d \in Live : SelectMatches(pcbs[d].local, key)}

\* pcb_select takes the first of them.
Selects(key, d) == d \in Matches(key) /\ \A e \in Matches(key) : d <= e

\* Task::notify: the snapshots of all who wait are out of date.
Woken(k) == [t \in Thread |-> IF thr[t].pc = "wait" /\ thr[t].task = k
                              THEN [thr[t] EXCEPT !.pc = "woken"] ELSE thr[t]]

\* open: the first free slot.
Open(t) ==
  /\ thr[t].pc = "idle" /\ opens < MaxOpens
  /\ \E d \in Desc \ Live :
       /\ \A e \in Desc \ Live : d <= e
       /\ pcbs' = [pcbs EXCEPT ![d] = [local |-> Unbound, queue |-> <<>>, task |-> opens + 1]]
  /\ opens' = opens + 1
  /\ UNCHANGED <<thr, intr, notifying, inputs, arrived, taken>>

\* Defect: the waiters of a closed socket are forgotten.
ReleasedSilently(d) == thr

\* The threads after pcb_release of d.
Released(d) == Woken(pcbs[d].task)

Close(t, d) ==
  /\ thr[t].pc = "idle" /\ d \in Live
  /\ pcbs' = [pcbs EXCEPT ![d] = NoPcb]
  /\ thr' = Released(d)
  /\ UNCHANGED <<intr, notifying, opens, inputs, arrived, taken>>

Bind(t, d, local) ==
  /\ thr[t].pc = "idle" /\ d \in Live
  /\ Matches(local) = {}
  /\ pcbs' = [pcbs EXCEPT ![d].local = local]
  /\ UNCHANGED <<thr, intr, notifying, opens, inputs, arrived, taken>>
-----------------------------------------------------------------------------
(***************************************************************************)
(* input, for a datagram that passed the checks of its header.  One that   *)
(* no PCB matches is answered by ICMP or dropped.                          *)
(***************************************************************************)
\* Defect: the newest datagram first.
PushedFront(p, n) == [p EXCEPT !.queue = <<n>> \o @]

Pushed(p, n) == [p EXCEPT !.queue = Append(@, n)]

Input(dst) ==
  /\ notifying = NoTask /\ inputs < MaxInput
  /\ \E d \in Desc :
       /\ Selects(dst, d)
       /\ pcbs' = [pcbs EXCEPT ![d] = Pushed(@, inputs + 1)]
       /\ arrived' = [arrived EXCEPT ![pcbs[d].task] = Append(@, inputs + 1)]
       /\ notifying' = pcbs[d].task
  /\ inputs' = inputs + 1
  /\ UNCHANGED <<thr, intr, opens, taken>>

\* Defect: input does not notify.
NotifiedNobody == thr

Notified == Woken(notifying)

\* The end of input, after it released the mutex.
InputNotify ==
  /\ notifying # NoTask
  /\ thr' = Notified
  /\ notifying' = NoTask
  /\ UNCHANGED <<pcbs, intr, opens, inputs, arrived, taken>>
-----------------------------------------------------------------------------
(***************************************************************************)
(* recvfrom.                                                               *)
(***************************************************************************)
Recvfrom(t, d) ==
  /\ thr[t].pc = "idle"
  /\ thr' = [thr EXCEPT ![t].pc = "lock", ![t].desc = d]
  /\ UNCHANGED <<pcbs, intr, notifying, opens, inputs, arrived, taken>>

\* One turn of its loop, up to wait_after.
RecvfromStep(t) ==
  LET d == thr[t].desc
      k == pcbs[d].task
  IN
  /\ thr[t].pc = "lock"
  /\ \/ /\ d \notin Live
        /\ thr' = [thr EXCEPT ![t] = Idle]
        /\ UNCHANGED <<pcbs, taken>>
     \/ /\ d \in Live /\ pcbs[d].queue # <<>>
        /\ pcbs' = [pcbs EXCEPT ![d].queue = Tail(@)]
        /\ taken' = [taken EXCEPT ![k] = Append(@, Head(pcbs[d].queue))]
        /\ thr' = [thr EXCEPT ![t] = Idle]
     \/ /\ d \in Live /\ pcbs[d].queue = <<>>
        /\ thr' = [thr EXCEPT ![t].pc = "wait", ![t].task = k]
        /\ UNCHANGED <<pcbs, taken>>
  /\ UNCHANGED <<intr, notifying, opens, inputs, arrived>>

\* wait_after returns: Notified, or Interrupted.  The last thread inside wait_after
\* clears the flag; another one may hold its snapshot and not be inside yet.
WaitReturns(t) ==
  LET k == thr[t].task
      alone == \A u \in Thread \ {t} : ~(Waiting(u) /\ thr[u].task = k)
  IN
  /\ \/ /\ thr[t].pc = "woken" /\ k \notin intr
        /\ thr' = [thr EXCEPT ![t].pc = "lock", ![t].task = NoTask]
        /\ UNCHANGED intr
     \/ /\ Waiting(t) /\ k \in intr
        /\ thr' = [thr EXCEPT ![t] = Idle]
        /\ intr' \in IF alone THEN {intr \ {k}} ELSE {intr, intr \ {k}}
  /\ UNCHANGED <<pcbs, notifying, opens, inputs, arrived, taken>>

\* task::isr, for one of the tasks somebody still refers to.
Interrupt(k) ==
  /\ (\E d \in Live : pcbs[d].task = k) \/ (\E t \in Thread : Waiting(t) /\ thr[t].task = k)
  /\ k \notin intr
  /\ intr' = intr \cup {k}
  /\ UNCHANGED <<pcbs, thr, notifying, opens, inputs, arrived, taken>>
-----------------------------------------------------------------------------
(***************************************************************************)
(* sendto.                                                                 *)
(***************************************************************************)
\* Defect: the first dynamic port, in use or not.
DynamicPortsUnchecked(addr) == {DYNAMIC_PORT_MIN}

\* The ports that assign_dynamic_port may take: the first that is free.
DynamicPorts(addr) ==
  LET free == {p \in DynamicPort : Matches([addr |-> addr, port |-> p]) = {}}
  IN {p \in free : \A q \in free : p <= q}

Sendto(t, d) ==
  /\ thr[t].pc = "idle" /\ d \in Live
  /\ \E local \in Endp :
       /\ local.addr = pcbs[d].local.addr
       /\ IF pcbs[d].local.port = 0 THEN local.port \in DynamicPorts(local.addr)
          ELSE local.port = pcbs[d].local.port
       /\ pcbs' = [pcbs EXCEPT ![d].local = local]
       /\ thr' = [thr EXCEPT ![t] = [pc |-> "out", desc |-> d, task |-> pcbs[d].task, local |-> local]]
  /\ UNCHANGED <<intr, notifying, opens, inputs, arrived, taken>>

\* The source address, from the route if the socket has none, and output; an error of
\* route_lookup, of output or of ip::output changes nothing more.
SendtoOutput(t) ==
  /\ thr[t].pc = "out"
  /\ thr' = [thr EXCEPT ![t] = Idle]
  /\ UNCHANGED <<pcbs, intr, notifying, opens, inputs, arrived, taken>>

ThreadStep(t) == RecvfromStep(t) \/ WaitReturns(t) \/ SendtoOutput(t)

Next ==
  \/ \E t \in Thread : \/ Open(t) \/ ThreadStep(t)
                       \/ \E d \in Desc : Close(t, d) \/ Recvfrom(t, d) \/ Sendto(t, d)
                       \/ \E d \in Desc, local \in Endp : Bind(t, d, local)
  \/ \E dst \in Endp : dst.addr # ANY /\ Input(dst)
  \/ InputNotify
  \/ \E k \in Task : Interrupt(k)

Spec == Init /\ [][Next]_vars

\* The thread of the stack finishes input, and a thread that can run does.
FairSpec == Spec /\ WF_vars(InputNotify) /\ \A t \in Thread : WF_vars(ThreadStep(t))
-----------------------------------------------------------------------------
\* bind and assign_dynamic_port ask pcb_select before they name a socket: no two sockets
\* ever have local endpoints that the same datagram could be for.
EndpointsDisjoint ==
  \A c, d \in Live :
    c # d /\ pcbs[c].local.port # 0 /\ pcbs[c].local.port = pcbs[d].local.port =>
      pcbs[c].local.addr # pcbs[d].local.addr /\ ANY \notin {pcbs[c].local.addr, pcbs[d].local.addr}

\* A reply to what sendto sends comes back to the socket it was sent from, if that is open
\* and keeps its name: pcb_select finds it whichever of its addresses the reply is for.
ReplyComesBack ==
  \A t \in Thread :
    LET d == thr[t].desc IN
    thr[t].pc = "out" /\ d \in Live /\ pcbs[d].task = thr[t].task /\ pcbs[d].local = thr[t].local =>
      \A a \in Addr \ {ANY} :
        thr[t].local.addr \in {a, ANY} => Selects([addr |-> a, port |-> thr[t].local.port], d)

\* The mutex is free between the push of a datagram and the notify, and close notifies too:
\* nobody sleeps in recvfrom on a closed socket, nor on one with a datagram unless input is
\* about to notify it.
SleepersHaveNothing ==
  \A t \in Thread : thr[t].pc = "wait" =>
    \E d \in Live : /\ d = thr[t].desc /\ pcbs[d].task = thr[t].task
                    /\ pcbs[d].queue # <<>> => notifying = thr[t].task

\* However many threads call recvfrom on a socket: what they took is, in order, what came,
\* each datagram once, and the rest is still queued.
TakenInOrder ==
  \A d \in Live : taken[pcbs[d].task] \o pcbs[d].queue = arrived[pcbs[d].task]

\* A datagram does not stay behind a sleeping thread.
DatagramEndsSleep ==
  \A t \in Thread :
    (thr[t].pc = "wait" /\ pcbs[thr[t].desc] # NoPcb /\ pcbs[thr[t].desc].queue # <<>>)
      ~> thr[t].pc # "wait"
=============================================================================
