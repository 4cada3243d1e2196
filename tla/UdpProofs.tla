------------------------------ MODULE UdpProofs -----------------------------
(***************************************************************************)
(* Proofs about Udp, for any number of threads, sockets, addresses, ports  *)
(* and datagrams.  EndpointsDisjoint and TakenInOrder need that no two     *)
(* PCBs ever had the same task, and ReplyComesBack that sendto never sends *)
(* from port 0.                                                            *)
(***************************************************************************)
EXTENDS Udp, SequenceTheorems, TLAPS

\* Task k is new when open makes it the (opens + 1)st, and no other PCB's.
TasksFresh ==
  /\ \A d \in Live : pcbs[d].task <= opens
  /\ \A c, d \in Live : pcbs[c].task = pcbs[d].task => c = d
  /\ \A k \in Task : k > opens => arrived[k] = <<>> /\ taken[k] = <<>>

SendersNamed == \A t \in Thread : thr[t].pc = "out" => thr[t].local.port # 0

IInv ==
  TypeOK /\ EndpointsDisjoint /\ SleepersHaveNothing /\ TakenInOrder /\ TasksFresh /\ SendersNamed

\* What a live slot holds.
LEMMA LivePcb ==
  ASSUME TypeOK, NEW d \in Live
  PROVE  /\ d \in Desc /\ pcbs[d] \in UdpPcb /\ pcbs[d].local \in Endp /\ pcbs[d].task \in Task
         /\ pcbs[d].queue \in Seq(1..MaxInput)
BY DEF TypeOK, Live, UdpPcb

\* pcb_select treats its two sides alike.
LEMMA MatchesSymmetric ==
  ASSUME NEW e, NEW f, SelectMatches(e, f) PROVE SelectMatches(f, e)
BY DEF SelectMatches

\* Disjoint endpoints are those pcb_select tells apart.
LEMMA DisjointUnmatched ==
  EndpointsDisjoint <=>
    \A c, d \in Live : c # d /\ pcbs[c].local.port # 0 => ~SelectMatches(pcbs[c].local, pcbs[d].local)
BY DEF EndpointsDisjoint, SelectMatches

\* notify changes no more than the pc of a thread that slept on the task.
LEMMA WokenType ==
  ASSUME TypeOK, NEW k
  PROVE  /\ Woken(k) \in [Thread -> ThreadState]
         /\ \A t \in Thread :
              /\ Woken(k)[t].pc = "wait" => /\ thr[t].pc = "wait" /\ thr[t].task # k
                                            /\ Woken(k)[t] = thr[t]
              /\ Woken(k)[t].pc = "out" => Woken(k)[t] = thr[t]
<1>1. ASSUME NEW t \in Thread
      PROVE  [thr[t] EXCEPT !.pc = "woken"] \in ThreadState /\ [thr[t] EXCEPT !.pc = "woken"].pc = "woken"
  BY <1>1 DEF TypeOK, ThreadState
<1> QED BY <1>1 DEF Woken, TypeOK

\* The state a thread is in between two calls.
LEMMA IdleType == Idle \in ThreadState /\ Idle.pc = "idle"
BY UdpAssumption DEF Idle, ThreadState, Unbound, Endp

\* recvfrom moves the head of the queue from one side to the other.
LEMMA PopMoves ==
  ASSUME NEW S, NEW s \in Seq(S), NEW q \in Seq(S), q # <<>>
  PROVE  Append(s, Head(q)) \o Tail(q) = s \o q
<1>1. Head(q) \in S /\ Tail(q) \in Seq(S) /\ Len(Tail(q)) = Len(q) - 1
  BY HeadTailProperties
<1>2. <<Head(q)>> \in Seq(S) /\ Append(s, Head(q)) = s \o <<Head(q)>>
  BY <1>1, AppendIsConcat
<1>3. <<Head(q)>> \o Tail(q) = q
  <2> DEFINE r == <<Head(q)>> \o Tail(q)
  <2>1. r \in Seq(S) /\ Len(r) = Len(q)
    BY <1>1, <1>2, ConcatProperties
  <2>2. \A i \in 1..Len(q) : r[i] = q[i]
    BY <1>1, <1>2, HeadTailProperties, ConcatProperties
  <2> HIDE DEF r
  <2>3. r = q
    BY <2>1, <2>2, SeqEqual
  <2> QED BY <2>3 DEF r
<1> QED BY <1>1, <1>2, <1>3, ConcatAssociative

\* input adds to the end of both.
LEMMA PushMoves ==
  ASSUME NEW S, NEW s \in Seq(S), NEW q \in Seq(S), NEW n \in S
  PROVE  s \o Append(q, n) = Append(s \o q, n)
BY AppendIsConcat, ConcatProperties, ConcatAssociative

\* The initial state satisfies the invariant.
LEMMA InitIInv == Init => IInv
<1> SUFFICES ASSUME Init PROVE IInv
  OBVIOUS
<1>1. Live = {}
  BY DEF Init, Live
<1>2. thr \in [Thread -> ThreadState] /\ \A t \in Thread : thr[t].pc = "idle"
  BY IdleType DEF Init
<1>3. TypeOK
  BY <1>2, UdpAssumption DEF Init, TypeOK
<1>4. TasksFresh
  BY <1>1 DEF Init, TasksFresh
<1> QED BY <1>1, <1>2, <1>3, <1>4
        DEF IInv, EndpointsDisjoint, SleepersHaveNothing, TakenInOrder, SendersNamed

\* A step that leaves the table alone keeps what only speaks of the table.
LEMMA TableKept ==
  ASSUME IInv, UNCHANGED <<pcbs, opens, arrived, taken>>, Live' = Live
  PROVE  EndpointsDisjoint' /\ TakenInOrder' /\ TasksFresh'
<1>1. EndpointsDisjoint'
  BY DEF IInv, EndpointsDisjoint
<1>2. TakenInOrder'
  BY DEF IInv, TakenInOrder
<1>3. TasksFresh'
  BY DEF IInv, TasksFresh
<1> QED BY <1>1, <1>2, <1>3

\* A step of a thread that leaves the table alone and puts nobody to sleep.
LEMMA ThreadOnly ==
  ASSUME IInv, UNCHANGED <<pcbs, notifying, opens, inputs, arrived, taken>>, intr' \subseteq Task,
         thr' \in [Thread -> ThreadState],
         \A t \in Thread : thr'[t].pc \in {"wait", "out"} => thr'[t] = thr[t]
  PROVE  IInv'
<1>1. TypeOK'
  BY DEF IInv, TypeOK
<1>2. Live' = Live
  BY DEF Live
<1>3. SleepersHaveNothing' /\ SendersNamed'
  BY <1>2 DEF IInv, SleepersHaveNothing, SendersNamed
<1> QED BY <1>1, <1>2, <1>3, TableKept DEF IInv

\* open.
LEMMA OpenStep == ASSUME IInv, NEW t \in Thread, Open(t) PROVE IInv'
<1> DEFINE k == opens + 1
           q == [local |-> Unbound, queue |-> <<>>, task |-> k]
<1>1. PICK d \in Desc \ Live : pcbs' = [pcbs EXCEPT ![d] = q]
  BY DEF Open
<1>2. k \in Task /\ opens' = k /\ TypeOK /\ k > opens
  BY UdpAssumption DEF Open, IInv, TypeOK, Task
<1> HIDE DEF k
<1>3. q \in UdpPcb /\ q # NoPcb
  <2>1. Unbound \in Endp
    BY UdpAssumption DEF Unbound, Endp
  <2>2. q \in UdpPcb
    BY <1>2, <2>1 DEF UdpPcb
  <2> QED BY <2>2, UdpAssumption
<1>4. q.local.port = 0 /\ q.queue = <<>> /\ q.task = k
  BY DEF Unbound
<1> HIDE DEF q
<1>5. pcbs'[d] = q /\ \A e \in Desc \ {d} : pcbs'[e] = pcbs[e]
  BY <1>1, <1>2 DEF TypeOK
<1>6. Live' = Live \cup {d}
  BY <1>3, <1>5 DEF Live
<1>7. TypeOK'
  BY <1>1, <1>2, <1>3 DEF TypeOK, Open, Task
<1>8. EndpointsDisjoint'
  BY <1>4, <1>5, <1>6 DEF IInv, EndpointsDisjoint, SelectMatches, Live
<1>9. SleepersHaveNothing'
  BY <1>5, <1>6 DEF IInv, SleepersHaveNothing, Open, Live
<1>10. arrived' = arrived /\ taken' = taken /\ arrived[k] = <<>> /\ taken[k] = <<>>
  BY <1>2 DEF Open, IInv, TasksFresh
<1>11. TakenInOrder'
  <2>1. \A e \in Live : e # d /\ pcbs'[e] = pcbs[e]
    BY <1>5 DEF Live
  <2>2. taken'[pcbs'[d].task] \o pcbs'[d].queue = arrived'[pcbs'[d].task]
    <3>1. <<>> \o <<>> = <<>>
      BY ConcatEmptySeq
    <3> QED BY <1>4, <1>5, <1>10, <3>1
  <2> QED BY <1>6, <1>10, <2>1, <2>2 DEF IInv, TakenInOrder
<1>12. \A e \in Live : pcbs[e].task \in Task /\ pcbs[e].task <= opens
  BY <1>2, LivePcb DEF IInv, TasksFresh
<1>13. TasksFresh'
  <2>1. \A e \in Live : e # d /\ pcbs'[e] = pcbs[e]
    BY <1>5 DEF Live
  <2>2. opens \in Int /\ k = opens + 1
    BY <1>2 DEF TypeOK, k
  <2>3. \A e \in Live' : pcbs'[e].task <= opens'
    BY <1>2, <1>4, <1>5, <1>6, <1>12, <2>1, <2>2 DEF Task
  <2>4. \A e \in Live : pcbs[e].task # k
    BY <1>12, <2>2 DEF Task
  <2>5. \A c, e \in Live' : pcbs'[c].task = pcbs'[e].task => c = e
    BY <1>4, <1>5, <1>6, <2>1, <2>4 DEF IInv, TasksFresh
  <2>6. \A j \in Task : j > opens' => arrived'[j] = <<>> /\ taken'[j] = <<>>
    BY <1>2, <1>10, <2>2 DEF IInv, TasksFresh, Task
  <2> QED BY <2>3, <2>5, <2>6 DEF TasksFresh
<1> QED BY <1>7, <1>8, <1>9, <1>11, <1>13 DEF IInv, SendersNamed, Open

\* close.
LEMMA CloseStep == ASSUME IInv, NEW t \in Thread, NEW d \in Desc, Close(t, d) PROVE IInv'
<1> DEFINE k == pcbs[d].task
<1>1. TypeOK /\ d \in Live /\ k \in Task
  BY LivePcb DEF IInv, Close
<1>2. pcbs' = [pcbs EXCEPT ![d] = NoPcb] /\ thr' = Woken(k)
  BY DEF Close, Released
<1>3. pcbs'[d] = NoPcb /\ \A e \in Desc \ {d} : pcbs'[e] = pcbs[e]
  BY <1>1, <1>2 DEF TypeOK
<1>4. Live' = Live \ {d} /\ Live \subseteq Desc
  BY <1>3 DEF Live
<1>5. TypeOK'
  BY <1>1, <1>2, WokenType DEF TypeOK, Close
<1>6. EndpointsDisjoint' /\ TakenInOrder' /\ TasksFresh'
  <2>1. \A e \in Live' : e \in Live /\ pcbs'[e] = pcbs[e]
    BY <1>3, <1>4
  <2>2. UNCHANGED <<opens, arrived, taken>>
    BY DEF Close
  <2>3. EndpointsDisjoint'
    BY <2>1 DEF IInv, EndpointsDisjoint
  <2>4. TakenInOrder'
    BY <2>1, <2>2 DEF IInv, TakenInOrder
  <2>5. TasksFresh'
    BY <2>1, <2>2 DEF IInv, TasksFresh
  <2> QED BY <2>3, <2>4, <2>5
<1>7. ASSUME NEW u \in Thread, thr'[u].pc = "wait"
      PROVE  \E e \in Live' : /\ e = thr'[u].desc /\ pcbs'[e].task = thr'[u].task
                              /\ pcbs'[e].queue # <<>> => notifying' = thr'[u].task
  <2>1. thr[u].pc = "wait" /\ thr'[u] = thr[u] /\ thr[u].task # k
    BY <1>1, <1>2, <1>7, WokenType
  <2>2. PICK e \in Live : /\ e = thr[u].desc /\ pcbs[e].task = thr[u].task
                          /\ pcbs[e].queue # <<>> => notifying = thr[u].task
    BY <2>1 DEF IInv, SleepersHaveNothing
  <2>3. e # d
    BY <2>1, <2>2
  <2> QED BY <1>3, <1>4, <2>1, <2>2, <2>3 DEF Close
<1>8. SendersNamed'
  BY <1>1, <1>2, WokenType DEF IInv, SendersNamed
<1> QED BY <1>5, <1>6, <1>7, <1>8 DEF IInv, SleepersHaveNothing

\* A live socket gets a name that no socket matched, or keeps its own.
LEMMA Named ==
  ASSUME IInv, NEW d \in Live, NEW local \in Endp, Matches(local) = {} \/ local = pcbs[d].local,
         pcbs' = [pcbs EXCEPT ![d].local = local],
         UNCHANGED <<intr, notifying, opens, inputs, arrived, taken>>,
         thr' \in [Thread -> ThreadState],
         \A t \in Thread : /\ thr'[t].pc = "wait" => thr'[t] = thr[t]
                           /\ thr'[t].pc = "out" => thr'[t].local.port # 0
  PROVE  IInv'
<1> DEFINE q == [pcbs[d] EXCEPT !.local = local]
<1>1. TypeOK /\ d \in Desc /\ pcbs[d] \in UdpPcb /\ Live \subseteq Desc
  BY LivePcb DEF IInv, Live
<1>2. pcbs' = [pcbs EXCEPT ![d] = q]
  OBVIOUS
<1>3. q \in UdpPcb /\ q.local = local /\ q.queue = pcbs[d].queue /\ q.task = pcbs[d].task
  BY <1>1 DEF UdpPcb
<1> HIDE DEF q
<1>4. pcbs'[d] = q /\ \A e \in Desc \ {d} : pcbs'[e] = pcbs[e]
  BY <1>1, <1>2 DEF TypeOK
<1>5. Live' = Live
  BY <1>1, <1>3, <1>4, UdpAssumption DEF Live
<1>6. TypeOK'
  BY <1>1, <1>2, <1>3 DEF TypeOK
<1>7. \A e \in Live : pcbs'[e].queue = pcbs[e].queue /\ pcbs'[e].task = pcbs[e].task
  BY <1>1, <1>3, <1>4
<1>8. TakenInOrder' /\ TasksFresh' /\ SleepersHaveNothing' /\ SendersNamed'
  <2>1. TakenInOrder'
    BY <1>5, <1>7 DEF IInv, TakenInOrder
  <2>2. TasksFresh'
    BY <1>5, <1>7 DEF IInv, TasksFresh
  <2>3. SleepersHaveNothing'
    BY <1>5, <1>7 DEF IInv, SleepersHaveNothing
  <2> QED BY <2>1, <2>2, <2>3 DEF SendersNamed
<1>9. ASSUME NEW c \in Live, NEW e \in Live, c # e, pcbs'[c].local.port # 0
      PROVE  ~SelectMatches(pcbs'[c].local, pcbs'[e].local)
  <2>1. CASE local = pcbs[d].local
    BY <1>1, <1>3, <1>4, <1>9, <2>1, DisjointUnmatched DEF IInv
  <2>2. CASE Matches(local) = {}
    <3>1. \A f \in Live : ~SelectMatches(pcbs[f].local, local)
      BY <2>2 DEF Matches
    <3>2. CASE c = d
      BY <1>1, <1>3, <1>4, <1>9, <3>1, <3>2, MatchesSymmetric
    <3>3. CASE e = d
      BY <1>1, <1>3, <1>4, <1>9, <3>1, <3>3
    <3>4. CASE c # d /\ e # d
      BY <1>1, <1>4, <1>9, <3>4, DisjointUnmatched DEF IInv
    <3> QED BY <3>2, <3>3, <3>4
  <2> QED BY <2>1, <2>2
<1>10. EndpointsDisjoint'
  BY <1>5, <1>9 DEF EndpointsDisjoint, SelectMatches
<1> QED BY <1>6, <1>8, <1>10 DEF IInv
\* bind.
LEMMA BindStep ==
  ASSUME IInv, NEW t \in Thread, NEW d \in Desc, NEW local \in Endp, Bind(t, d, local) PROVE IInv'
<1>1. /\ d \in Live /\ Matches(local) = {} /\ pcbs' = [pcbs EXCEPT ![d].local = local] /\ thr' = thr
      /\ UNCHANGED <<intr, notifying, opens, inputs, arrived, taken>>
  BY DEF Bind
<1>2. thr \in [Thread -> ThreadState] /\ SendersNamed
  BY DEF IInv, TypeOK
<1> QED BY <1>1, <1>2, Named DEF SendersNamed

\* sendto, up to the release of the mutex.
LEMMA SendtoStep == ASSUME IInv, NEW t \in Thread, NEW d \in Desc, Sendto(t, d) PROVE IInv'
<1>1. PICK local \in Endp :
        /\ local.addr = pcbs[d].local.addr
        /\ IF pcbs[d].local.port = 0 THEN local.port \in DynamicPorts(local.addr)
           ELSE local.port = pcbs[d].local.port
        /\ pcbs' = [pcbs EXCEPT ![d].local = local]
        /\ thr' = [thr EXCEPT ![t] = [pc |-> "out", desc |-> d, task |-> pcbs[d].task, local |-> local]]
  BY DEF Sendto
<1>2. /\ d \in Live /\ pcbs[d].local \in Endp /\ pcbs[d].task \in Task /\ thr \in [Thread -> ThreadState]
      /\ SendersNamed /\ UNCHANGED <<intr, notifying, opens, inputs, arrived, taken>>
  BY LivePcb DEF Sendto, IInv, TypeOK
<1>3. local = [addr |-> local.addr, port |-> local.port]
  BY DEF Endp
<1>4. (Matches(local) = {} \/ local = pcbs[d].local) /\ local.port # 0
  <2>1. CASE pcbs[d].local.port = 0
    BY <1>1, <1>3, <2>1, UdpAssumption DEF DynamicPorts, DynamicPort
  <2>2. CASE pcbs[d].local.port # 0
    BY <1>1, <1>2, <1>3, <2>2 DEF Endp
  <2> QED BY <2>1, <2>2
<1>5. thr' \in [Thread -> ThreadState]
  BY <1>1, <1>2 DEF ThreadState
<1>6. \A u \in Thread : /\ thr'[u].pc = "wait" => thr'[u] = thr[u]
                        /\ thr'[u].pc = "out" => thr'[u].local.port # 0
  BY <1>1, <1>2, <1>4 DEF SendersNamed
<1> QED BY <1>1, <1>2, <1>4, <1>5, <1>6, Named

\* input, up to the release of the mutex.
LEMMA InputStep == ASSUME IInv, NEW dst, Input(dst) PROVE IInv'
<1> DEFINE n == inputs + 1
<1>1. PICK d \in Desc : /\ Selects(dst, d)
                        /\ pcbs' = [pcbs EXCEPT ![d] = Pushed(@, n)]
                        /\ arrived' = [arrived EXCEPT ![pcbs[d].task] = Append(@, n)]
                        /\ notifying' = pcbs[d].task
  BY DEF Input
<1> DEFINE k == pcbs[d].task
           q == Pushed(pcbs[d], n)
<1>2. TypeOK /\ n \in 1..MaxInput /\ inputs' = n
  BY UdpAssumption DEF IInv, TypeOK, Input
<1> HIDE DEF n
<1>3. d \in Live /\ k \in Task /\ pcbs[d] \in UdpPcb /\ pcbs[d].queue \in Seq(1..MaxInput)
  BY <1>1, <1>2, LivePcb DEF Selects, Matches
<1>4. /\ q \in UdpPcb /\ q.local = pcbs[d].local /\ q.task = k /\ q.queue = Append(pcbs[d].queue, n)
  BY <1>2, <1>3, AppendProperties DEF UdpPcb, Pushed
<1>5. pcbs' = [pcbs EXCEPT ![d] = q]
  BY <1>1
<1> HIDE DEF q
<1>6. pcbs'[d] = q /\ \A e \in Desc \ {d} : pcbs'[e] = pcbs[e]
  BY <1>2, <1>5 DEF TypeOK
<1>7. Live' = Live /\ Live \subseteq Desc
  BY <1>3, <1>4, <1>6, UdpAssumption DEF Live
<1>8. \A e \in Live : pcbs'[e].local = pcbs[e].local /\ pcbs'[e].task = pcbs[e].task
  BY <1>4, <1>6, <1>7
<1>9. UNCHANGED <<thr, intr, opens, taken>> /\ notifying = NoTask
  BY DEF Input
<1>10. /\ arrived' \in [Task -> Seq(1..MaxInput)] /\ arrived'[k] = Append(arrived[k], n)
       /\ \A j \in Task \ {k} : arrived'[j] = arrived[j]
  BY <1>1, <1>2, <1>3, AppendProperties DEF TypeOK
<1>11. TypeOK'
  BY <1>1, <1>2, <1>3, <1>4, <1>5, <1>9, <1>10 DEF TypeOK
<1>12. EndpointsDisjoint' /\ SendersNamed'
  BY <1>7, <1>8, <1>9 DEF IInv, EndpointsDisjoint, SendersNamed
<1>13. \A e \in Live : e # d => pcbs[e].task \in Task \ {k}
  BY <1>2, <1>3, LivePcb DEF IInv, TasksFresh
<1>14. TakenInOrder'
  <2>1. taken[k] \o q.queue = Append(arrived[k], n)
    <3>1. taken[k] \o pcbs[d].queue = arrived[k] /\ taken[k] \in Seq(1..MaxInput)
      BY <1>2, <1>3 DEF IInv, TakenInOrder, TypeOK
    <3>2. taken[k] \o Append(pcbs[d].queue, n) = Append(taken[k] \o pcbs[d].queue, n)
      <4> DEFINE S == 1..MaxInput
      <4>1. taken[k] \in Seq(S) /\ pcbs[d].queue \in Seq(S) /\ n \in S
        BY <1>2, <1>3, <3>1
      <4> HIDE DEF S
      <4>2. \A s, r \in Seq(S) : \A m \in S : s \o Append(r, m) = Append(s \o r, m)
        BY PushMoves
      <4> HIDE DEF k
      <4> QED BY <4>1, <4>2, Zenon
    <3> QED BY <1>4, <3>1, <3>2
  <2>2. ASSUME NEW e \in Live
        PROVE  taken'[pcbs'[e].task] \o pcbs'[e].queue = arrived'[pcbs'[e].task]
    <3>1. CASE e = d
      BY <1>4, <1>6, <1>9, <1>10, <2>1, <3>1
    <3>2. CASE e # d
      BY <1>6, <1>7, <1>9, <1>10, <1>13, <2>2, <3>2 DEF IInv, TakenInOrder
    <3> QED BY <3>1, <3>2
  <2> QED BY <1>7, <2>2 DEF TakenInOrder
<1>15. TasksFresh'
  <2>1. \A j \in Task : j > opens => j # k
    BY <1>2, <1>3 DEF IInv, TasksFresh, Task, TypeOK
  <2>2. \A j \in Task : j > opens' => arrived'[j] = <<>> /\ taken'[j] = <<>>
    BY <1>9, <1>10, <2>1 DEF IInv, TasksFresh
  <2> QED BY <1>7, <1>8, <1>9, <2>2 DEF IInv, TasksFresh
<1>16. SleepersHaveNothing'
  <2> SUFFICES ASSUME NEW u \in Thread, thr'[u].pc = "wait"
               PROVE  \E e \in Live' : /\ e = thr'[u].desc /\ pcbs'[e].task = thr'[u].task
                                       /\ pcbs'[e].queue # <<>> => notifying' = thr'[u].task
    BY DEF SleepersHaveNothing
  <2>1. PICK e \in Live : /\ e = thr[u].desc /\ pcbs[e].task = thr[u].task
                          /\ pcbs[e].queue # <<>> => notifying = thr[u].task
    BY <1>9 DEF IInv, SleepersHaveNothing
  <2>2. pcbs[e].task \in Task
    BY <1>2, LivePcb
  <2>3. e # d => pcbs'[e].queue = <<>>
    BY <1>6, <1>7, <1>9, <2>1, <2>2, UdpAssumption
  <2> QED BY <1>1, <1>7, <1>8, <1>9, <2>1, <2>3
<1> QED BY <1>11, <1>12, <1>14, <1>15, <1>16 DEF IInv
\* The end of input.
LEMMA InputNotifyStep == ASSUME IInv, InputNotify PROVE IInv'
<1>1. TypeOK /\ thr' = Woken(notifying) /\ UNCHANGED <<pcbs, intr, opens, inputs, arrived, taken>>
      /\ notifying' = NoTask
  BY DEF IInv, InputNotify, Notified
<1>2. Live' = Live
  BY <1>1 DEF Live
<1>3. TypeOK'
  BY <1>1, WokenType DEF TypeOK
<1>4. \A t \in Thread : thr'[t].pc = "wait" => /\ thr[t].pc = "wait" /\ thr'[t] = thr[t]
                                              /\ thr[t].task # notifying
  BY <1>1, WokenType
<1>5. SleepersHaveNothing'
  BY <1>1, <1>2, <1>4 DEF IInv, SleepersHaveNothing
<1>6. SendersNamed'
  BY <1>1, WokenType DEF IInv, SendersNamed
<1> QED BY <1>1, <1>2, <1>3, <1>5, <1>6, TableKept DEF IInv

\* recvfrom takes a datagram.
LEMMA RecvfromTakes ==
  ASSUME IInv, NEW t \in Thread, NEW d \in Live, pcbs[d].queue # <<>>,
         pcbs' = [pcbs EXCEPT ![d].queue = Tail(@)],
         taken' = [taken EXCEPT ![pcbs[d].task] = Append(@, Head(pcbs[d].queue))],
         thr' = [thr EXCEPT ![t] = Idle], UNCHANGED <<intr, notifying, opens, inputs, arrived>>
  PROVE  IInv'
<1> DEFINE k == pcbs[d].task
           q == [pcbs[d] EXCEPT !.queue = Tail(pcbs[d].queue)]
           n == Head(pcbs[d].queue)
<1>1. /\ TypeOK /\ d \in Desc /\ Live \subseteq Desc /\ k \in Task /\ pcbs[d] \in UdpPcb
      /\ pcbs[d].queue \in Seq(1..MaxInput)
  BY LivePcb DEF IInv, Live
<1>2. n \in 1..MaxInput /\ Tail(pcbs[d].queue) \in Seq(1..MaxInput)
  BY <1>1, HeadTailProperties
<1>3. /\ q \in UdpPcb /\ q.local = pcbs[d].local /\ q.task = k /\ q.queue = Tail(pcbs[d].queue)
  BY <1>1, <1>2 DEF UdpPcb
<1>4. pcbs' = [pcbs EXCEPT ![d] = q] /\ taken' = [taken EXCEPT ![k] = Append(@, n)]
  BY <1>1
<1> HIDE DEF q, n
<1>5. pcbs'[d] = q /\ \A e \in Desc \ {d} : pcbs'[e] = pcbs[e]
  BY <1>1, <1>4 DEF TypeOK
<1>6. Live' = Live
  BY <1>1, <1>3, <1>5, UdpAssumption DEF Live
<1>7. \A e \in Live : pcbs'[e].local = pcbs[e].local /\ pcbs'[e].task = pcbs[e].task
  BY <1>1, <1>3, <1>5
<1>8. /\ taken' \in [Task -> Seq(1..MaxInput)] /\ taken'[k] = Append(taken[k], n)
      /\ \A j \in Task \ {k} : taken'[j] = taken[j]
  BY <1>1, <1>2, <1>4, AppendProperties DEF TypeOK
<1>9. /\ thr' \in [Thread -> ThreadState]
      /\ \A u \in Thread : thr'[u].pc \in {"wait", "out"} => thr'[u] = thr[u]
  BY <1>1, IdleType DEF TypeOK
<1>10. TypeOK'
  <2>1. pcbs' \in [Desc -> UdpPcb \cup {NoPcb}]
    BY <1>1, <1>3, <1>4 DEF TypeOK
  <2> QED BY <1>1, <1>8, <1>9, <2>1 DEF TypeOK
<1>11. EndpointsDisjoint' /\ SendersNamed'
  BY <1>6, <1>7, <1>9 DEF IInv, EndpointsDisjoint, SendersNamed
<1>12. \A e \in Live : e # d => pcbs[e].task \in Task \ {k}
  BY <1>1, LivePcb DEF IInv, TasksFresh
<1>13. TakenInOrder'
  <2>1. Append(taken[k], n) \o q.queue = arrived[k]
    <3>1. taken[k] \o pcbs[d].queue = arrived[k] /\ taken[k] \in Seq(1..MaxInput)
      BY <1>1 DEF IInv, TakenInOrder, TypeOK
    <3>2. Append(taken[k], n) \o Tail(pcbs[d].queue) = taken[k] \o pcbs[d].queue
      BY <1>1, <3>1, PopMoves DEF n
    <3> QED BY <1>3, <3>1, <3>2
  <2>2. ASSUME NEW e \in Live
        PROVE  taken'[pcbs'[e].task] \o pcbs'[e].queue = arrived'[pcbs'[e].task]
    <3>1. CASE e = d
      BY <1>3, <1>5, <1>8, <2>1, <3>1
    <3>2. CASE e # d
      BY <1>1, <1>5, <1>8, <1>12, <2>2, <3>2 DEF IInv, TakenInOrder
    <3> QED BY <3>1, <3>2
  <2> QED BY <1>6, <2>2 DEF TakenInOrder
<1>14. TasksFresh'
  <2>1. \A j \in Task : j > opens => j # k
    BY <1>1 DEF IInv, TasksFresh, Task, TypeOK
  <2>2. \A j \in Task : j > opens' => arrived'[j] = <<>> /\ taken'[j] = <<>>
    BY <1>8, <2>1 DEF IInv, TasksFresh
  <2> QED BY <1>6, <1>7, <2>2 DEF IInv, TasksFresh
<1>15. SleepersHaveNothing'
  <2> SUFFICES ASSUME NEW u \in Thread, thr'[u].pc = "wait"
               PROVE  \E e \in Live' : /\ e = thr'[u].desc /\ pcbs'[e].task = thr'[u].task
                                       /\ pcbs'[e].queue # <<>> => notifying' = thr'[u].task
    BY DEF SleepersHaveNothing
  <2>1. PICK e \in Live : /\ e = thr[u].desc /\ pcbs[e].task = thr[u].task
                          /\ pcbs[e].queue # <<>> => notifying = thr[u].task
    BY <1>9 DEF IInv, SleepersHaveNothing
  <2>2. pcbs'[e].queue # <<>> => pcbs[e].queue # <<>>
    BY <1>1, <1>5
  <2> QED BY <1>6, <1>7, <1>9, <2>1, <2>2
<1> QED BY <1>10, <1>11, <1>13, <1>14, <1>15 DEF IInv

\* recvfrom goes to sleep on an empty queue.
LEMMA RecvfromSleeps ==
  ASSUME IInv, NEW t \in Thread, NEW d \in Live, d = thr[t].desc, pcbs[d].queue = <<>>,
         thr' = [thr EXCEPT ![t].pc = "wait", ![t].task = pcbs[d].task],
         UNCHANGED <<pcbs, taken, intr, notifying, opens, inputs, arrived>>
  PROVE  IInv'
<1> DEFINE th == [thr[t] EXCEPT !.pc = "wait", !.task = pcbs[d].task]
<1>1. TypeOK /\ pcbs[d].task \in Task /\ thr[t] \in ThreadState
  BY LivePcb DEF IInv, TypeOK
<1>2. th \in ThreadState /\ th.pc = "wait" /\ th.task = pcbs[d].task /\ th.desc = d
  BY <1>1 DEF ThreadState
<1>3. thr' = [thr EXCEPT ![t] = th]
  BY <1>1 DEF TypeOK
<1> HIDE DEF th
<1>4. thr'[t] = th /\ \A u \in Thread \ {t} : thr'[u] = thr[u]
  BY <1>1, <1>3 DEF TypeOK
<1>5. TypeOK' /\ Live' = Live
  BY <1>1, <1>2, <1>3 DEF TypeOK, Live
<1>6. SleepersHaveNothing'
  <2> SUFFICES ASSUME NEW u \in Thread, thr'[u].pc = "wait"
               PROVE  \E e \in Live' : /\ e = thr'[u].desc /\ pcbs'[e].task = thr'[u].task
                                       /\ pcbs'[e].queue # <<>> => notifying' = thr'[u].task
    BY DEF SleepersHaveNothing
  <2>1. CASE u = t
    BY <1>2, <1>4, <1>5, <2>1
  <2>2. CASE u # t
    BY <1>4, <1>5, <2>2 DEF IInv, SleepersHaveNothing
  <2> QED BY <2>1, <2>2
<1>7. SendersNamed'
  BY <1>2, <1>4 DEF IInv, SendersNamed
<1> QED BY <1>5, <1>6, <1>7, TableKept DEF IInv

\* The steps of a thread inside recvfrom or sendto.
LEMMA ThreadStepStep == ASSUME IInv, NEW t \in Thread, ThreadStep(t) PROVE IInv'
<1> DEFINE d == thr[t].desc
           k == thr[t].task
<1>1. TypeOK /\ thr \in [Thread -> ThreadState] /\ intr \subseteq Task
  BY DEF IInv, TypeOK
<1>2. ASSUME thr' = [thr EXCEPT ![t] = Idle]
      PROVE  /\ thr' \in [Thread -> ThreadState]
             /\ \A u \in Thread : thr'[u].pc \in {"wait", "out"} => thr'[u] = thr[u]
  BY <1>1, <1>2, IdleType
<1>3. CASE RecvfromStep(t)
  <2>1. UNCHANGED <<intr, notifying, opens, inputs, arrived>>
    BY <1>3 DEF RecvfromStep
  <2>2. CASE thr' = [thr EXCEPT ![t] = Idle] /\ UNCHANGED <<pcbs, taken>>
    BY <1>1, <1>2, <2>1, <2>2, ThreadOnly
  <2>3. CASE /\ d \in Live /\ pcbs[d].queue # <<>>
             /\ pcbs' = [pcbs EXCEPT ![d].queue = Tail(@)]
             /\ taken' = [taken EXCEPT ![pcbs[d].task] = Append(@, Head(pcbs[d].queue))]
             /\ thr' = [thr EXCEPT ![t] = Idle]
    BY <2>1, <2>3, RecvfromTakes
  <2>4. CASE /\ d \in Live /\ pcbs[d].queue = <<>>
             /\ thr' = [thr EXCEPT ![t].pc = "wait", ![t].task = pcbs[d].task]
             /\ UNCHANGED <<pcbs, taken>>
    BY <2>1, <2>4, RecvfromSleeps
  <2> QED BY <1>3, <2>2, <2>3, <2>4 DEF RecvfromStep
<1>4. CASE WaitReturns(t)
  <2> DEFINE th == [thr[t] EXCEPT !.pc = "lock", !.task = NoTask]
  <2>1. UNCHANGED <<pcbs, notifying, opens, inputs, arrived, taken>> /\ intr' \subseteq Task
    BY <1>1, <1>4 DEF WaitReturns
  <2>2. CASE thr' = [thr EXCEPT ![t] = Idle]
    BY <1>2, <2>1, <2>2, ThreadOnly
  <2>3. CASE thr' = [thr EXCEPT ![t].pc = "lock", ![t].task = NoTask]
    <3>1. th \in ThreadState /\ th.pc = "lock" /\ thr' = [thr EXCEPT ![t] = th]
      BY <1>1, <2>3 DEF ThreadState
    <3> HIDE DEF th
    <3>2. /\ thr' \in [Thread -> ThreadState]
          /\ \A u \in Thread : thr'[u].pc \in {"wait", "out"} => thr'[u] = thr[u]
      BY <1>1, <3>1
    <3> QED BY <2>1, <3>2, ThreadOnly
  <2> QED BY <1>4, <2>2, <2>3 DEF WaitReturns
<1>5. CASE SendtoOutput(t)
  BY <1>1, <1>2, <1>5, ThreadOnly DEF SendtoOutput
<1> QED BY <1>3, <1>4, <1>5 DEF ThreadStep

\* The invariant is inductive.
LEMMA StepIInv == IInv /\ [Next]_vars => IInv'
<1> SUFFICES ASSUME IInv, [Next]_vars PROVE IInv'
  OBVIOUS
<1>1. TypeOK
  BY DEF IInv
<1>2. ASSUME NEW t \in Thread, NEW d \in Desc, Recvfrom(t, d) PROVE IInv'
  <2> DEFINE th == [thr[t] EXCEPT !.pc = "lock", !.desc = d]
  <2>1. th \in ThreadState /\ th.pc = "lock" /\ thr' = [thr EXCEPT ![t] = th]
    BY <1>1, <1>2 DEF ThreadState, TypeOK, Recvfrom
  <2> HIDE DEF th
  <2>2. /\ thr' \in [Thread -> ThreadState]
        /\ \A u \in Thread : thr'[u].pc \in {"wait", "out"} => thr'[u] = thr[u]
    BY <1>1, <2>1 DEF TypeOK
  <2> QED BY <1>1, <1>2, <2>2, ThreadOnly DEF Recvfrom, TypeOK
<1>3. ASSUME NEW k \in Task, Interrupt(k) PROVE IInv'
  BY <1>1, <1>3, ThreadOnly DEF Interrupt, TypeOK
<1>4. CASE UNCHANGED vars
  BY <1>1, <1>4, ThreadOnly DEF vars, TypeOK
<1> QED BY <1>2, <1>3, <1>4, OpenStep, CloseStep, BindStep, SendtoStep, InputStep, InputNotifyStep,
           ThreadStepStep DEF Next

\* The invariant gives the properties; for ReplyComesBack, two sockets that the reply
\* matches would match each other.
LEMMA IInvImplies == IInv => EndpointsDisjoint /\ ReplyComesBack /\ SleepersHaveNothing /\ TakenInOrder
<1> SUFFICES ASSUME IInv, NEW t \in Thread, NEW d, d = thr[t].desc, thr[t].pc = "out", d \in Live,
                    pcbs[d].local = thr[t].local, NEW a \in Addr \ {ANY}, thr[t].local.addr \in {a, ANY}
             PROVE  Selects([addr |-> a, port |-> thr[t].local.port], d)
  BY DEF IInv, ReplyComesBack
<1> DEFINE key == [addr |-> a, port |-> thr[t].local.port]
<1>1. d \in Matches(key) /\ d \in Int
  BY UdpAssumption DEF Matches, SelectMatches, Live, Desc
<1>2. ASSUME NEW e \in Matches(key) PROVE e = d
  BY <1>2 DEF IInv, SendersNamed, EndpointsDisjoint, Matches, SelectMatches
<1> QED BY <1>1, <1>2 DEF Selects

\* Whatever the threads call, in whatever order, and whatever arrives: no datagram could be
\* for two sockets, replies come back to the socket they answer, nobody sleeps on a closed
\* socket or behind a datagram, and recvfrom hands out what arrived, in order and once.
THEOREM UdpInvariant ==
  Spec => [](EndpointsDisjoint /\ ReplyComesBack /\ SleepersHaveNothing /\ TakenInOrder)
BY InitIInv, StepIInv, IInvImplies, PTL DEF Spec

\* bind and the dynamic ports of sendto never give two sockets endpoints that one datagram
\* could be for.
COROLLARY EndpointsStayDisjoint == Spec => []EndpointsDisjoint
BY UdpInvariant, PTL

\* What sendto sends carries the endpoint of its socket: pcb_select finds that socket for
\* the reply.
COROLLARY RepliesComeBack == Spec => []ReplyComesBack
BY UdpInvariant, PTL

\* recvfrom hands out what input queued, in the order of its arrival, nothing twice.
COROLLARY DatagramsInOrder == Spec => []TakenInOrder
BY UdpInvariant, PTL

\* The sockets keep their type.
THEOREM UdpTypeCorrect == Spec => []TypeOK
<1>1. IInv => TypeOK
  BY DEF IInv
<1> QED BY <1>1, InitIInv, StepIInv, PTL DEF Spec
=============================================================================
