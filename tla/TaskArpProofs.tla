----------------------------- MODULE TaskArpProofs -----------------------------
(***************************************************************************)
(* Proofs about two small components, Task and Arp, whose names are        *)
(* disjoint.                                                               *)
(*                                                                         *)
(* Proofs about Task, for any finite set of threads.  The invariant is     *)
(* inductive once it also says that no thread holds a snapshot of the      *)
(* future and that wc counts the threads inside wait_after.                *)
(*                                                                         *)
(* Proofs about Arp, for every number of threads and hosts and every size  *)
(* of the cache.                                                           *)
(*                                                                         *)
(* FreshestAnswer is not inductive: the cache may hold several entries for *)
(* one address, and when the first of them goes the next one is handed     *)
(* out.  The invariant says why that one is not out of date: an entry      *)
(* whose address is no longer the last one heard comes after, and is older *)
(* than, an entry that holds the last one.  So it is never the first, and  *)
(* eviction and on_timer, which take the oldest, take it before the other. *)
(***************************************************************************)
EXTENDS Task, Arp, FiniteSetTheorems, TLAPS

\* Part I: Task.
SnapshotsPast == \A w \in Waiters : snapshot[w] <= generation

IInv == TaskTypeOK /\ WaiterCount /\ NoLostWakeup /\ SnapshotsPast

\* A set of waiters is finite and its cardinality is a natural number.
LEMMA InsideFinite == IsFiniteSet(Inside) /\ Cardinality(Inside) \in Nat
<1>1. IsFiniteSet(Inside)
  BY TaskAssumption, FS_Subset DEF Inside
<1> QED
  BY <1>1, FS_CardinalityType

\* The flag survives the thread that leaves wait_after unless it is the last one.
LEMMA LastConsumes == ASSUME NEW n \in Nat PROVE FlagAfter(n - 1) <=> n # 1
BY DEF FlagAfter

\* new_task() establishes the invariant.
LEMMA InitIInv == TaskInit => IInv
<1> SUFFICES ASSUME TaskInit PROVE IInv
  OBVIOUS
<1>1. Inside = {}
  BY DEF TaskInit, Inside
<1>2. WaiterCount
  BY <1>1, FS_EmptySet DEF TaskInit, WaiterCount
<1>3. TaskTypeOK
  <2>1. generation \in 0..MaxGeneration /\ snapshot \in [Waiters -> 0..MaxGeneration]
    BY TaskAssumption DEF TaskInit
  <2>2. interrupted \in BOOLEAN /\ wc \in Nat /\ pc \in [Waiters -> Pcs]
    BY DEF TaskInit, Pcs
  <2>3. result \in [Waiters -> {"None", "Notified", "Interrupted"}]
    BY DEF TaskInit
  <2> QED BY <2>1, <2>2, <2>3 DEF TaskTypeOK
<1> QED
  BY <1>2, <1>3 DEF TaskInit, IInv, NoLostWakeup, SnapshotsPast

\* Every step of every thread preserves it.
LEMMA StepIInv == IInv /\ [TaskNext]_taskVars => IInv'
<1> SUFFICES ASSUME IInv, [TaskNext]_taskVars PROVE IInv'
  OBVIOUS
<1> USE TaskAssumption DEF IInv, TaskTypeOK, Pcs
<1>0. IsFiniteSet(Inside) /\ Cardinality(Inside) \in Nat
  BY InsideFinite
<1>1. CASE Notify
  <2>1. Inside' = Inside
    BY <1>1 DEF Notify, NotifyAll, Inside
  <2>2. WaiterCount'
    BY <1>1, <2>1 DEF Notify, WaiterCount
  <2>3. TaskTypeOK'
    BY <1>1 DEF Notify, NotifyAll
  <2>4. NoLostWakeup' /\ SnapshotsPast'
    BY <1>1 DEF Notify, NotifyAll, NoLostWakeup, SnapshotsPast
  <2> QED BY <2>2, <2>3, <2>4
<1>2. CASE Interrupt
  <2>1. Inside' = Inside
    BY <1>2 DEF Interrupt, NotifyAll, Inside
  <2>2. WaiterCount'
    BY <1>2, <2>1 DEF Interrupt, WaiterCount
  <2>3. TaskTypeOK'
    BY <1>2 DEF Interrupt, NotifyAll
  <2>4. NoLostWakeup' /\ SnapshotsPast'
    BY <1>2 DEF Interrupt, NotifyAll, NoLostWakeup, SnapshotsPast
  <2> QED BY <2>2, <2>3, <2>4
<1>3. ASSUME NEW w \in Waiters, Snapshot(w) PROVE IInv'
  <2>1. Inside' = Inside
    BY <1>3 DEF Snapshot, Inside
  <2>2. WaiterCount'
    BY <1>3, <2>1 DEF Snapshot, WaiterCount
  <2>3. TaskTypeOK'
    BY <1>3 DEF Snapshot
  <2>4. NoLostWakeup' /\ SnapshotsPast'
    BY <1>3 DEF Snapshot, NoLostWakeup, SnapshotsPast, KeepWaiting
  <2> QED BY <2>2, <2>3, <2>4
<1>4. ASSUME NEW w \in Waiters, WaitInterrupted(w) \/ WaitNotified(w) PROVE IInv'
  <2>1. Inside' = Inside
    BY <1>4 DEF WaitInterrupted, WaitNotified, Inside
  <2>2. WaiterCount'
    BY <1>4, <2>1 DEF WaitInterrupted, WaitNotified, WaiterCount
  <2>3. TaskTypeOK'
    BY <1>4 DEF WaitInterrupted, WaitNotified, FlagAfter
  <2>4. NoLostWakeup' /\ SnapshotsPast'
    BY <1>4 DEF WaitInterrupted, WaitNotified, NoLostWakeup, SnapshotsPast, KeepWaiting
  <2> QED BY <2>2, <2>3, <2>4
<1>5. ASSUME NEW w \in Waiters, pc[w] = "armed", Block(w) PROVE IInv'
  <2>1. Inside' = Inside \cup {w} /\ w \notin Inside
    BY <1>5 DEF Block, Inside
  <2>2. WaiterCount'
    BY <1>0, <1>5, <2>1, FS_AddElement DEF Block, WaiterCount
  <2>3. TaskTypeOK'
    BY <1>5 DEF Block
  <2>4. NoLostWakeup' /\ SnapshotsPast'
    BY <1>5 DEF Block, NoLostWakeup, SnapshotsPast, KeepWaiting
  <2> QED BY <2>2, <2>3, <2>4
<1>6. ASSUME NEW w \in Waiters, SpuriousWakeup(w) PROVE IInv'
  <2>1. Inside' = Inside
    BY <1>6 DEF SpuriousWakeup, Inside
  <2>2. WaiterCount'
    BY <1>6, <2>1 DEF SpuriousWakeup, WaiterCount
  <2>3. TaskTypeOK'
    BY <1>6 DEF SpuriousWakeup
  <2>4. NoLostWakeup' /\ SnapshotsPast'
    BY <1>6 DEF SpuriousWakeup, NoLostWakeup, SnapshotsPast, KeepWaiting
  <2> QED BY <2>2, <2>3, <2>4
<1>7. ASSUME NEW w \in Waiters, Recheck(w) PROVE IInv'
  <2>1. CASE KeepWaiting(w)
    <3>1. pc' = [pc EXCEPT ![w] = "asleep"] /\ UNCHANGED <<generation, interrupted, wc, snapshot, result>>
      BY <1>7, <2>1 DEF Recheck
    <3>2. Inside' = Inside
      BY <1>7, <3>1 DEF Recheck, Inside
    <3>3. WaiterCount'
      BY <3>1, <3>2 DEF WaiterCount
    <3>4. TaskTypeOK' /\ NoLostWakeup' /\ SnapshotsPast'
      BY <2>1, <3>1 DEF NoLostWakeup, SnapshotsPast, KeepWaiting
    <3> QED BY <3>3, <3>4
  <2>2. CASE ~KeepWaiting(w)
    <3>1. /\ pc[w] = "awake" /\ pc' = [pc EXCEPT ![w] = "out"]
          /\ wc' = wc - 1
          /\ interrupted' = (interrupted /\ FlagAfter(wc - 1))
          /\ result' = [result EXCEPT ![w] = IF interrupted THEN "Interrupted" ELSE "Notified"]
          /\ UNCHANGED <<generation, snapshot>>
      BY <1>7, <2>2 DEF Recheck
    <3>2. Inside' = Inside \ {w} /\ w \in Inside
      BY <3>1 DEF Inside
    <3>3. Cardinality(Inside') = Cardinality(Inside) - 1 /\ Cardinality(Inside') \in Nat
      BY <1>0, <3>2, FS_RemoveElement, FS_CardinalityType
    <3>4. WaiterCount' /\ wc' \in Nat
      BY <3>1, <3>3 DEF WaiterCount
    <3>5. TaskTypeOK'
      BY <3>1, <3>4 DEF FlagAfter
    <3>6. NoLostWakeup' /\ SnapshotsPast'
      BY <3>1 DEF NoLostWakeup, SnapshotsPast, KeepWaiting
    <3> QED BY <3>4, <3>5, <3>6
  <2> QED BY <2>1, <2>2
<1>8. CASE UNCHANGED taskVars
  BY <1>8 DEF taskVars, WaiterCount, NoLostWakeup, SnapshotsPast, KeepWaiting, Inside
<1> QED
  BY <1>1, <1>2, <1>3, <1>4, <1>5, <1>6, <1>7, <1>8 DEF TaskNext, Wait

\* The type invariant, the lost-wakeup guard of wait_after and the meaning of wc, for any
\* number of threads and notifications.
THEOREM TaskInvariant == TaskSpec => [](TaskTypeOK /\ WaiterCount /\ NoLostWakeup)
<1>1. IInv => TaskTypeOK /\ WaiterCount /\ NoLostWakeup
  BY DEF IInv
<1> QED
  BY <1>1, InitIInv, StepIInv, PTL DEF TaskSpec

\* The fields of TaskState and the threads' copies of them keep their types.
COROLLARY TaskTypes == TaskSpec => []TaskTypeOK
BY TaskInvariant, PTL

\* wc, by which the last thread to leave wait_after recognises itself, is the number of
\* threads inside, however many there are.
COROLLARY WaitersCounted == TaskSpec => []WaiterCount
BY TaskInvariant, PTL
-----------------------------------------------------------------------------
ReachesAllStep ==
  \A w \in Inside :
    interrupted => \/ w \in Inside' /\ interrupted'
                   \/ pc'[w] = "out" /\ result'[w] = "Interrupted"

\* An interrupt() reaches every thread that is inside wait_after: while anyone is left wc
\* is not zero, so the flag is not consumed before its time.
THEOREM InterruptReachesAllHolds == TaskSpec => InterruptReachesAll
<1>1. ASSUME IInv, [TaskNext]_taskVars PROVE [ReachesAllStep]_taskVars
  <2> SUFFICES ASSUME TaskNext, NEW w \in Inside, interrupted
               PROVE \/ w \in Inside' /\ interrupted'
                     \/ pc'[w] = "out" /\ result'[w] = "Interrupted"
    BY <1>1 DEF ReachesAllStep
  <2> USE TaskAssumption, <1>1 DEF IInv, TaskTypeOK, Pcs, Inside
  <2>1. CASE Notify \/ Interrupt
    BY <2>1 DEF Notify, Interrupt, NotifyAll
  <2>2. ASSUME NEW u \in Waiters, Snapshot(u) \/ SpuriousWakeup(u) PROVE w \in Inside' /\ interrupted'
    BY <2>2 DEF Snapshot, SpuriousWakeup
  <2>3. wc # 0
    <3>1. IsFiniteSet(Inside) /\ Inside # {}
      BY InsideFinite
    <3> QED
      BY <3>1, FS_EmptySet DEF WaiterCount
  <2>4. ASSUME NEW u \in Waiters, Wait(u) PROVE w \in Inside' /\ interrupted'
    <3>1. WaitInterrupted(u)
      BY <2>4 DEF Wait, WaitNotified, Block, KeepWaiting
    <3> QED BY <2>3, <3>1 DEF WaitInterrupted, FlagAfter
  <2>5. ASSUME NEW u \in Waiters, Recheck(u)
        PROVE \/ w \in Inside' /\ interrupted'
              \/ pc'[w] = "out" /\ result'[w] = "Interrupted"
    <3>1. /\ pc[u] = "awake" /\ pc' = [pc EXCEPT ![u] = "out"]
          /\ interrupted' = (interrupted /\ FlagAfter(wc - 1))
          /\ result' = [result EXCEPT ![u] = "Interrupted"]
      BY <2>5 DEF Recheck, KeepWaiting
    <3>2. CASE u = w
      BY <3>1, <3>2
    <3>3. CASE u # w
      <4>1. wc # 1
        <5>1. IsFiniteSet(Inside) /\ u \in Inside
          BY <3>1, InsideFinite
        <5>2. Cardinality(Inside) = 1 => \E x : Inside = {x}
          BY <5>1, FS_Singleton
        <5> QED
          BY <3>3, <5>1, <5>2 DEF WaiterCount
      <4>2. interrupted'
        <5>1. wc \in Nat
          OBVIOUS
        <5> QED BY ONLY <3>1, <4>1, <5>1, interrupted, LastConsumes
      <4> QED BY <3>1, <3>3, <4>2
    <3> QED BY <3>2, <3>3
  <2> QED
    BY <2>1, <2>2, <2>4, <2>5 DEF TaskNext
<1> QED
  BY <1>1, InitIInv, StepIInv, PTL DEF TaskSpec, InterruptReachesAll, ReachesAllStep

NotDroppedStep ==
  interrupted /\ ~interrupted' =>
    /\ Inside' = {}
    /\ \E w \in Waiters : pc[w] # "out" /\ pc'[w] = "out" /\ result'[w] = "Interrupted"

\* The flag is consumed by a thread that returns Interrupted, and only when it is the last
\* one inside wait_after.
THEOREM InterruptNotDroppedHolds == TaskSpec => InterruptNotDropped
<1>1. ASSUME IInv, [TaskNext]_taskVars PROVE [NotDroppedStep]_taskVars
  <2> SUFFICES ASSUME TaskNext, interrupted, ~interrupted'
               PROVE /\ Inside' = {}
                     /\ \E w \in Waiters : pc[w] # "out" /\ pc'[w] = "out" /\ result'[w] = "Interrupted"
    BY <1>1 DEF NotDroppedStep
  <2> USE TaskAssumption, <1>1 DEF IInv, TaskTypeOK, Pcs
  <2>1. PICK w \in Waiters : WaitInterrupted(w) \/ Recheck(w)
    BY DEF TaskNext, Notify, Interrupt, Snapshot, SpuriousWakeup, Wait, WaitNotified, Block
  <2>2. CASE WaitInterrupted(w)
    <3>1. Inside = {}
      BY <2>2, InsideFinite, FS_EmptySet DEF WaitInterrupted, FlagAfter, WaiterCount
    <3>2. Inside' = {}
      BY <2>2, <3>1 DEF WaitInterrupted, Inside
    <3> QED BY <2>2, <3>2 DEF WaitInterrupted
  <2>3. CASE Recheck(w)
    <3>1. pc[w] = "awake" /\ pc' = [pc EXCEPT ![w] = "out"] /\ result'[w] = "Interrupted"
      BY <2>3 DEF Recheck
    <3>2. wc = 1
      <4>1. wc \in Nat /\ ~FlagAfter(wc - 1)
        BY <2>3 DEF Recheck
      <4> QED BY ONLY <4>1, LastConsumes
    <3>3. \E x : Inside = {x}
      BY <3>2, InsideFinite, FS_Singleton DEF WaiterCount
    <3>4. Inside' = {}
      BY <3>1, <3>3 DEF Inside
    <3> QED BY <3>1, <3>4
  <2> QED BY <2>1, <2>2, <2>3
<1> QED
  BY <1>1, InitIInv, StepIInv, PTL DEF TaskSpec, InterruptNotDropped, NotDroppedStep
-----------------------------------------------------------------------------
\* The counter, the flag and the condition variable of task.rs implement the promise that
\* tcp.rs and udp.rs rely on.
THEOREM TaskImplementsWaitSpec == TaskSpec => ImplementsWaitSpec
<1>1. TaskInit => Abstract!Init
  BY DEF TaskInit, Abstract!Init
<1>2. ASSUME IInv, [TaskNext]_taskVars PROVE [Abstract!Next]_Abstract!vars
  <2> USE TaskAssumption, <1>2 DEF IInv, TaskTypeOK, Pcs
  <2>1. CASE Notify
    <3>1. Abstract!Notify
      BY <2>1 DEF Notify, NotifyAll, Abstract!Notify, SnapshotsPast
    <3> QED BY <3>1 DEF Abstract!Next
  <2>2. CASE Interrupt
    <3>1. Abstract!Interrupt
      BY <2>2 DEF Interrupt, NotifyAll, Abstract!Interrupt
    <3> QED BY <3>1 DEF Abstract!Next
  <2>3. ASSUME NEW w \in Waiters, Snapshot(w) PROVE Abstract!Next
    <3>1. Abstract!Arm(w)
      BY <2>3 DEF Snapshot, Abstract!Arm
    <3> QED BY <3>1 DEF Abstract!Next
  <2>4. ASSUME NEW w \in Waiters, pc[w] = "armed", Block(w) PROVE UNCHANGED Abstract!vars
    BY <2>4 DEF Block, Abstract!vars
  <2>5. ASSUME NEW w \in Waiters, WaitNotified(w) PROVE Abstract!Next
    <3>1. Abstract!ReturnNotified(w)
      BY <2>5 DEF WaitNotified, KeepWaiting, Abstract!ReturnNotified, Abstract!Leave
    <3> QED BY <3>1 DEF Abstract!Next
  <2>6. ASSUME NEW w \in Waiters, WaitInterrupted(w) PROVE Abstract!Next
    <3>1. Abstract!Leave(w, "Interrupted")
      BY <2>6 DEF WaitInterrupted, Abstract!Leave
    <3>2. ASSUME {u \in Waiters : pc[u] # "out"} = {w} PROVE interrupted' = FALSE
      <4>1. Inside = {}
        BY <2>6, <3>2 DEF WaitInterrupted, Inside
      <4> QED BY <2>6, <4>1, FS_EmptySet DEF WaitInterrupted, FlagAfter, WaiterCount
    <3>3. interrupted' \in BOOLEAN
      BY <2>6 DEF WaitInterrupted, FlagAfter
    <3>4. Abstract!ReturnInterrupted(w)
      BY <2>6, <3>1, <3>2, <3>3 DEF WaitInterrupted, Abstract!ReturnInterrupted
    <3> QED BY <3>4 DEF Abstract!Next
  <2>7. ASSUME NEW w \in Waiters, SpuriousWakeup(w) PROVE UNCHANGED Abstract!vars
    BY <2>7 DEF SpuriousWakeup, Abstract!vars
  <2>8. ASSUME NEW w \in Waiters, Recheck(w) PROVE Abstract!Next \/ UNCHANGED Abstract!vars
    <3>1. CASE KeepWaiting(w)
      BY <2>8, <3>1 DEF Recheck, Abstract!vars
    <3>2. CASE ~KeepWaiting(w) /\ ~interrupted
      <4>1. Abstract!ReturnNotified(w)
        BY <2>8, <3>2 DEF Recheck, KeepWaiting, Abstract!ReturnNotified, Abstract!Leave
      <4> QED BY <4>1 DEF Abstract!Next
    <3>3. CASE interrupted
      <4>1. /\ pc[w] = "awake" /\ pc' = [pc EXCEPT ![w] = "out"]
            /\ interrupted' = (interrupted /\ FlagAfter(wc - 1))
            /\ result' = [result EXCEPT ![w] = "Interrupted"]
            /\ UNCHANGED <<generation, snapshot>>
        BY <2>8, <3>3 DEF Recheck, KeepWaiting
      <4>2. Abstract!Leave(w, "Interrupted")
        BY <4>1 DEF Abstract!Leave
      <4>3. ASSUME {u \in Waiters : pc[u] # "out"} = {w} PROVE interrupted' = FALSE
        <5>1. Inside = {w}
          BY <4>1, <4>3 DEF Inside
        <5>2. wc = 1
          BY <5>1, FS_Singleton DEF WaiterCount
        <5> QED BY ONLY <4>1, <5>2, LastConsumes, 1 \in Nat
      <4>4. interrupted' \in BOOLEAN
        BY <4>1 DEF FlagAfter
      <4>5. Abstract!ReturnInterrupted(w)
        BY <3>3, <4>2, <4>3, <4>4 DEF Abstract!ReturnInterrupted
      <4> QED BY <4>5 DEF Abstract!Next
    <3> QED BY <3>1, <3>2, <3>3
  <2>9. CASE UNCHANGED taskVars
    BY <2>9 DEF taskVars, Abstract!vars
  <2> QED
    BY <2>1, <2>2, <2>3, <2>4, <2>5, <2>6, <2>7, <2>8, <2>9 DEF TaskNext, Wait
<1> QED
  BY <1>1, <1>2, InitIInv, StepIInv, PTL DEF TaskSpec, ImplementsWaitSpec, Abstract!Spec
-----------------------------------------------------------------------------
\* Part II: Arp.
\* Places and stamps are distinct, and what was stamped earlier is at least as old.
Ordered(c) ==
  \A e, f \in c : /\ e.pos = f.pos => e = f
                  /\ e.stamp = f.stamp => e = f
                  /\ e.stamp < f.stamp => f.age <= e.age

\* e holds the last address heard, and comes before f in the vector and after it in time.
Hides(e, f, h) ==
  /\ e.pa = f.pa /\ e.state = "Resolved" /\ e.ha = h[e.pa]
  /\ e.pos < f.pos /\ f.stamp < e.stamp

StaleHidden(c, h) ==
  \A f \in c : f.state = "Resolved" /\ f.ha # h[f.pa] => \E e \in c : Hides(e, f, h)

\* What the lemmas on the cache need to know of it.
Cached(c) == c \subseteq Entry /\ IsFiniteSet(c) /\ Cardinality(c) <= CACHE_SIZE

CacheInv(c, h) ==
  /\ Cached(c) /\ Ordered(c) /\ StaleHidden(c, h)
  /\ \A e \in c : e.pos < CACHE_SIZE /\ e.stamp < CACHE_SIZE

\* The inductive invariant.  What input is about to insert is still the last it heard.
Inv ==
  /\ TypeOK
  /\ CacheInv(cache, heard)
  /\ \A t \in Thread : thr[t].pc = "merge" =>
       t = Stack /\ heard[thr[t].msg.spa] = thr[t].msg.sha

\* The place of x when the members of c are put in the order of their numbers k.
Rank(c, k, x) == Cardinality({g \in c : k[g] < k[x]})

\* Counting the members of a finite set of numbered things below a number keeps the order.
LEMMA RankOrder ==
  ASSUME NEW c, IsFiniteSet(c), NEW k \in [c -> Nat], NEW e \in c, NEW f \in c
  PROVE  /\ Rank(c, k, e) \in Nat /\ Rank(c, k, e) < Cardinality(c)
         /\ k[e] < k[f] => Rank(c, k, e) < Rank(c, k, f)
         /\ k[e] = k[f] => Rank(c, k, e) = Rank(c, k, f)
<1> DEFINE B(x) == {g \in c : k[g] < k[x]}
<1>1. \A x \in c : IsFiniteSet(B(x)) /\ Cardinality(B(x)) \in Nat /\ Cardinality(B(x)) < Cardinality(c)
  <2> SUFFICES ASSUME NEW x \in c
               PROVE  IsFiniteSet(B(x)) /\ Cardinality(B(x)) \in Nat /\ Cardinality(B(x)) < Cardinality(c)
    OBVIOUS
  <2>1. B(x) \in SUBSET c /\ x \notin B(x)
    OBVIOUS
  <2>2. IsFiniteSet(B(x)) /\ Cardinality(B(x)) <= Cardinality(c) /\ (Cardinality(c) = Cardinality(B(x)) => c = B(x))
    BY <2>1, FS_Subset
  <2>3. Cardinality(c) \in Nat /\ Cardinality(B(x)) \in Nat
    BY <2>2, FS_CardinalityType
  <2> QED
    BY <2>1, <2>2, <2>3
<1>2. ASSUME k[e] < k[f] PROVE Cardinality(B(e)) < Cardinality(B(f))
  <2>1. B(e) \in SUBSET B(f) /\ e \in B(f) /\ e \notin B(e)
    BY <1>2
  <2>2. Cardinality(B(e)) <= Cardinality(B(f)) /\ (Cardinality(B(f)) = Cardinality(B(e)) => B(f) = B(e))
    BY <2>1, <1>1, FS_Subset
  <2>3. Cardinality(B(e)) # Cardinality(B(f))
    BY <2>1, <2>2, Zenon
  <2>4. Cardinality(B(e)) \in Nat /\ Cardinality(B(f)) \in Nat
    BY <1>1
  <2> HIDE DEF B
  <2> QED
    BY <2>2, <2>3, <2>4
<1>3. k[e] = k[f] => B(e) = B(f)
  OBVIOUS
<1> QED
  BY <1>1, <1>2, <1>3 DEF Rank

\* Compacted keeps the entries, their order in both ways and the rest of what they hold.
LEMMA CompactedKeeps ==
  ASSUME NEW c, Cached(c), Ordered(c)
  PROVE  /\ Cached(Compacted(c)) /\ Ordered(Compacted(c))
         /\ \A e \in Compacted(c) : e.pos < CACHE_SIZE /\ e.stamp < CACHE_SIZE
         /\ \A h : StaleHidden(c, h) => StaleHidden(Compacted(c), h)
<1> DEFINE P(x) == Cardinality({g \in c : g.pos < x.pos})
           S(x) == Cardinality({g \in c : g.stamp < x.stamp})
           M(x) == [x EXCEPT !.pos = P(x), !.stamp = S(x)]
<1>1. \A e, f \in c : /\ P(e) \in Nat /\ P(e) < Cardinality(c)
                      /\ e.pos < f.pos => P(e) < P(f)
                      /\ e.pos = f.pos => P(e) = P(f)
  <2> SUFFICES ASSUME NEW e \in c, NEW f \in c
               PROVE  /\ P(e) \in Nat /\ P(e) < Cardinality(c)
                      /\ e.pos < f.pos => P(e) < P(f)
                      /\ e.pos = f.pos => P(e) = P(f)
    OBVIOUS
  <2> DEFINE k == [g \in c |-> g.pos]
  <2>1. k \in [c -> Nat]
    BY DEF Cached, Entry
  <2>2. \A x \in c : {g \in c : k[g] < k[x]} = {g \in c : g.pos < x.pos}
    OBVIOUS
  <2>3. k[e] = e.pos /\ k[f] = f.pos
    OBVIOUS
  <2> HIDE DEF k
  <2>4. /\ Rank(c, k, e) \in Nat /\ Rank(c, k, e) < Cardinality(c)
        /\ k[e] < k[f] => Rank(c, k, e) < Rank(c, k, f)
        /\ k[e] = k[f] => Rank(c, k, e) = Rank(c, k, f)
    BY <2>1, RankOrder, Zenon DEF Cached
  <2> QED
    BY <2>2, <2>3, <2>4 DEF Rank
<1>2. \A e, f \in c : /\ S(e) \in Nat /\ S(e) < Cardinality(c)
                      /\ e.stamp < f.stamp => S(e) < S(f)
                      /\ e.stamp = f.stamp => S(e) = S(f)
  <2> SUFFICES ASSUME NEW e \in c, NEW f \in c
               PROVE  /\ S(e) \in Nat /\ S(e) < Cardinality(c)
                      /\ e.stamp < f.stamp => S(e) < S(f)
                      /\ e.stamp = f.stamp => S(e) = S(f)
    OBVIOUS
  <2> DEFINE k == [g \in c |-> g.stamp]
  <2>1. k \in [c -> Nat]
    BY DEF Cached, Entry
  <2>2. \A x \in c : {g \in c : k[g] < k[x]} = {g \in c : g.stamp < x.stamp}
    OBVIOUS
  <2>3. k[e] = e.stamp /\ k[f] = f.stamp
    OBVIOUS
  <2> HIDE DEF k
  <2>4. /\ Rank(c, k, e) \in Nat /\ Rank(c, k, e) < Cardinality(c)
        /\ k[e] < k[f] => Rank(c, k, e) < Rank(c, k, f)
        /\ k[e] = k[f] => Rank(c, k, e) = Rank(c, k, f)
    BY <2>1, RankOrder, Zenon DEF Cached
  <2> QED
    BY <2>2, <2>3, <2>4 DEF Rank
<1>3. Compacted(c) = {M(x) : x \in c}
  BY DEF Compacted
<1>4. \A x \in c : /\ M(x) \in Entry
                   /\ M(x).pos = P(x) /\ M(x).stamp = S(x) /\ M(x).age = x.age
                   /\ M(x).pa = x.pa /\ M(x).ha = x.ha /\ M(x).state = x.state
  BY <1>1, <1>2 DEF Cached, Entry
<1>5. \A x \in c : x.pos \in Nat /\ x.stamp \in Nat /\ x.age \in Nat
  BY DEF Cached, Entry
<1>6. Cardinality(c) \in Nat
  BY FS_CardinalityType DEF Cached
<1>7. Cached({M(x) : x \in c})
  <2> DEFINE T == {M(x) : x \in c}
             F == [x \in c |-> M(x)]
  <2>1. F \in Surjection(c, T)
    BY DEF Surjection
  <2>2. IsFiniteSet(T) /\ Cardinality(T) <= Cardinality(c)
    BY <2>1, FS_Surjection DEF Cached
  <2>3. Cardinality(T) \in Nat
    BY <2>2, FS_CardinalityType
  <2>4. T \subseteq Entry
    BY <1>4
  <2>5. Cardinality(c) <= CACHE_SIZE
    BY DEF Cached
  <2> HIDE DEF T
  <2>6. Cardinality(T) <= CACHE_SIZE
    BY <2>2, <2>3, <2>5, <1>6, ArpAssumption
  <2> QED
    BY <2>2, <2>4, <2>6 DEF Cached, T
<1> HIDE DEF P, S, M
<1>8. Ordered({M(x) : x \in c})
  <2> SUFFICES ASSUME NEW x \in c, NEW y \in c
               PROVE  /\ M(x).pos = M(y).pos => M(x) = M(y)
                      /\ M(x).stamp = M(y).stamp => M(x) = M(y)
                      /\ M(x).stamp < M(y).stamp => M(y).age <= M(x).age
    BY DEF Ordered
  <2>1. P(x) = P(y) => x.pos = y.pos
    BY <1>1, <1>5
  <2>2. S(x) = S(y) => x.stamp = y.stamp
    BY <1>2, <1>5
  <2>3. S(x) < S(y) => x.stamp < y.stamp
    BY <1>2, <1>5
  <2> QED
    BY <2>1, <2>2, <2>3, <1>4 DEF Ordered
<1>9. \A x \in c : M(x).pos < CACHE_SIZE /\ M(x).stamp < CACHE_SIZE
  BY <1>1, <1>2, <1>4, <1>6, ArpAssumption DEF Cached
<1>10. ASSUME NEW h, StaleHidden(c, h) PROVE StaleHidden({M(x) : x \in c}, h)
  <2> SUFFICES ASSUME NEW x \in c, M(x).state = "Resolved", M(x).ha # h[M(x).pa]
               PROVE  \E y \in c : Hides(M(y), M(x), h)
    BY DEF StaleHidden
  <2>1. PICK y \in c : Hides(y, x, h)
    BY <1>4, <1>10 DEF StaleHidden
  <2>2. P(y) < P(x) /\ S(x) < S(y)
    BY <2>1, <1>1, <1>2 DEF Hides
  <2> QED
    BY <2>1, <2>2, <1>4 DEF Hides
<1> QED
  BY <1>3, <1>7, <1>8, <1>9, <1>10

\* A change of the cache that keeps the invariant up to Compacted keeps it.
LEMMA CompactedInv ==
  ASSUME NEW c, NEW h, Cached(c), Ordered(c), StaleHidden(c, h)
  PROVE  /\ Cached(Compacted(c)) /\ Ordered(Compacted(c)) /\ StaleHidden(Compacted(c), h)
         /\ \A e \in Compacted(c) : e.pos < CACHE_SIZE /\ e.stamp < CACHE_SIZE
BY CompactedKeeps

\* An entry more, or one in the place of another, is within the limit.
LEMMA CachedSizes ==
  ASSUME NEW c, Cached(c), NEW x \in Entry
  PROVE  /\ Cardinality(c) < CACHE_SIZE => Cached(c \cup {x})
         /\ \A e \in c : Cached((c \ {e}) \cup {x})
         /\ \A d \in SUBSET c : Cached(d)
<1>1. Cardinality(c) \in Nat
  BY FS_CardinalityType DEF Cached
<1>2. Cardinality(c) < CACHE_SIZE => Cached(c \cup {x})
  <2>1. IsFiniteSet(c \cup {x}) /\ Cardinality(c \cup {x}) \in {Cardinality(c), Cardinality(c) + 1}
    BY FS_AddElement, <1>1 DEF Cached
  <2> QED
    BY <2>1, <1>1, ArpAssumption DEF Cached
<1>3. ASSUME NEW e \in c PROVE Cached((c \ {e}) \cup {x})
  <2>1. IsFiniteSet(c \ {e}) /\ Cardinality(c \ {e}) = Cardinality(c) - 1
    BY FS_RemoveElement DEF Cached
  <2> DEFINE d == c \ {e}
  <2>2. IsFiniteSet(d \cup {x}) /\ Cardinality(d \cup {x}) \in {Cardinality(d), Cardinality(d) + 1}
    BY FS_AddElement, <2>1, <1>1
  <2> QED
    BY <2>1, <2>2, <1>1, ArpAssumption DEF Cached
<1>4. ASSUME NEW d \in SUBSET c PROVE Cached(d)
  <2>1. IsFiniteSet(d) /\ Cardinality(d) <= Cardinality(c)
    BY FS_Subset DEF Cached
  <2>2. Cardinality(d) \in Nat
    BY <2>1, FS_CardinalityType
  <2> QED
    BY <2>1, <2>2, <1>1, ArpAssumption DEF Cached
<1> QED
  BY <1>2, <1>3, <1>4

\* cache_update leaves the entry it changed before, and newer than, the others it had.
LEMMA UpdatedInv ==
  ASSUME CacheInv(cache, heard), heard \in [IpAddr -> EtherAddr \cup {NoAddr}],
         NEW pa \in IpAddr, NEW ha \in EtherAddr, NEW e \in First(pa)
  PROVE  CacheInv(Updated(e, ha), [heard EXCEPT ![pa] = ha])
<1> DEFINE x == [e EXCEPT !.ha = ha, !.state = "Resolved", !.stamp = Last, !.age = 0]
           c == (cache \ {e}) \cup {x}
           h == [heard EXCEPT ![pa] = ha]
<1>1. /\ e \in cache /\ e \in Entry /\ e.pa = pa
      /\ \A f \in cache : f.pa = pa => e.pos <= f.pos
  BY DEF First, CacheInv, Cached
<1>2. /\ x \in Entry /\ x.pa = pa /\ x.ha = ha /\ x.state = "Resolved"
      /\ x.pos = e.pos /\ x.stamp = CACHE_SIZE /\ x.age = 0
  BY <1>1, ArpAssumption DEF Entry, Last
<1>3. Cached(c)
  BY <1>1, <1>2, CachedSizes DEF CacheInv
<1>4. \A f \in cache : f.pos \in Nat /\ f.stamp \in Nat /\ f.age \in Nat /\ f.pa \in IpAddr /\ f.stamp < CACHE_SIZE
  BY DEF CacheInv, Cached, Entry
<1>5. \A p \in IpAddr : h[p] = IF p = pa THEN ha ELSE heard[p]
  OBVIOUS
<1> HIDE DEF x, h
<1>6. Ordered(c)
  BY <1>1, <1>2, <1>4, ArpAssumption DEF Ordered, CacheInv
<1>7. StaleHidden(c, h)
  <2> SUFFICES ASSUME NEW f \in c, f.state = "Resolved", f.ha # h[f.pa]
               PROVE  \E g \in c : Hides(g, f, h)
    BY DEF StaleHidden
  <2>1. f \in cache /\ f # e
    BY <1>2, <1>5
  <2>2. CASE f.pa = pa
    <3>1. e.pos < f.pos
      BY <2>1, <2>2, <1>1, <1>4 DEF CacheInv, Ordered
    <3>2. Hides(x, f, h)
      BY <3>1, <2>1, <2>2, <1>2, <1>4, <1>5 DEF Hides
    <3> QED
      BY <3>2
  <2>3. CASE f.pa # pa
    <3>1. PICK g \in cache : Hides(g, f, heard)
      BY <2>1, <2>3, <1>4, <1>5 DEF CacheInv, StaleHidden
    <3>2. g # e /\ Hides(g, f, h)
      BY <3>1, <2>3, <1>1, <1>4, <1>5 DEF Hides
    <3> QED
      BY <3>2
  <2> QED
    BY <2>2, <2>3
<1>8. Updated(e, ha) = Compacted(c)
  BY DEF Updated, x
<1> QED
  BY <1>3, <1>6, <1>7, <1>8, CompactedInv DEF CacheInv, h

\* cache_insert evicts the oldest entry, which no other one is hidden by.
LEMMA InsertedInv ==
  ASSUME CacheInv(cache, heard), NEW pa \in IpAddr, NEW ha \in EtherAddr \cup {NoAddr},
         NEW state \in {"Incomplete", "Resolved"}, state = "Resolved" => ha = heard[pa],
         NEW d \in Inserted(pa, ha, state)
  PROVE  CacheInv(d, heard)
<1> DEFINE new(pos) == [state |-> state, pa |-> pa, ha |-> ha, pos |-> pos, stamp |-> Last, age |-> 0]
<1>1. \A f \in cache : f.pos \in Nat /\ f.stamp \in Nat /\ f.age \in Nat /\ f.stamp < CACHE_SIZE /\ f.pos < CACHE_SIZE
  BY DEF CacheInv, Cached, Entry
<1>2. \A p \in Nat : /\ new(p) \in Entry /\ new(p).pos = p /\ new(p).stamp = CACHE_SIZE /\ new(p).age = 0
                     /\ new(p).state = state /\ new(p).pa = pa /\ new(p).ha = ha
  BY ArpAssumption DEF Entry, Last
<1>3. \/ Cardinality(cache) < CACHE_SIZE /\ d = Compacted(cache \cup {new(CACHE_SIZE)})
      \/ \E e \in cache : Oldest(e) /\ d = Compacted((cache \ {e}) \cup {new(e.pos)})
  BY DEF Inserted, Last
<1> HIDE DEF new
<1>4. CASE Cardinality(cache) < CACHE_SIZE /\ d = Compacted(cache \cup {new(CACHE_SIZE)})
  <2> DEFINE x == new(CACHE_SIZE)
             c == cache \cup {x}
  <2>1. /\ x \in Entry /\ x.pos = CACHE_SIZE /\ x.stamp = CACHE_SIZE /\ x.age = 0
        /\ x.state = state /\ x.pa = pa /\ x.ha = ha
    BY <1>2, ArpAssumption
  <2> HIDE DEF x
  <2>2. Cached(c)
    BY <2>1, <1>4, CachedSizes DEF CacheInv
  <2>3. Ordered(c)
    BY <2>1, <1>1, ArpAssumption DEF Ordered, CacheInv
  <2>4. StaleHidden(c, heard)
    <3> SUFFICES ASSUME NEW f \in c, f.state = "Resolved", f.ha # heard[f.pa]
                 PROVE  \E g \in c : Hides(g, f, heard)
      BY DEF StaleHidden
    <3>1. f \in cache
      BY <2>1
    <3> QED
      BY <3>1 DEF CacheInv, StaleHidden
  <2> QED
    BY <2>2, <2>3, <2>4, <1>4, CompactedInv DEF CacheInv, x
<1>5. CASE \E e \in cache : Oldest(e) /\ d = Compacted((cache \ {e}) \cup {new(e.pos)})
  <2> PICK e \in cache : Oldest(e) /\ d = Compacted((cache \ {e}) \cup {new(e.pos)})
    BY <1>5
  <2> DEFINE x == new(e.pos)
             c == (cache \ {e}) \cup {x}
  <2>1. /\ x \in Entry /\ x.pos = e.pos /\ x.stamp = CACHE_SIZE /\ x.age = 0
        /\ x.state = state /\ x.pa = pa /\ x.ha = ha
    BY <1>1, <1>2
  <2>5. d = Compacted(c)
    OBVIOUS
  <2> HIDE DEF x
  <2>2. Cached(c)
    BY <2>1, CachedSizes DEF CacheInv
  <2>3. Ordered(c)
    BY <2>1, <1>1, ArpAssumption DEF Ordered, CacheInv
  <2>4. StaleHidden(c, heard)
    <3> SUFFICES ASSUME NEW f \in c, f.state = "Resolved", f.ha # heard[f.pa]
                 PROVE  \E g \in c : Hides(g, f, heard)
      BY DEF StaleHidden
    <3>1. f \in cache
      BY <2>1
    <3>2. PICK g \in cache : Hides(g, f, heard)
      BY <3>1 DEF CacheInv, StaleHidden
    <3>3. g # e
      BY <3>1, <3>2, <1>1 DEF Oldest, Hides
    <3> QED
      BY <3>2, <3>3
  <2> QED
    BY <2>2, <2>3, <2>4, <2>5, CompactedInv DEF CacheInv
<1> QED
  BY <1>3, <1>4, <1>5

\* on_timer removes every entry that a removed one hid.
LEMMA OnTimerInv ==
  ASSUME CacheInv(cache, heard)
  PROVE  CacheInv(Compacted({[e EXCEPT !.age = @ + 1] : e \in {f \in cache : ~Expired(f)}}), heard)
<1> DEFINE K == {f \in cache : ~Expired(f)}
           M(x) == [x EXCEPT !.age = @ + 1]
           T == {M(x) : x \in K}
           F == [x \in K |-> M(x)]
<1>1. \A x \in cache : /\ x \in Entry /\ x.pos \in Nat /\ x.stamp \in Nat /\ x.age \in Nat
                       /\ x \in K <=> x.age + 1 < CACHE_TIMEOUT
  BY ArpAssumption DEF CacheInv, Cached, Entry, Expired
<1>2. \A x \in cache : /\ M(x) \in Entry /\ M(x).pos = x.pos /\ M(x).stamp = x.stamp /\ M(x).age = x.age + 1
                       /\ M(x).pa = x.pa /\ M(x).ha = x.ha /\ M(x).state = x.state
  BY <1>1 DEF Entry
<1>3. Cached(T)
  <2>0. Entry # {} => Cached(K)
    BY CachedSizes DEF CacheInv
  <2>1. Cached(K)
    <3>1. CASE cache = {}
      BY <3>1 DEF CacheInv
    <3>2. CASE cache # {}
      BY <3>2, <2>0, <1>1
    <3> QED
      BY <3>1, <3>2
  <2>2. F \in Surjection(K, T)
    BY DEF Surjection
  <2>3. IsFiniteSet(T) /\ Cardinality(T) <= Cardinality(K)
    BY <2>1, <2>2, FS_Surjection DEF Cached
  <2>4. Cardinality(T) \in Nat /\ Cardinality(K) \in Nat /\ Cardinality(K) <= CACHE_SIZE
    BY <2>1, <2>3, FS_CardinalityType DEF Cached
  <2>5. T \subseteq Entry
    BY <1>2
  <2> HIDE DEF T, K
  <2> QED
    BY <2>3, <2>4, <2>5, ArpAssumption DEF Cached
<1> HIDE DEF M
<1>4. Ordered(T)
  <2> SUFFICES ASSUME NEW x \in K, NEW y \in K
               PROVE  /\ M(x).pos = M(y).pos => M(x) = M(y)
                      /\ M(x).stamp = M(y).stamp => M(x) = M(y)
                      /\ M(x).stamp < M(y).stamp => M(y).age <= M(x).age
    BY DEF Ordered
  <2> QED
    BY <1>1, <1>2 DEF CacheInv, Ordered
<1>5. StaleHidden(T, heard)
  <2> SUFFICES ASSUME NEW x \in K, M(x).state = "Resolved", M(x).ha # heard[M(x).pa]
               PROVE  \E y \in K : Hides(M(y), M(x), heard)
    BY DEF StaleHidden
  <2>1. PICK y \in cache : Hides(y, x, heard)
    BY <1>2 DEF CacheInv, StaleHidden
  <2>2. y.age <= x.age
    BY <2>1 DEF Hides, CacheInv, Ordered
  <2>3. y \in K
    BY <2>2, <1>1, ArpAssumption
  <2> QED
    BY <2>1, <2>3, <1>2 DEF Hides
<1>6. CacheInv(Compacted(T), heard)
  <2> HIDE DEF T
  <2> QED
    BY <1>3, <1>4, <1>5, CompactedInv DEF CacheInv
<1> QED
  BY <1>6 DEF M
-----------------------------------------------------------------------------
\* The invariant holds in every state, for every network and every schedule of the threads.
THEOREM ArpInvariant == Spec => []Inv
<1>1. Init => Inv
  <2> SUFFICES ASSUME Init PROVE Inv
    OBVIOUS
  <2>1. IsFiniteSet({}) /\ Cardinality({}) = 0
    BY FS_EmptySet
  <2> QED
    BY <2>1, ArpAssumption
    DEF Init, Inv, TypeOK, CacheInv, Cached, Ordered, StaleHidden, Idle, ThreadState
<1>2. Inv /\ [Next]_vars => Inv'
  <2> SUFFICES ASSUME Inv, [Next]_vars PROVE Inv'
    OBVIOUS
  <2> USE DEF Inv
  <2>0. /\ \A t \in Thread : thr[t] \in ThreadState
        /\ \A t \in Thread : thr[t].pc \in {"insert", "request"} => thr[t].pa \in IpAddr /\ thr[t] = [pc |-> thr[t].pc, pa |-> thr[t].pa]
        /\ \A t \in Thread : thr[t].pc = "merge" => thr[t].msg \in Message
    BY DEF TypeOK, ThreadState, Idle
  <2>1. CASE OnTimer
    <3>1. CacheInv(cache', heard)
      BY <2>1, OnTimerInv DEF OnTimer
    <3> QED
      BY <2>1, <3>1 DEF OnTimer, TypeOK, CacheInv, Cached
  <2>2. ASSUME NEW t \in Thread, NEW pa \in Target[t], Resolve(t, pa) PROVE Inv'
    <3>1. pa \in IpAddr
      BY ArpAssumption
    <3> QED
      BY <2>2, <3>1 DEF Resolve, TypeOK, ThreadState
  <2>3. ASSUME NEW t \in Thread, ResolveInsert(t) PROVE Inv'
    <3>1. CacheInv(cache', heard)
      BY <2>3, <2>0, InsertedInv DEF ResolveInsert
    <3>2. thr' = [thr EXCEPT ![t] = [pc |-> "request", pa |-> thr[t].pa]]
      <4>1. thr[t] = [pc |-> thr[t].pc, pa |-> thr[t].pa]
        BY <2>3, <2>0 DEF ResolveInsert
      <4>2. [thr[t] EXCEPT !.pc = "request"] = [pc |-> "request", pa |-> thr[t].pa]
        BY <4>1
      <4> QED
        BY <2>3, <4>2 DEF ResolveInsert
    <3>3. thr' \in [Thread -> ThreadState]
      <4>1. [pc |-> "request", pa |-> thr[t].pa] \in ThreadState
        BY <2>3, <2>0 DEF ResolveInsert, ThreadState
      <4> QED
        BY <3>2, <4>1 DEF TypeOK
    <3> QED
      BY <2>3, <3>1, <3>2, <3>3 DEF ResolveInsert, TypeOK, CacheInv, Cached
  <2>4. ASSUME NEW t \in Thread, Request(t) \/ RequestFails(t) PROVE Inv'
    <3>1. thr' = [thr EXCEPT ![t] = Idle] /\ UNCHANGED <<cache, flight, heard>>
      BY <2>4 DEF Request, RequestFails
    <3>2. asked' \subseteq IpAddr /\ faults' \in 0..MaxFaults
      BY <2>4, <2>0, ArpAssumption DEF Request, RequestFails, Fault, TypeOK
    <3> QED
      BY <3>1, <3>2 DEF TypeOK, ThreadState, Idle
  <2>5. ASSUME NEW msg \in flight, Input(msg) PROVE Inv'
    <3>1. msg \in Message /\ msg.spa \in IpAddr /\ msg.sha \in EtherAddr
      BY DEF TypeOK, Message
    <3>2. flight' \subseteq Message /\ faults' \in 0..MaxFaults /\ asked' = asked
      BY <2>5, ArpAssumption DEF Input, TypeOK, Fault
    <3>3. heard' = [heard EXCEPT ![msg.spa] = msg.sha] /\ thr[Stack] = Idle
      BY <2>5 DEF Input
    <3>4. heard' \in [IpAddr -> EtherAddr \cup {NoAddr}] /\ heard'[msg.spa] = msg.sha
      BY <3>1, <3>3 DEF TypeOK
    <3>5. CASE (\E e \in First(msg.spa) : cache' = Updated(e, msg.sha)) /\ UNCHANGED thr
      <4>1. CacheInv(cache', heard')
        BY <3>1, <3>3, <3>5, UpdatedInv DEF TypeOK
      <4>2. TypeOK'
        BY <4>1, <3>2, <3>4, <3>5 DEF TypeOK, CacheInv, Cached
      <4>3. ASSUME NEW t \in Thread, thr[t].pc = "merge" PROVE FALSE
        <5>1. t = Stack BY <4>3
        <5> QED BY <5>1, <3>3, <4>3 DEF Idle
      <4> QED
        BY <4>1, <4>2, <4>3, <3>5
    <3>6. CASE Absent(msg.spa) /\ UNCHANGED cache
      <4>1. \A e \in cache : e.pa # msg.spa
        BY <3>6 DEF Absent
      <4>2. CacheInv(cache', heard')
        BY <4>1, <3>1, <3>3, <3>6 DEF CacheInv, StaleHidden, Hides, TypeOK, Cached, Entry
      <4>3. \/ thr' = thr
            \/ thr' = [thr EXCEPT ![Stack] = [pc |-> "merge", msg |-> msg]]
        BY <2>5, <3>6 DEF Input
      <4>4. thr' \in [Thread -> ThreadState]
        BY <4>3, <3>1, ArpAssumption DEF TypeOK, ThreadState
      <4>5. \A t \in Thread : thr'[t].pc = "merge" => t = Stack /\ heard'[thr'[t].msg.spa] = thr'[t].msg.sha
        BY <4>3, <3>3, <3>4, ArpAssumption DEF TypeOK, Idle
      <4> QED
        BY <4>2, <4>4, <4>5, <3>2, <3>4, <3>6 DEF TypeOK
    <3> QED
      BY <2>5, <3>5, <3>6 DEF Input
  <2>6. CASE InputInsert
    <3>1. thr[Stack].msg \in Message /\ heard[thr[Stack].msg.spa] = thr[Stack].msg.sha
      BY <2>6, <2>0, ArpAssumption DEF InputInsert
    <3>2. CacheInv(cache', heard)
      BY <2>6, <3>1, InsertedInv DEF InputInsert, Message
    <3> QED
      BY <2>6, <3>2 DEF InputInsert, TypeOK, CacheInv, Cached, ThreadState, Idle
  <2>7. ASSUME NEW pa \in IpAddr, OwnerReplies(pa) PROVE Inv'
    BY <2>7, ArpAssumption DEF OwnerReplies, Deliver, TypeOK, Message
  <2>8. ASSUME NEW pa \in IpAddr, NEW ha \in Hardware[pa], NEW tpa \in IpAddr \cup {Unicast}, HostAsks(pa, ha, tpa)
        PROVE  Inv'
    BY <2>8, ArpAssumption DEF HostAsks, Deliver, TypeOK, Message
  <2>9. CASE Lose
    BY <2>9, ArpAssumption DEF Lose, Fault, TypeOK
  <2>10. CASE UNCHANGED vars
    BY <2>10 DEF vars, TypeOK
  <2> QED
    BY <2>1, <2>2, <2>3, <2>4, <2>5, <2>6, <2>7, <2>8, <2>9, <2>10 DEF Next, ThreadStep
<1> QED
  BY <1>1, <1>2, PTL DEF Spec

\* The cache never outgrows CACHE_SIZE, and everything else is what its type says.
THEOREM ArpTypes == Spec => []TypeOK
BY ArpInvariant, PTL DEF Inv

\* resolve hands out the hardware address that input heard last, whatever the interleaving of
\* senders, messages, evictions and timeouts.
THEOREM ResolveFreshest == Spec => []FreshestAnswer
<1>1. Inv => FreshestAnswer
  BY DEF Inv, CacheInv, Cached, Entry, FreshestAnswer, StaleHidden, Hides, First
<1> QED
  BY <1>1, ArpInvariant, PTL
=============================================================================
