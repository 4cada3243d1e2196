-------------------------------- MODULE Task --------------------------------
(***************************************************************************)
(* One Task of platform/linux/task.rs: a generation counter, an interrupt  *)
(* flag and a count of waiters under a mutex, with a condition variable.   *)
(* Each critical section of the mutex is one action.  A thread that blocks *)
(* on the condition variable is "asleep"; notify_all makes every such      *)
(* thread "awake", and an awake thread takes the mutex again and evaluates *)
(* the predicate of wait_while.                                            *)
(***************************************************************************)
EXTENDS Integers, FiniteSets

CONSTANTS Waiters,        \* the threads that wait on the task
          MaxGeneration   \* bound on the u64 generation counter (2^64 - 1)

ASSUME TaskAssumption ==
  /\ IsFiniteSet(Waiters)
  /\ MaxGeneration \in Nat

VARIABLES generation, interrupted, wc,   \* TaskState
          pc,                            \* where each thread is
          snapshot,                      \* the Snapshot each thread holds
          result                         \* what its last wait_after returned

taskVars == <<generation, interrupted, wc, pc, snapshot, result>>

\* "out": not waiting; "armed": holds a snapshot, has not called wait_after;
\* "asleep": blocked on cv; "awake": released by cv, about to take the mutex.
Pcs == {"out", "armed", "asleep", "awake"}
Inside == {w \in Waiters : pc[w] \in {"asleep", "awake"}}

TaskTypeOK ==
  /\ generation \in 0..MaxGeneration
  /\ interrupted \in BOOLEAN
  /\ wc \in Nat
  /\ pc \in [Waiters -> Pcs]
  /\ snapshot \in [Waiters -> 0..MaxGeneration]
  /\ result \in [Waiters -> {"None", "Notified", "Interrupted"}]

-----------------------------------------------------------------------------
\* Plausible defects of the code below, for comparison: a wait without the
\* lost-wakeup guard, an interrupt consumed by the first thread that sees it, a
\* notify that drops the interrupt, a forgotten notify_all and a snapshot that
\* is not refreshed.
BlockUnguarded(w) ==
  /\ ~interrupted
  /\ pc' = [pc EXCEPT ![w] = "asleep"]
  /\ wc' = wc + 1
  /\ UNCHANGED <<generation, interrupted, snapshot, result>>

FlagAlwaysCleared(left) == FALSE

NotifyDropsInterrupt ==
  /\ generation < MaxGeneration
  /\ generation' = generation + 1
  /\ interrupted' = FALSE
  /\ pc' = [w \in Waiters |-> IF pc[w] = "asleep" THEN "awake" ELSE pc[w]]
  /\ UNCHANGED <<wc, snapshot, result>>

NotifyNobody == pc

SnapshotStale(w) ==
  /\ pc[w] = "out"
  /\ pc' = [pc EXCEPT ![w] = "armed"]
  /\ result' = [result EXCEPT ![w] = "None"]
  /\ UNCHANGED <<generation, interrupted, wc, snapshot>>
-----------------------------------------------------------------------------
TaskInit ==
  /\ generation = 0
  /\ interrupted = FALSE
  /\ wc = 0
  /\ pc = [w \in Waiters |-> "out"]
  /\ snapshot = [w \in Waiters |-> 0]
  /\ result = [w \in Waiters |-> "None"]

Snapshot(w) ==
  /\ pc[w] = "out"
  /\ pc' = [pc EXCEPT ![w] = "armed"]
  /\ snapshot' = [snapshot EXCEPT ![w] = generation]
  /\ result' = [result EXCEPT ![w] = "None"]
  /\ UNCHANGED <<generation, interrupted, wc>>

\* The flag that remains when a thread returns Interrupted and `left' others
\* are still inside wait_after.
FlagAfter(left) == left # 0

\* The condition under which wait_while keeps waiting.
KeepWaiting(w) == generation = snapshot[w] /\ ~interrupted

\* wait_after when an interrupt is already pending: it never waits.
WaitInterrupted(w) ==
  /\ pc[w] = "armed"
  /\ interrupted
  /\ interrupted' = FlagAfter(wc)
  /\ pc' = [pc EXCEPT ![w] = "out"]
  /\ result' = [result EXCEPT ![w] = "Interrupted"]
  /\ UNCHANGED <<generation, wc, snapshot>>

\* wait_after, the thread goes to sleep.
Block(w) ==
  /\ KeepWaiting(w)
  /\ pc' = [pc EXCEPT ![w] = "asleep"]
  /\ wc' = wc + 1
  /\ UNCHANGED <<generation, interrupted, snapshot, result>>

\* wait_after, the generation has advanced since the snapshot: wc is raised
\* and lowered again within the one critical section.
WaitNotified(w) ==
  /\ pc[w] = "armed"
  /\ ~interrupted
  /\ ~KeepWaiting(w)
  /\ pc' = [pc EXCEPT ![w] = "out"]
  /\ result' = [result EXCEPT ![w] = "Notified"]
  /\ UNCHANGED <<generation, interrupted, wc, snapshot>>

Wait(w) ==
  \/ WaitInterrupted(w)
  \/ pc[w] = "armed" /\ Block(w)
  \/ WaitNotified(w)

\* A condition variable may also wake a thread for no reason.
SpuriousWakeup(w) ==
  /\ pc[w] = "asleep"
  /\ pc' = [pc EXCEPT ![w] = "awake"]
  /\ UNCHANGED <<generation, interrupted, wc, snapshot, result>>

\* The rest of wait_after, after the condition variable released the thread.
Recheck(w) ==
  /\ pc[w] = "awake"
  /\ \/ /\ KeepWaiting(w)
        /\ pc' = [pc EXCEPT ![w] = "asleep"]
        /\ UNCHANGED <<wc, interrupted, result>>
     \/ /\ ~KeepWaiting(w)
        /\ pc' = [pc EXCEPT ![w] = "out"]
        /\ wc' = wc - 1
        /\ interrupted' = (interrupted /\ FlagAfter(wc - 1))
        /\ result' = [result EXCEPT ![w] = IF interrupted THEN "Interrupted" ELSE "Notified"]
  /\ UNCHANGED <<generation, snapshot>>

NotifyAll == [w \in Waiters |-> IF pc[w] = "asleep" THEN "awake" ELSE pc[w]]

Notify ==
  /\ generation < MaxGeneration
  /\ generation' = generation + 1
  /\ pc' = NotifyAll
  /\ UNCHANGED <<interrupted, wc, snapshot, result>>

Interrupt ==
  /\ ~interrupted
  /\ interrupted' = TRUE
  /\ pc' = NotifyAll
  /\ UNCHANGED <<generation, wc, snapshot, result>>

TaskNext ==
  \/ Notify
  \/ Interrupt
  \/ \E w \in Waiters : Snapshot(w) \/ Wait(w) \/ SpuriousWakeup(w) \/ Recheck(w)

TaskSpec == TaskInit /\ [][TaskNext]_taskVars

\* A thread that may run does run: inside wait_after nothing but the condition
\* variable blocks it.
TaskFairSpec == TaskSpec /\ \A w \in Waiters : WF_taskVars(Wait(w)) /\ WF_taskVars(Recheck(w))
-----------------------------------------------------------------------------
\* The lost-wakeup guard: a thread is asleep on the condition variable only
\* while there was no notify() since its snapshot() and no interrupt is pending.
NoLostWakeup == \A w \in Waiters : pc[w] = "asleep" => KeepWaiting(w)

\* wc, which decides who consumes an interrupt, is the number of threads inside
\* wait_after.
WaiterCount == wc = Cardinality(Inside)

\* An interrupt() reaches every thread that is inside wait_after when it comes:
\* the flag stays set for it until it returns Interrupted, whoever returns first.
InterruptReachesAll ==
  [][\A w \in Inside :
       interrupted => \/ w \in Inside' /\ interrupted'
                      \/ pc'[w] = "out" /\ result'[w] = "Interrupted"]_taskVars

\* An interrupt is never dropped: the flag falls only as some thread returns
\* Interrupted and leaves wait_after empty.
InterruptNotDropped ==
  [][interrupted /\ ~interrupted' =>
       /\ Inside' = {}
       /\ \E w \in Waiters : pc[w] # "out" /\ pc'[w] = "out" /\ result'[w] = "Interrupted"]_taskVars

\* A notify() after the snapshot ends the wait, before or during the sleep.
NotifyEndsWait ==
  \A w \in Waiters : (pc[w] # "out" /\ generation # snapshot[w]) ~> (pc[w] = "out")

\* An interrupt() ends the wait of every thread inside wait_after.
InterruptEndsWait ==
  \A w \in Waiters : (w \in Inside /\ interrupted) ~> (pc[w] = "out")

\* The counter, the flag and the condition variable implement WaitSpec.
Abstract == INSTANCE WaitSpec WITH
  armed     <- {w \in Waiters : pc[w] # "out"},
  signalled <- {w \in Waiters : pc[w] # "out" /\ generation # snapshot[w]},
  intr      <- interrupted,
  result    <- result

ImplementsWaitSpec == Abstract!Spec
=============================================================================
