--------------------------- MODULE NetInputProofs ---------------------------
(***************************************************************************)
(* Proofs about NetInput, for every number of threads, timers and frames.  *)
(*                                                                         *)
(* SoftirqPromised is inductive once the types are known.  TapPromised     *)
(* needs to know that whatever is in the kernel before the descriptor is   *)
(* stored came early.  InOrder needs the whole way of a frame: from the    *)
(* kernel, through the hands of the thread in input_handler, to the queue  *)
(* and to the handler, a frame is never overtaken by a later one of the    *)
(* same sender.                                                            *)
(***************************************************************************)
EXTENDS NetInput, TLAPS

\* Until the descriptor is stored, every frame in the kernel is early.
OnlyEarly == tap # "open" => \A i \in DOMAIN ring : ring[i].early

\* The tap is up only between the end of net::run and its close, and the dispatcher is not
\* there before intr::run.
Lifecycle ==
  /\ "tap" \in up => main \in {"running", "close_lo", "close_tap"}
  /\ main = "intr" => intr = "none"

\* Nothing is numbered beyond the last frame, and every entry knows who made it.
Numbered ==
  /\ \A i \in DOMAIN ring : ring[i].n <= sent
  /\ \A i \in DOMAIN queue : queue[i].n <= sent
  /\ \A i \in DOMAIN handled : handled[i].n <= sent
  /\ \A t \in Thread : inh[t] # Out =>
       /\ inh[t].entry.n <= sent
       /\ inh[t].entry.src = t \/ (t = Intr /\ inh[t].entry.src = "tap")

\* x was sent before y, or by somebody else.
Precedes(x, y) == x.src = y.src => x.n < y.n

\* The entry that t has in its hands and not yet in the queue.
InHand(t) == inh[t].step \in {"lookup", "push"}

\* What is ahead on the way came earlier: handled, queued, in hand, in the kernel.
InWay ==
  /\ \A i, j \in DOMAIN handled : i < j => Precedes(handled[i], handled[j])
  /\ \A i \in DOMAIN handled, j \in DOMAIN queue : Precedes(handled[i], queue[j])
  /\ \A i, j \in DOMAIN queue : i < j => Precedes(queue[i], queue[j])
  /\ \A t \in Thread : InHand(t) =>
       /\ \A i \in DOMAIN handled : Precedes(handled[i], inh[t].entry)
       /\ \A i \in DOMAIN queue : Precedes(queue[i], inh[t].entry)
  /\ \A j \in DOMAIN ring :
       /\ \A i \in DOMAIN handled : handled[i].src = "tap" => handled[i].n < ring[j].n
       /\ \A i \in DOMAIN queue : queue[i].src = "tap" => queue[i].n < ring[j].n
       /\ InHand(Intr) /\ inh[Intr].entry.src = "tap" => inh[Intr].entry.n < ring[j].n
  /\ \A i, j \in DOMAIN ring : i < j => ring[i].n < ring[j].n

\* The inductive invariant.
Inv == TypeOK /\ Lifecycle /\ OnlyEarly /\ SoftirqPromised /\ TapPromised /\ Numbered /\ InWay

\* The invariant depends on the variables alone: a step that leaves the frames alone leaves
\* their order alone.
LEMMA WayUnchanged ==
  ASSUME Numbered, InWay, UNCHANGED <<ring, inh, queue, handled, sent>>
  PROVE  Numbered' /\ InWay'
BY DEF Numbered, InWay, InHand, Precedes

\* What a thread in input_handler is.
LEMMA HandTypes ==
  ASSUME TypeOK, NEW t \in Thread
  PROVE  /\ inh[t].step \in {"out", "lookup", "push", "raise"}
         /\ inh[t].step = "out" <=> inh[t] = Out
         /\ inh[t] # Out => /\ inh[t].entry \in InputEntry
                            /\ inh[t] = [step |-> inh[t].step, entry |-> inh[t].entry]
BY DEF TypeOK, Out


\* Everything on the way has a number.
LEMMA Numbers ==
  ASSUME TypeOK
  PROVE  /\ \A i \in DOMAIN ring : ring[i].n \in Nat
         /\ \A i \in DOMAIN queue : queue[i].n \in Nat
         /\ \A i \in DOMAIN handled : handled[i].n \in Nat
         /\ \A t \in Thread : inh[t] # Out => inh[t].entry.n \in Nat
         /\ sent \in Nat
<1>1. \A x \in Frame : x.n \in Nat
  BY NetAssumption DEF Frame
<1>2. \A x \in InputEntry : x.n \in Nat
  BY NetAssumption DEF InputEntry
<1>3. \A i \in DOMAIN ring : ring[i] \in Frame
  BY DEF TypeOK
<1>4. \A i \in DOMAIN queue : queue[i] \in InputEntry
  BY DEF TypeOK
<1>5. \A i \in DOMAIN handled : handled[i] \in InputEntry
  BY DEF TypeOK
<1>6. \A t \in Thread : inh[t] # Out => inh[t].entry \in InputEntry
  BY HandTypes
<1>7. sent \in Nat
  BY NetAssumption DEF TypeOK
<1> QED
  BY <1>1, <1>2, <1>3, <1>4, <1>5, <1>6, <1>7
-----------------------------------------------------------------------------
\* The steps of the main thread and of the clock.
LEMMA MainInv ==
  ASSUME Inv, MainStep \/ RunFails \/ Shutdown \/ Tick
  PROVE  Inv'
<1> USE DEF Inv
<1>0. MainStep \/ RunFails \/ Shutdown \/ Tick
  OBVIOUS
<1> DEFINE Kept == UNCHANGED <<inh, queue, handled, sent, due>>
<1>1. CASE IntrRun
  <2>1. Kept /\ UNCHANGED <<ring, tap, up, pending, elapsed>> /\ main = "intr" /\ main' = "timer" /\ intr' = "sigwait"
    BY <1>1 DEF IntrRun, Step
  <2> QED
    BY <2>1, WayUnchanged DEF TypeOK, MainState, Lifecycle, OnlyEarly, SoftirqPromised, TapPromised
<1>2. CASE TimerRun \/ OpenLo \/ Shutdown \/ CloseLo \/ TimerShutdown \/ Join
  <2>1. Kept /\ UNCHANGED <<ring, tap, pending, elapsed, intr>>
    BY <1>2 DEF TimerRun, OpenLo, Shutdown, CloseLo, TimerShutdown, Join
  <2>2. /\ main' \in MainState /\ main' # "intr" /\ up' \subseteq {"lo", "tap"}
        /\ "tap" \in up' <=> "tap" \in up
        /\ "tap" \in up' => main' \in {"running", "close_lo", "close_tap"}
    BY <1>2 DEF TimerRun, OpenLo, Shutdown, CloseLo, TimerShutdown, Join, Step, MainState, Lifecycle, TypeOK
  <2> QED
    BY <2>1, <2>2, WayUnchanged DEF TypeOK, Lifecycle, OnlyEarly, SoftirqPromised, TapPromised
<1>3. CASE OpenTap
  <2>1. Kept /\ UNCHANGED <<ring, pending, elapsed, intr>>
    BY <1>3 DEF OpenTap
  <2>2. /\ main' \in MainState /\ main' # "intr" /\ up' \subseteq {"lo", "tap"}
        /\ tap' \in {"closed", "attached", "async", "signals", "open"}
        /\ "tap" \in up' <=> tap' = "open"
        /\ "tap" \in up' => main' \in {"running", "close_lo", "close_tap"}
        /\ tap # "open"
    BY <1>3 DEF OpenTap, Step, MainState, Lifecycle, TypeOK
  <2> QED
    BY <2>1, <2>2, WayUnchanged DEF TypeOK, Lifecycle, OnlyEarly, SoftirqPromised, TapPromised
<1>4. CASE RunFails \/ CloseTap
  <2>1. Kept /\ UNCHANGED <<pending, elapsed, intr>> /\ tap' = "closed" /\ ring' = <<>>
    BY <1>4 DEF RunFails, CloseTap
  <2>2. main' \in MainState /\ main' # "intr" /\ up' \subseteq {"lo", "tap"} /\ "tap" \notin up'
    BY <1>4 DEF RunFails, CloseTap, Step, MainState, Lifecycle, TypeOK
  <2>3. DOMAIN ring' = {} /\ ring' \in Seq(Frame)
    BY <2>1
  <2>4. Numbered' /\ InWay'
    BY <2>1, <2>3 DEF Numbered, InWay, InHand, Precedes
  <2> QED
    BY <2>1, <2>2, <2>3, <2>4 DEF TypeOK, Lifecycle, OnlyEarly, SoftirqPromised, TapPromised
<1>5. CASE IntrShutdown
  <2>1. Kept /\ UNCHANGED <<ring, tap, up, elapsed, intr>> /\ pending' = pending \cup {"hup"} /\ main' = "join" /\ main = "hup"
    BY <1>5 DEF IntrShutdown, Step
  <2> QED
    BY <2>1, WayUnchanged DEF TypeOK, MainState, Signal, Lifecycle, OnlyEarly, SoftirqPromised, TapPromised
<1>6. CASE Tick
  <2>1. Kept /\ UNCHANGED <<ring, tap, up, intr, main>> /\ pending' = pending \cup {"timer"}
    BY <1>6 DEF Tick
  <2>2. \A h \in Timer : elapsed'[h] \in 0..Interval[h]
    BY <1>6, NetAssumption DEF Tick, TypeOK
  <2> QED
    BY <2>1, <2>2, WayUnchanged DEF TypeOK, Signal, Lifecycle, OnlyEarly, SoftirqPromised, TapPromised
<1> QED
  BY <1>0, <1>1, <1>2, <1>3, <1>4, <1>5, <1>6 DEF MainStep

\* A frame that arrives is the last of all.
LEMMA ArriveInv ==
  ASSUME Inv, NEW wanted \in BOOLEAN, Arrive(wanted)
  PROVE  Inv'
<1> USE DEF Inv
<1> DEFINE f == [n |-> sent + 1, wanted |-> wanted, early |-> tap # "open"]
<1>1. /\ ring' = Append(ring, f) /\ sent' = sent + 1 /\ sent \in 0..MaxFrames /\ sent < MaxFrames
      /\ UNCHANGED <<up, tap, intr, due, elapsed, inh, queue, handled>>
      /\ ring \in Seq(Frame)
  BY DEF Arrive, TypeOK
<1>2. f \in Frame /\ f.n = sent + 1 /\ (tap # "open" => f.early) /\ sent + 1 \in 0..MaxFrames
  <2>1. sent + 1 \in 1..MaxFrames /\ sent + 1 \in 0..MaxFrames /\ f.n = sent + 1
    BY <1>1, NetAssumption
  <2>2. f \in Frame
    BY <2>1 DEF Frame
  <2>3. f.early = (tap # "open")
    BY Zenon
  <2> QED
    BY <2>1, <2>2, <2>3, Zenon
<1> HIDE DEF f
<1>3. /\ ring' \in Seq(Frame)
      /\ DOMAIN ring' = 1..(Len(ring) + 1) /\ DOMAIN ring = 1..Len(ring) /\ Len(ring) \in Nat
      /\ \A i \in 1..Len(ring) : ring'[i] = ring[i]
      /\ ring'[Len(ring) + 1] = f
  BY <1>1, <1>2
<1>4. main' \in MainState /\ pending \subseteq pending' /\ pending' \subseteq Signal
  BY DEF Arrive, TypeOK, MainState, Signal
<1>5. main' = main \/ (main' = "killed" /\ tap = "async")
  BY DEF Arrive
<1>6. tap = "open" => "tap" \in pending'
  BY DEF Arrive
<1>7. TypeOK'
  BY <1>1, <1>2, <1>3, <1>4 DEF TypeOK
<1>8. Lifecycle'
  BY <1>1, <1>5 DEF Lifecycle, TypeOK
<1>9. OnlyEarly'
  BY <1>1, <1>2, <1>3 DEF OnlyEarly
<1>10. SoftirqPromised' /\ TapPromised'
  BY <1>1, <1>4, <1>6 DEF SoftirqPromised, TapPromised
<1>11. Numbered'
  <2>1. \A x : (x \in Nat /\ x <= sent) => x <= sent'
    BY <1>1
  <2>2. \A i \in DOMAIN ring' : ring'[i].n <= sent'
    <3>1. \A i \in DOMAIN ring : ring[i].n <= sent'
      BY <2>1, Numbers DEF Numbered
    <3> QED
      BY <1>1, <1>2, <1>3, <3>1
  <2> QED
    BY <1>1, <2>1, <2>2, Numbers DEF Numbered
<1>12. InWay'
  <2>1. \A i \in DOMAIN handled : handled[i].n < f.n
    BY <1>1, <1>2, Numbers DEF Numbered
  <2>2. \A i \in DOMAIN queue : queue[i].n < f.n
    BY <1>1, <1>2, Numbers DEF Numbered
  <2>3. \A i \in DOMAIN ring : ring[i].n < f.n
    BY <1>1, <1>2, Numbers DEF Numbered
  <2>4. InHand(Intr) => inh[Intr].entry.n < f.n
    <3>1. Intr \in Thread
      BY DEF Thread
    <3>2. InHand(Intr) => inh[Intr] # Out
      BY DEF InHand, Out
    <3> QED
      BY <3>1, <3>2, <1>1, <1>2, Numbers DEF Numbered
  <2>5. \A j \in DOMAIN ring' : (j \in DOMAIN ring /\ ring'[j] = ring[j]) \/ (ring'[j] = f /\ j = Len(ring) + 1)
    BY <1>3
  <2>6. \A i, j \in DOMAIN ring' : i < j => i \in DOMAIN ring
    BY <1>3
  <2>7. \A j \in DOMAIN ring' :
          /\ \A i \in DOMAIN handled : handled[i].src = "tap" => handled[i].n < ring'[j].n
          /\ \A i \in DOMAIN queue : queue[i].src = "tap" => queue[i].n < ring'[j].n
          /\ InHand(Intr) /\ inh[Intr].entry.src = "tap" => inh[Intr].entry.n < ring'[j].n
    BY <2>1, <2>2, <2>4, <2>5 DEF InWay
  <2>8. \A i, j \in DOMAIN ring' : i < j => ring'[i].n < ring'[j].n
    BY <1>3, <2>3, <2>5, <2>6 DEF InWay
  <2> QED
    BY <1>1, <2>7, <2>8 DEF InWay, InHand, Precedes
<1> QED
  BY <1>7, <1>8, <1>9, <1>10, <1>11, <1>12
-----------------------------------------------------------------------------
\* What a step that only moves the entries of one thread on leaves alone.
RestKept == UNCHANGED <<main, up, tap, ring, intr, due, elapsed, handled, sent>>

\* The three steps of input_handler.
LEMMA InputStepInv ==
  ASSUME Inv, NEW t \in Thread, InputStep(t)
  PROVE  Inv'
<1> USE DEF Inv
<1>0. inh \in [Thread -> {Out} \cup [step : {"lookup", "push", "raise"}, entry : InputEntry]]
  BY DEF TypeOK
<1>1. CASE Lookup(t)
  <2>1. RestKept /\ UNCHANGED <<pending, queue>> /\ inh' = [inh EXCEPT ![t].step = "push"] /\ inh[t].step = "lookup"
    BY <1>1 DEF Lookup, RestKept
  <2>2. /\ inh'[t].step = "push" /\ inh'[t].entry = inh[t].entry /\ inh[t] # Out /\ inh'[t] # Out
        /\ \A u \in Thread \ {t} : inh'[u] = inh[u]
        /\ inh' \in [Thread -> {Out} \cup [step : {"lookup", "push", "raise"}, entry : InputEntry]]
    BY <1>0, <2>1 DEF Out
  <2>3. TypeOK' /\ Lifecycle' /\ OnlyEarly' /\ TapPromised'
    BY <2>1, <2>2 DEF RestKept, TypeOK, Lifecycle, OnlyEarly, TapPromised
  <2>4. SoftirqPromised'
    BY <2>1, <2>2 DEF RestKept, SoftirqPromised
  <2>5. Numbered' /\ InWay'
    BY <2>1, <2>2 DEF RestKept, Numbered, InWay, InHand, Precedes
  <2> QED
    BY <2>3, <2>4, <2>5
<1>2. CASE Push(t)
  <2> DEFINE e == inh[t].entry
  <2>1. /\ RestKept /\ pending' = pending /\ inh' = [inh EXCEPT ![t].step = "raise"] /\ inh[t].step = "push"
        /\ queue' = Append(queue, e)
    BY <1>2 DEF Push, RestKept
  <2>2. /\ inh'[t].step = "raise" /\ inh'[t].entry = e /\ inh[t] # Out /\ inh'[t] # Out /\ e \in InputEntry
        /\ \A u \in Thread \ {t} : inh'[u] = inh[u]
        /\ inh' \in [Thread -> {Out} \cup [step : {"lookup", "push", "raise"}, entry : InputEntry]]
    BY <1>0, <2>1 DEF Out
  <2>3. /\ queue' \in Seq(InputEntry)
        /\ DOMAIN queue' = 1..(Len(queue) + 1) /\ DOMAIN queue = 1..Len(queue) /\ Len(queue) \in Nat
        /\ \A i \in 1..Len(queue) : queue'[i] = queue[i]
        /\ queue'[Len(queue) + 1] = e
    BY <2>1, <2>2 DEF TypeOK
  <2>4. TypeOK' /\ Lifecycle' /\ OnlyEarly' /\ TapPromised'
    BY <2>1, <2>2, <2>3 DEF RestKept, TypeOK, Lifecycle, OnlyEarly, TapPromised
  <2>5. SoftirqPromised'
    BY <2>2 DEF SoftirqPromised
  <2>6. /\ e.n <= sent /\ (e.src = t \/ (t = Intr /\ e.src = "tap"))
        /\ \A i \in DOMAIN handled : Precedes(handled[i], e)
        /\ \A i \in DOMAIN queue : Precedes(queue[i], e)
        /\ \A j \in DOMAIN ring : e.src = "tap" => e.n < ring[j].n
    <3>1. InHand(t) /\ (t = Intr \/ inh[t].entry.src # "tap")
      BY <2>1, <2>2, NetAssumption DEF Numbered, InHand
    <3> QED
      BY <2>2, <3>1 DEF Numbered, InWay
  <2>7. \A j \in DOMAIN queue' : (j \in DOMAIN queue /\ queue'[j] = queue[j]) \/ (queue'[j] = e /\ j = Len(queue) + 1)
    BY <2>3
  <2>8. \A i, j \in DOMAIN queue' : i < j => i \in DOMAIN queue
    BY <2>3
  <2>9. \A u \in Thread \ {t} : inh[u] # Out => inh[u].entry.src # e.src
    BY <2>6, NetAssumption DEF Numbered, Thread
  <2> HIDE DEF e
  <2>10. Numbered'
    BY <2>1, <2>2, <2>6, <2>7 DEF RestKept, Numbered
  <2>11. \A u \in Thread : InHand(u)' => u # t /\ inh'[u] = inh[u] /\ inh[u] # Out /\ InHand(u)
    BY <2>2 DEF InHand, Out
  <2>12. InWay'
    <3>1. \A i, j \in DOMAIN handled' : i < j => Precedes(handled'[i], handled'[j])
      BY <2>1 DEF RestKept, InWay
    <3>2. \A i \in DOMAIN handled', j \in DOMAIN queue' : Precedes(handled'[i], queue'[j])
      BY <2>1, <2>6, <2>7 DEF RestKept, InWay
    <3>3. \A i, j \in DOMAIN queue' : i < j => Precedes(queue'[i], queue'[j])
      BY <2>3, <2>6, <2>7, <2>8 DEF InWay
    <3>4. \A u \in Thread : InHand(u)' =>
            /\ \A i \in DOMAIN handled' : Precedes(handled'[i], inh'[u].entry)
            /\ \A i \in DOMAIN queue' : Precedes(queue'[i], inh'[u].entry)
      BY <2>1, <2>7, <2>9, <2>11 DEF RestKept, InWay, Precedes
    <3>5. \A j \in DOMAIN ring' :
            /\ \A i \in DOMAIN handled' : handled'[i].src = "tap" => handled'[i].n < ring'[j].n
            /\ \A i \in DOMAIN queue' : queue'[i].src = "tap" => queue'[i].n < ring'[j].n
            /\ InHand(Intr)' /\ inh'[Intr].entry.src = "tap" => inh'[Intr].entry.n < ring'[j].n
      BY <2>1, <2>6, <2>7, <2>11 DEF RestKept, InWay, Thread
    <3>6. \A i, j \in DOMAIN ring' : i < j => ring'[i].n < ring'[j].n
      BY <2>1 DEF RestKept, InWay
    <3> QED
      BY <3>1, <3>2, <3>3, <3>4, <3>5, <3>6 DEF InWay, Precedes
  <2> QED
    BY <2>4, <2>5, <2>10, <2>12
<1>3. CASE Raise(t)
  <2>1. RestKept /\ queue' = queue /\ pending' = pending \cup {"softirq"} /\ inh' = [inh EXCEPT ![t] = Out]
    BY <1>3 DEF Raise, RestKept
  <2>2. /\ inh'[t] = Out /\ inh'[t].step = "out"
        /\ \A u \in Thread \ {t} : inh'[u] = inh[u]
        /\ inh' \in [Thread -> {Out} \cup [step : {"lookup", "push", "raise"}, entry : InputEntry]]
    BY <1>0, <2>1 DEF Out
  <2>3. TypeOK' /\ Lifecycle' /\ OnlyEarly' /\ TapPromised' /\ SoftirqPromised'
    BY <2>1, <2>2 DEF RestKept, TypeOK, Signal, Lifecycle, OnlyEarly, TapPromised, SoftirqPromised
  <2>4. Numbered' /\ InWay'
    BY <2>1, <2>2 DEF RestKept, Numbered, InWay, InHand, Precedes
  <2> QED
    BY <2>3, <2>4
<1> QED
  BY <1>1, <1>2, <1>3 DEF InputStep
-----------------------------------------------------------------------------
\* A frame sent on the loopback device is the last of its sender.
LEMMA OutputWay ==
  ASSUME Inv, NEW t \in Thread, Output(t), UNCHANGED <<ring, queue, handled>>
  PROVE  /\ inh' \in [Thread -> {Out} \cup [step : {"lookup", "push", "raise"}, entry : InputEntry]]
         /\ sent' \in 0..MaxFrames
         /\ \A u \in Thread : inh[u].step = "raise" => inh'[u].step = "raise"
         /\ Numbered' /\ InWay'
<1> USE DEF Inv
<1> DEFINE e == [src |-> t, n |-> sent + 1]
<1>1. /\ sent' = sent + 1 /\ sent < MaxFrames /\ sent \in 0..MaxFrames
      /\ inh[t] = Out /\ inh' = [inh EXCEPT ![t] = [step |-> "lookup", entry |-> e]]
      /\ inh \in [Thread -> {Out} \cup [step : {"lookup", "push", "raise"}, entry : InputEntry]]
  BY DEF Output, TypeOK
<1>2. e \in InputEntry /\ e.src = t /\ e.n = sent + 1 /\ sent' \in 0..MaxFrames
  BY <1>1, NetAssumption DEF InputEntry
<1> HIDE DEF e
<1>3. /\ inh'[t].step = "lookup" /\ inh'[t].entry = e
      /\ \A u \in Thread \ {t} : inh'[u] = inh[u]
      /\ inh' \in [Thread -> {Out} \cup [step : {"lookup", "push", "raise"}, entry : InputEntry]]
  BY <1>1, <1>2
<1>4. \A u \in Thread : inh[u].step = "raise" => inh'[u].step = "raise"
  BY <1>1, <1>3 DEF Out
<1>5. t # "tap" /\ (t = Intr => inh[Intr] = Out)
  BY <1>1, NetAssumption
<1>6. \A x : (x \in Nat /\ x <= sent) => (x <= sent' /\ x < e.n)
  BY <1>1, <1>2, Numbers
<1>7. Numbered'
  <2>1. e.n <= sent'
    BY <1>1, <1>2, Numbers
  <2> QED
    BY <2>1, <1>2, <1>3, <1>6, Numbers DEF Numbered
<1>8. InWay'
  <2>1. \A u \in Thread : InHand(u)' =>
          /\ \A i \in DOMAIN handled : Precedes(handled[i], inh'[u].entry)
          /\ \A i \in DOMAIN queue : Precedes(queue[i], inh'[u].entry)
    <3> SUFFICES ASSUME NEW u \in Thread, InHand(u)'
                 PROVE  /\ \A i \in DOMAIN handled : Precedes(handled[i], inh'[u].entry)
                        /\ \A i \in DOMAIN queue : Precedes(queue[i], inh'[u].entry)
      OBVIOUS
    <3>1. CASE u = t
      BY <3>1, <1>3, <1>6, Numbers DEF Numbered, Precedes
    <3>2. CASE u # t
      BY <3>2, <1>3 DEF InWay, InHand
    <3> QED
      BY <3>1, <3>2
  <2>2. InHand(Intr)' /\ inh'[Intr].entry.src = "tap" => InHand(Intr) /\ inh'[Intr] = inh[Intr]
    BY <1>2, <1>3, <1>5 DEF InHand, Thread
  <2> QED
    BY <2>1, <2>2 DEF InWay, Precedes
<1> QED
  BY <1>2, <1>3, <1>4, <1>7, <1>8

\* A thread of the application sends.
LEMMA AppInv ==
  ASSUME Inv, NEW t \in App, AppSends(t)
  PROVE  Inv'
<1>1. t \in Thread /\ Output(t) /\ UNCHANGED <<main, up, tap, ring, pending, intr, due, elapsed, queue, handled>>
  BY DEF AppSends, Thread
<1>2. /\ inh' \in [Thread -> {Out} \cup [step : {"lookup", "push", "raise"}, entry : InputEntry]]
      /\ sent' \in 0..MaxFrames
      /\ \A u \in Thread : inh[u].step = "raise" => inh'[u].step = "raise"
      /\ Numbered' /\ InWay'
  BY <1>1, OutputWay
<1> QED
  BY <1>1, <1>2 DEF Inv, TypeOK, Lifecycle, OnlyEarly, SoftirqPromised, TapPromised

\* sigwait: what is taken from the pending signals is what the dispatcher runs next.
LEMMA SigwaitInv ==
  ASSUME Inv, NEW sig \in Signal, Sigwait(sig)
  PROVE  Inv'
<1> USE DEF Inv
<1>1. /\ UNCHANGED <<main, up, tap, ring, inh, queue, handled, sent>>
      /\ intr = "sigwait" /\ pending' = pending \ {sig}
  BY DEF Sigwait, Runs
<1>2. /\ intr' \in {"none", "sigwait", "tap", "softirq", "handler", "timer", "terminated"}
      /\ sig = "softirq" => intr' = "softirq"
      /\ sig = "tap" /\ tap = "open" => intr' = "tap"
  BY DEF Sigwait
<1>3. due' \subseteq Timer /\ \A h \in Timer : elapsed'[h] \in 0..Interval[h]
  <2>1. CASE UNCHANGED <<due, elapsed>>
    BY <2>1 DEF TypeOK
  <2>2. CASE /\ due' = {h \in Timer : elapsed[h] >= Interval[h]}
             /\ elapsed' = [h \in Timer |-> IF h \in due' THEN 0 ELSE elapsed[h]]
    BY <2>2, NetAssumption DEF TypeOK
  <2> QED
    BY <2>1, <2>2 DEF Sigwait
<1>4. TypeOK'
  BY <1>1, <1>2, <1>3 DEF TypeOK
<1>5. Lifecycle' /\ OnlyEarly'
  BY <1>1 DEF Lifecycle, OnlyEarly
<1>6. SoftirqPromised'
  BY <1>1, <1>2 DEF SoftirqPromised
<1>7. TapPromised'
  BY <1>1, <1>2 DEF TapPromised
<1> QED
  BY <1>1, <1>4, <1>5, <1>6, <1>7, WayUnchanged

\* The isr of the tap moves the first frame of the kernel into the hands of the dispatcher.
LEMMA TapReadInv ==
  ASSUME Inv, TapRead
  PROVE  Inv'
<1> USE DEF Inv
<1>0. Intr \in Thread
  BY DEF Thread
<1>1. /\ UNCHANGED <<main, up, tap, pending, due, elapsed, queue, handled, sent>>
      /\ intr = "tap" /\ inh[Intr] = Out /\ ring \in Seq(Frame)
      /\ inh \in [Thread -> {Out} \cup [step : {"lookup", "push", "raise"}, entry : InputEntry]]
  BY DEF TapRead, Runs, TypeOK
<1>2. CASE ring = <<>> /\ intr' = "sigwait" /\ UNCHANGED <<ring, inh>>
  <2>1. DOMAIN ring = {}
    BY <1>2
  <2> QED
    BY <1>1, <1>2, <2>1, WayUnchanged
    DEF TypeOK, Lifecycle, OnlyEarly, SoftirqPromised, TapPromised
<1>3. CASE ring # <<>> /\ ring' = Tail(ring) /\ intr' = intr
  <2> DEFINE e == [src |-> "tap", n |-> Head(ring).n]
  <2>1. /\ Len(ring) \in Nat \ {0} /\ DOMAIN ring = 1..Len(ring) /\ Head(ring) = ring[1] /\ ring[1] \in Frame
        /\ ring' \in Seq(Frame) /\ DOMAIN ring' = 1..(Len(ring) - 1)
        /\ \A i \in 1..(Len(ring) - 1) : ring'[i] = ring[i + 1]
    BY <1>1, <1>3
  <2>2. e \in InputEntry /\ e.src = "tap" /\ e.n = ring[1].n
    BY <2>1 DEF Frame, InputEntry
  <2>3. inh' = inh \/ inh' = [inh EXCEPT ![Intr] = [step |-> "lookup", entry |-> e]]
    BY <1>3 DEF TapRead
  <2> HIDE DEF e
  <2>4. /\ \A u \in Thread \ {Intr} : inh'[u] = inh[u]
        /\ inh'[Intr] = Out \/ (inh'[Intr].step = "lookup" /\ inh'[Intr].entry = e)
        /\ inh' \in [Thread -> {Out} \cup [step : {"lookup", "push", "raise"}, entry : InputEntry]]
    BY <1>0, <1>1, <2>2, <2>3
  <2>5. \A u \in Thread : inh[u].step = "raise" => inh'[u].step = "raise"
    BY <1>1, <2>4 DEF Out
  <2>6. \A j \in DOMAIN ring' : j + 1 \in DOMAIN ring /\ 1 \in DOMAIN ring /\ 1 < j + 1 /\ ring'[j] = ring[j + 1]
    BY <2>1
  <2>7. 1 \in DOMAIN ring
    BY <2>1
  <2>8. TypeOK' /\ Lifecycle' /\ OnlyEarly'
    BY <1>1, <1>3, <2>1, <2>4, <2>6 DEF TypeOK, Lifecycle, OnlyEarly
  <2>9. SoftirqPromised' /\ TapPromised'
    BY <1>1, <1>3, <2>5 DEF SoftirqPromised, TapPromised
  <2>10. Numbered'
    <3>1. \A j \in DOMAIN ring' : ring'[j].n <= sent'
      BY <1>1, <2>6 DEF Numbered
    <3>2. e.n <= sent'
      BY <1>1, <2>2, <2>7 DEF Numbered
    <3> QED
      BY <1>1, <2>2, <2>4, <3>1, <3>2 DEF Numbered
  <2>11. InWay'
    <3>1. \A u \in Thread : InHand(u)' => (InHand(u) /\ inh'[u] = inh[u]) \/ (u = Intr /\ inh'[u].entry = e)
      BY <2>4 DEF InHand, Out
    <3>2. /\ \A i \in DOMAIN handled : Precedes(handled[i], e)
          /\ \A i \in DOMAIN queue : Precedes(queue[i], e)
      BY <2>2, <2>7 DEF InWay, Precedes
    <3>3. \A j \in DOMAIN ring' : e.n < ring'[j].n
      BY <2>2, <2>6 DEF InWay
    <3>4. \A u \in Thread : InHand(u)' =>
            /\ \A i \in DOMAIN handled : Precedes(handled[i], inh'[u].entry)
            /\ \A i \in DOMAIN queue : Precedes(queue[i], inh'[u].entry)
      BY <3>1, <3>2 DEF InWay
    <3>5. \A j \in DOMAIN ring' :
            /\ \A i \in DOMAIN handled : handled[i].src = "tap" => handled[i].n < ring'[j].n
            /\ \A i \in DOMAIN queue : queue[i].src = "tap" => queue[i].n < ring'[j].n
            /\ InHand(Intr)' /\ inh'[Intr].entry.src = "tap" => inh'[Intr].entry.n < ring'[j].n
      BY <1>0, <2>6, <3>1, <3>3 DEF InWay
    <3>6. \A i, j \in DOMAIN ring' : i < j => ring'[i].n < ring'[j].n
      <4>1. \A i, j \in DOMAIN ring' : i < j => i + 1 < j + 1
        BY <2>1
      <4> QED
        BY <4>1, <2>6 DEF InWay
    <3> QED
      BY <1>1, <3>4, <3>5, <3>6 DEF InWay, Precedes
  <2> QED
    BY <2>8, <2>9, <2>10, <2>11
<1> QED
  BY <1>2, <1>3 DEF TapRead

\* The softirq gives the first entry of the queue to its handler.
LEMMA SoftirqInv ==
  ASSUME Inv, SoftirqPop
  PROVE  Inv'
<1> USE DEF Inv
<1>1. /\ UNCHANGED <<main, up, tap, ring, pending, due, elapsed, inh, sent>>
      /\ intr = "softirq" /\ queue \in Seq(InputEntry) /\ handled \in Seq(InputEntry)
  BY DEF SoftirqPop, Runs, TypeOK
<1>2. CASE queue = <<>> /\ intr' = "sigwait" /\ UNCHANGED <<queue, handled>>
  BY <1>1, <1>2, WayUnchanged DEF TypeOK, Lifecycle, OnlyEarly, SoftirqPromised, TapPromised
<1>3. CASE queue # <<>> /\ queue' = Tail(queue) /\ handled' = Append(handled, Head(queue)) /\ intr' = "handler"
  <2> DEFINE e == queue[1]
  <2>1. /\ Len(queue) \in Nat \ {0} /\ DOMAIN queue = 1..Len(queue) /\ Head(queue) = e /\ e \in InputEntry
        /\ queue' \in Seq(InputEntry) /\ DOMAIN queue' = 1..(Len(queue) - 1)
        /\ \A i \in 1..(Len(queue) - 1) : queue'[i] = queue[i + 1]
    BY <1>1, <1>3
  <2>2. \A j \in DOMAIN queue' : j + 1 \in DOMAIN queue /\ 1 < j + 1 /\ queue'[j] = queue[j + 1]
    BY <2>1
  <2>3. 1 \in DOMAIN queue
    BY <2>1
  <2>4. /\ handled' \in Seq(InputEntry) /\ Len(handled) \in Nat
        /\ DOMAIN handled' = 1..(Len(handled) + 1) /\ DOMAIN handled = 1..Len(handled)
        /\ \A i \in 1..Len(handled) : handled'[i] = handled[i]
        /\ handled'[Len(handled) + 1] = e
    BY <1>1, <1>3, <2>1
  <2>5. \A i \in DOMAIN handled' : (i \in DOMAIN handled /\ handled'[i] = handled[i]) \/ (handled'[i] = e /\ i = Len(handled) + 1)
    BY <2>4
  <2>6. \A i, j \in DOMAIN handled' : i < j => i \in DOMAIN handled
    BY <2>4
  <2>7. \A i, j \in DOMAIN queue' : i < j => i + 1 < j + 1
    BY <2>1
  <2>8. /\ \A i \in DOMAIN handled : Precedes(handled[i], e)
        /\ \A j \in DOMAIN queue' : Precedes(e, queue'[j])
        /\ \A t \in Thread : InHand(t) => Precedes(e, inh[t].entry)
        /\ \A j \in DOMAIN ring : e.src = "tap" => e.n < ring[j].n
        /\ e.n <= sent
    BY <2>2, <2>3 DEF InWay, Numbered
  <2> HIDE DEF e
  <2>9. TypeOK' /\ Lifecycle' /\ OnlyEarly'
    BY <1>1, <1>3, <2>1, <2>4 DEF TypeOK, Lifecycle, OnlyEarly
  <2>10. SoftirqPromised' /\ TapPromised'
    BY <1>1, <1>3 DEF SoftirqPromised, TapPromised
  <2>11. Numbered'
    BY <1>1, <2>2, <2>5, <2>8 DEF Numbered
  <2>12. InWay'
    <3>1. \A i, j \in DOMAIN handled' : i < j => Precedes(handled'[i], handled'[j])
      BY <2>4, <2>5, <2>6, <2>8 DEF InWay
    <3>2. \A i \in DOMAIN handled', j \in DOMAIN queue' : Precedes(handled'[i], queue'[j])
      BY <2>2, <2>5, <2>8 DEF InWay
    <3>3. \A i, j \in DOMAIN queue' : i < j => Precedes(queue'[i], queue'[j])
      BY <2>2, <2>7 DEF InWay
    <3>4. \A t \in Thread : InHand(t) =>
            /\ \A i \in DOMAIN handled' : Precedes(handled'[i], inh[t].entry)
            /\ \A i \in DOMAIN queue' : Precedes(queue'[i], inh[t].entry)
      BY <2>2, <2>5, <2>8 DEF InWay
    <3>5. \A j \in DOMAIN ring :
            /\ \A i \in DOMAIN handled' : handled'[i].src = "tap" => handled'[i].n < ring[j].n
            /\ \A i \in DOMAIN queue' : queue'[i].src = "tap" => queue'[i].n < ring[j].n
            /\ InHand(Intr) /\ inh[Intr].entry.src = "tap" => inh[Intr].entry.n < ring[j].n
      BY <2>2, <2>5, <2>8 DEF InWay
    <3> QED
      BY <1>1, <3>1, <3>2, <3>3, <3>4, <3>5 DEF InWay, InHand, Precedes
  <2> QED
    BY <2>9, <2>10, <2>11, <2>12
<1> QED
  BY <1>2, <1>3 DEF SoftirqPop

\* The handlers of frames and timers, which may send.
LEMMA HandlerInv ==
  ASSUME Inv, Handler \/ TimerIsr
  PROVE  Inv'
<1> USE DEF Inv
<1>0. Intr \in Thread
  BY DEF Thread
<1>1. /\ UNCHANGED <<main, up, tap, ring, pending, elapsed, queue, handled>>
      /\ intr \in {"handler", "timer"} /\ due' \subseteq Timer
      /\ intr' \in {"handler", "softirq", "timer", "sigwait"}
      /\ intr = "handler" => intr' \in {"handler", "softirq"}
  BY DEF Handler, TimerIsr, Runs, TypeOK
<1>2. Output(Intr) \/ UNCHANGED <<inh, sent>>
  BY DEF Handler, TimerIsr
<1>3. /\ inh' \in [Thread -> {Out} \cup [step : {"lookup", "push", "raise"}, entry : InputEntry]]
      /\ sent' \in 0..MaxFrames
      /\ \A u \in Thread : inh[u].step = "raise" => inh'[u].step = "raise"
      /\ Numbered' /\ InWay'
  <2>1. CASE Output(Intr)
    BY <2>1, <1>0, <1>1, OutputWay
  <2>2. CASE UNCHANGED <<inh, sent>>
    BY <2>2, <1>1, WayUnchanged DEF TypeOK
  <2> QED
    BY <1>2, <2>1, <2>2
<1> QED
  BY <1>1, <1>3 DEF TypeOK, Lifecycle, OnlyEarly, SoftirqPromised, TapPromised
-----------------------------------------------------------------------------
\* The invariant holds from start to shutdown, however threads, signals and frames interleave.
THEOREM InputInvariant == Spec => []Inv
<1>1. Init => Inv
  <2> SUFFICES ASSUME Init PROVE Inv
    OBVIOUS
  <2>1. DOMAIN ring = {} /\ DOMAIN queue = {} /\ DOMAIN handled = {}
    BY DEF Init
  <2>2. TypeOK
    <3>1. /\ ring \in Seq(Frame) /\ queue \in Seq(InputEntry) /\ handled \in Seq(InputEntry)
          /\ \A h \in Timer : elapsed[h] \in 0..Interval[h]
          /\ sent \in 0..MaxFrames
      BY NetAssumption DEF Init
    <3> QED
      BY <3>1 DEF Init, TypeOK, MainState
  <2>3. \A t \in Thread : inh[t] = Out /\ inh[t].step = "out"
    BY DEF Init, Out
  <2> QED
    BY <2>1, <2>2, <2>3
    DEF Init, Inv, Lifecycle, OnlyEarly, SoftirqPromised, TapPromised, Numbered, InWay, InHand
<1>2. Inv /\ [Next]_vars => Inv'
  <2> SUFFICES ASSUME Inv, [Next]_vars PROVE Inv'
    OBVIOUS
  <2>1. CASE MainStep \/ RunFails \/ Shutdown \/ Tick
    BY <2>1, MainInv
  <2>2. ASSUME NEW wanted \in BOOLEAN, Arrive(wanted) PROVE Inv'
    BY <2>2, ArriveInv
  <2>3. ASSUME NEW t \in App, AppSends(t) PROVE Inv'
    BY <2>3, AppInv
  <2>4. ASSUME NEW t \in Thread, InputStep(t) PROVE Inv'
    BY <2>4, InputStepInv
  <2>5. ASSUME NEW sig \in Signal, Sigwait(sig) PROVE Inv'
    BY <2>5, SigwaitInv
  <2>6. CASE IntrStep
    BY <2>6, TapReadInv, SoftirqInv, HandlerInv DEF IntrStep
  <2>7. CASE UNCHANGED vars
    BY <2>7, WayUnchanged
    DEF vars, Inv, TypeOK, Lifecycle, OnlyEarly, SoftirqPromised, TapPromised
  <2> QED
    BY <2>1, <2>2, <2>3, <2>4, <2>5, <2>6, <2>7 DEF Next
<1> QED
  BY <1>1, <1>2, PTL DEF Spec

\* The tap has a descriptor exactly while it is up, and everything is what its type says.
THEOREM InputTypes == Spec => []TypeOK
BY InputInvariant, PTL DEF Inv

\* No entry of INPUT_QUEUE is left behind by signals that coalesce.
THEOREM NoEntryForgotten == Spec => []SoftirqPromised
BY InputInvariant, PTL DEF Inv

\* No frame is left in the kernel of an open tap.
THEOREM NoFrameForgotten == Spec => []TapPromised
BY InputInvariant, PTL DEF Inv

\* Frames are handled in the order in which their sender's came.
THEOREM FramesInOrder == Spec => []InOrder
<1>1. Inv => InOrder
  BY DEF Inv, InWay, InOrder, Precedes
<1> QED
  BY <1>1, InputInvariant, PTL
=============================================================================
