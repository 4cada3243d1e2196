------------------------------ MODULE NetInput ------------------------------
(***************************************************************************)
(* How a received frame gets to the handler of its protocol, from start to *)
(* shutdown: net.rs, device.rs, driver/loopback.rs and, under              *)
(* platform/linux, intr.rs, softirq.rs, timer.rs and driver/ether_tap.rs.  *)
(*                                                                         *)
(* One thread, the dispatcher of intr.rs, takes the pending signals one by *)
(* one and runs what is registered for them: the isr of the tap reads      *)
(* frames and puts them into INPUT_QUEUE, the softirq takes them out and   *)
(* calls the handlers, the timer runs what is due.  Every thread that      *)
(* sends on the loopback device, the dispatcher included, puts its frame   *)
(* into INPUT_QUEUE as well.  The main thread starts and stops all that.   *)
(* SIGUSR2 and what it interrupts is in Task.                              *)
(***************************************************************************)
EXTENDS Naturals, Sequences

CONSTANTS App,        \* the threads of the application
          Intr,       \* the dispatcher
          Timer,      \* the registered timers
          Interval,   \* of each of them, in ticks
          MaxFrames   \* bound on the frames

Thread == App \cup {Intr}
Signal == {"softirq", "timer", "tap", "hup"}

ASSUME NetAssumption ==
  /\ Intr \notin App /\ Thread \cap {"tap"} = {}
  /\ Interval \in [Timer -> Nat \ {0}]
  /\ MaxFrames \in Nat

\* Frames are numbered in the order of their arrival.  One is wanted when it is long enough,
\* for this host and of a registered type; one is early when it came before the device was open.
Frame == [n : 1..MaxFrames, wanted : BOOLEAN, early : BOOLEAN]

\* An InputEntry and who made it.
InputEntry == [src : Thread \cup {"tap"}, n : 1..MaxFrames]

VARIABLES main,     \* what the main thread does next
          up,       \* the devices with FLAG_UP
          tap,      \* how far the descriptor of the tap is; "open": it is in tap.fd
          ring,     \* the frames in the kernel, to be read from the tap
          pending,  \* the signals that nobody has taken
          intr,     \* what the dispatcher runs
          due,      \* the timers it is to run
          elapsed,  \* the ticks since `last` of each timer
          inh,      \* where each thread is in input_handler
          queue,    \* INPUT_QUEUE
          handled,  \* the frames given to their handlers
          sent      \* the number of frames so far

vars == <<main, up, tap, ring, pending, intr, due, elapsed, inh, queue, handled, sent>>

Out == [step |-> "out"]

MainState ==
  {"intr", "timer", "open_lo", "attach", "async", "setsig", "store", "running", "close_lo",
   "close_tap", "timer_delete", "hup", "join", "done", "failed", "killed"}

TypeOK ==
  /\ main \in MainState
  /\ up \subseteq {"lo", "tap"}
  /\ tap \in {"closed", "attached", "async", "signals", "open"}
  /\ "tap" \in up <=> tap = "open"
  /\ ring \in Seq(Frame)
  /\ pending \subseteq Signal
  /\ intr \in {"none", "sigwait", "tap", "softirq", "handler", "timer", "terminated"}
  /\ due \subseteq Timer
  /\ \A h \in Timer : elapsed[h] \in 0..Interval[h]
  /\ inh \in [Thread -> {Out} \cup [step : {"lookup", "push", "raise"}, entry : InputEntry]]
  /\ queue \in Seq(InputEntry)
  /\ handled \in Seq(InputEntry)
  /\ sent \in 0..MaxFrames

\* After net::init and the registration of the devices.
Init ==
  /\ main = "intr"
  /\ up = {}
  /\ tap = "closed"
  /\ ring = <<>>
  /\ pending = {}
  /\ intr = "none"
  /\ due = {}
  /\ elapsed = [h \in Timer |-> 0]
  /\ inh = [t \in Thread |-> Out]
  /\ queue = <<>>
  /\ handled = <<>>
  /\ sent = 0

Alive == main \notin {"failed", "killed"}
-----------------------------------------------------------------------------
(***************************************************************************)
(* The main thread: net::run, then net::shutdown.                          *)
(***************************************************************************)
\* Defect: shutdown keeps the guard of foreach.
DevicesHeldLong ==
  main \in {"attach", "async", "setsig", "store", "close_lo", "close_tap", "timer_delete", "hup", "join"}

\* try_foreach and foreach hold DEVICES while they open and close.
DevicesHeld == main \in {"attach", "async", "setsig", "store", "close_lo", "close_tap"}

Step(from, to) == main = from /\ main' = to

IntrRun ==
  /\ Step("intr", "timer")
  /\ intr' = "sigwait"
  /\ UNCHANGED <<up, tap, ring, pending, due, elapsed, inh, queue, handled, sent>>

TimerRun ==
  /\ Step("timer", "open_lo")
  /\ UNCHANGED <<up, tap, ring, pending, intr, due, elapsed, inh, queue, handled, sent>>

OpenLo ==
  /\ Step("open_lo", "attach")
  /\ up' = up \cup {"lo"}
  /\ UNCHANGED <<tap, ring, pending, intr, due, elapsed, inh, queue, handled, sent>>

\* ether_tap::open: TUNSETIFF, F_SETFL with O_ASYNC, F_SETSIG, and the descriptor is stored.
OpenTap ==
  /\ \/ Step("attach", "async") /\ tap' = "attached" /\ UNCHANGED up
     \/ Step("async", "setsig") /\ tap' = "async" /\ UNCHANGED up
     \/ Step("setsig", "store") /\ tap' = "signals" /\ UNCHANGED up
     \/ Step("store", "running") /\ tap' = "open" /\ up' = up \cup {"tap"}
  /\ UNCHANGED <<ring, pending, intr, due, elapsed, inh, queue, handled, sent>>

\* A system call fails, the error is passed up and the process exits.
RunFails ==
  /\ main \in {"intr", "timer", "attach", "async", "setsig"}
  /\ main' = "failed"
  /\ tap' = "closed" /\ ring' = <<>>
  /\ UNCHANGED <<up, pending, intr, due, elapsed, inh, queue, handled, sent>>

Shutdown ==
  /\ Step("running", "close_lo")
  /\ UNCHANGED <<up, tap, ring, pending, intr, due, elapsed, inh, queue, handled, sent>>

CloseLo ==
  /\ Step("close_lo", "close_tap")
  /\ up' = up \ {"lo"}
  /\ UNCHANGED <<tap, ring, pending, intr, due, elapsed, inh, queue, handled, sent>>

\* ether_tap::close
CloseTap ==
  /\ Step("close_tap", "timer_delete")
  /\ tap' = "closed" /\ ring' = <<>>
  /\ up' = up \ {"tap"}
  /\ UNCHANGED <<pending, intr, due, elapsed, inh, queue, handled, sent>>

TimerShutdown ==
  /\ Step("timer_delete", "hup")
  /\ UNCHANGED <<up, tap, ring, pending, intr, due, elapsed, inh, queue, handled, sent>>

IntrShutdown ==
  /\ Step("hup", "join")
  /\ pending' = pending \cup {"hup"}
  /\ UNCHANGED <<up, tap, ring, intr, due, elapsed, inh, queue, handled, sent>>

\* handle.join() returns.
Join ==
  /\ intr = "terminated"
  /\ Step("join", "done")
  /\ UNCHANGED <<up, tap, ring, pending, intr, due, elapsed, inh, queue, handled, sent>>

MainStep ==
  IntrRun \/ TimerRun \/ OpenLo \/ OpenTap \/ CloseLo \/ CloseTap \/ TimerShutdown \/ IntrShutdown \/ Join
-----------------------------------------------------------------------------
(***************************************************************************)
(* The kernel.                                                             *)
(***************************************************************************)
\* Real-time signals queue; since the isr reads everything there is, one is as good as many.
\* Without F_SETSIG the signal is SIGIO, which nobody blocks.
Arrive(wanted) ==
  /\ Alive /\ tap # "closed" /\ sent < MaxFrames
  /\ sent' = sent + 1
  /\ ring' = Append(ring, [n |-> sent + 1, wanted |-> wanted, early |-> tap # "open"])
  /\ \/ tap = "attached" /\ UNCHANGED <<main, pending>>
     \/ tap = "async" /\ main' = "killed" /\ UNCHANGED pending
     \/ tap \in {"signals", "open"} /\ pending' = pending \cup {"tap"} /\ UNCHANGED main
  /\ UNCHANGED <<up, tap, intr, due, elapsed, inh, queue, handled>>

\* The periodic timer, between timer_settime and timer_delete.
Tick ==
  /\ Alive /\ main \notin {"intr", "timer", "hup", "join", "done"}
  /\ pending' = pending \cup {"timer"}
  /\ elapsed' = [h \in Timer |-> IF elapsed[h] < Interval[h] THEN elapsed[h] + 1 ELSE elapsed[h]]
  /\ UNCHANGED <<main, up, tap, ring, intr, due, inh, queue, handled, sent>>
-----------------------------------------------------------------------------
(***************************************************************************)
(* input_handler, for a frame that is wanted.                              *)
(***************************************************************************)
\* device::by_index takes DEVICES for a moment.
Lookup(t) ==
  /\ Alive /\ inh[t].step = "lookup"
  /\ ~DevicesHeld
  /\ inh' = [inh EXCEPT ![t].step = "push"]
  /\ UNCHANGED <<main, up, tap, ring, pending, intr, due, elapsed, queue, handled, sent>>

\* Defect: the last comes first.
PushFront(t) ==
  /\ Alive /\ inh[t].step = "push"
  /\ queue' = <<inh[t].entry>> \o queue
  /\ inh' = [inh EXCEPT ![t].step = "raise"]
  /\ UNCHANGED <<main, up, tap, ring, pending, intr, due, elapsed, handled, sent>>

\* push_back
Push(t) ==
  /\ Alive /\ inh[t].step = "push"
  /\ queue' = Append(queue, inh[t].entry)
  /\ inh' = [inh EXCEPT ![t].step = "raise"]
  /\ UNCHANGED <<main, up, tap, ring, pending, intr, due, elapsed, handled, sent>>

\* softirq::raise
Raise(t) ==
  /\ Alive /\ inh[t].step = "raise"
  /\ pending' = pending \cup {"softirq"}
  /\ inh' = [inh EXCEPT ![t] = Out]
  /\ UNCHANGED <<main, up, tap, ring, intr, due, elapsed, queue, handled, sent>>

\* Device::output on the loopback device, whose transmit calls input_handler.
Output(t) ==
  /\ "lo" \in up
  /\ sent < MaxFrames
  /\ sent' = sent + 1
  /\ inh[t] = Out
  /\ inh' = [inh EXCEPT ![t] = [step |-> "lookup", entry |-> [src |-> t, n |-> sent + 1]]]

AppSends(t) ==
  /\ Alive /\ main \notin {"intr", "timer", "open_lo", "attach", "async", "setsig", "store"}
  /\ Output(t)
  /\ UNCHANGED <<main, up, tap, ring, pending, intr, due, elapsed, queue, handled>>

\* Defect: the softirq is raised before the frame is in the queue.
InputStepRaiseFirst(t) ==
  \/ Lookup(t)
  \/ /\ Alive /\ inh[t].step \in {"push", "raise"}
     /\ IF inh[t].step = "push"
        THEN /\ pending' = pending \cup {"softirq"}
             /\ inh' = [inh EXCEPT ![t].step = "raise"]
             /\ UNCHANGED queue
        ELSE /\ queue' = Append(queue, inh[t].entry)
             /\ inh' = [inh EXCEPT ![t] = Out]
             /\ UNCHANGED pending
     /\ UNCHANGED <<main, up, tap, ring, intr, due, elapsed, handled, sent>>

\* The rest of input_handler.
InputStep(t) == Lookup(t) \/ Push(t) \/ Raise(t)
-----------------------------------------------------------------------------
(***************************************************************************)
(* The dispatcher.                                                         *)
(***************************************************************************)
\* It runs this and is not inside input_handler.
Runs(what) == Alive /\ intr = what /\ inh[Intr] = Out

\* Defect: every timer starts again, due or not.
SigwaitRestartsAll(sig) ==
  /\ Runs("sigwait")
  /\ sig \in pending
  /\ pending' = pending \ {sig}
  /\ CASE sig = "hup" -> intr' = "terminated" /\ UNCHANGED <<due, elapsed>>
       [] sig = "tap" /\ tap # "open" -> UNCHANGED <<intr, due, elapsed>>
       [] sig = "timer" -> /\ intr' = "timer"
                           /\ due' = {h \in Timer : elapsed[h] >= Interval[h]}
                           /\ elapsed' = [h \in Timer |-> 0]
       [] OTHER -> intr' = sig /\ UNCHANGED <<due, elapsed>>
  /\ UNCHANGED <<main, up, tap, ring, inh, queue, handled, sent>>

\* sigwait returns; the isr starts.
Sigwait(sig) ==
  /\ Runs("sigwait")
  /\ sig \in pending
  /\ pending' = pending \ {sig}
  /\ \/ sig = "hup" /\ intr' = "terminated" /\ UNCHANGED <<due, elapsed>>
     \/ sig = "softirq" /\ intr' = "softirq" /\ UNCHANGED <<due, elapsed>>
     \/ /\ sig = "tap" /\ intr' = IF tap = "open" THEN "tap" ELSE "sigwait"
        /\ UNCHANGED <<due, elapsed>>
     \/ /\ sig = "timer" /\ intr' = "timer"
        /\ due' = {h \in Timer : elapsed[h] >= Interval[h]}
        /\ elapsed' = [h \in Timer |-> IF h \in due' THEN 0 ELSE elapsed[h]]
  /\ UNCHANGED <<main, up, tap, ring, inh, queue, handled, sent>>

\* Defect: one frame for every signal.
TapReadOnce ==
  /\ Runs("tap")
  /\ intr' = "sigwait"
  /\ IF ring # <<>> /\ Head(ring).wanted
     THEN inh' = [inh EXCEPT ![Intr] = [step |-> "lookup", entry |-> [src |-> "tap", n |-> Head(ring).n]]]
     ELSE UNCHANGED inh
  /\ ring' = IF ring = <<>> THEN ring ELSE Tail(ring)
  /\ UNCHANGED <<main, up, tap, pending, due, elapsed, queue, handled, sent>>

\* read in the isr of the tap, until there is nothing more or the descriptor is closed.
TapRead ==
  /\ Runs("tap")
  /\ \/ /\ ring # <<>>
        /\ ring' = Tail(ring)
        /\ IF Head(ring).wanted
           THEN inh' = [inh EXCEPT ![Intr] = [step |-> "lookup", entry |-> [src |-> "tap", n |-> Head(ring).n]]]
           ELSE UNCHANGED inh
        /\ UNCHANGED intr
     \/ /\ ring = <<>>
        /\ intr' = "sigwait"
        /\ UNCHANGED <<ring, inh>>
  /\ UNCHANGED <<main, up, tap, pending, due, elapsed, queue, handled, sent>>

\* The loop of softirq_handler; the handler is called.
SoftirqPop ==
  /\ Runs("softirq")
  /\ \/ /\ queue # <<>>
        /\ queue' = Tail(queue)
        /\ handled' = Append(handled, Head(queue))
        /\ intr' = "handler"
     \/ /\ queue = <<>>
        /\ intr' = "sigwait"
        /\ UNCHANGED <<queue, handled>>
  /\ UNCHANGED <<main, up, tap, ring, pending, due, elapsed, inh, sent>>

\* Defect: the loop ends after one frame.
HandlerOnce ==
  /\ Runs("handler")
  /\ \/ Output(Intr) /\ UNCHANGED intr
     \/ intr' = "sigwait" /\ UNCHANGED <<inh, sent>>
  /\ UNCHANGED <<main, up, tap, ring, pending, due, elapsed, queue, handled>>

\* The handler sends on the loopback device, any number of times, and returns.
Handler ==
  /\ Runs("handler")
  /\ \/ Output(Intr) /\ UNCHANGED intr
     \/ intr' = "softirq" /\ UNCHANGED <<inh, sent>>
  /\ UNCHANGED <<main, up, tap, ring, pending, due, elapsed, queue, handled>>

\* The loop of timer::isr over what is due.  A handler may send.
TimerIsr ==
  /\ Runs("timer")
  /\ \/ \E h \in due : /\ due' = due \ {h}
                       /\ Output(Intr) \/ UNCHANGED <<inh, sent>>
                       /\ UNCHANGED intr
     \/ due = {} /\ intr' = "sigwait" /\ UNCHANGED <<due, inh, sent>>
  /\ UNCHANGED <<main, up, tap, ring, pending, elapsed, queue, handled>>

IntrStep == TapRead \/ SoftirqPop \/ Handler \/ TimerIsr
-----------------------------------------------------------------------------
Next ==
  \/ MainStep \/ RunFails \/ Shutdown
  \/ \E wanted \in BOOLEAN : Arrive(wanted)
  \/ Tick
  \/ \E t \in App : AppSends(t)
  \/ \E t \in Thread : InputStep(t)
  \/ \E sig \in Signal : Sigwait(sig)
  \/ IntrStep

Spec == Init /\ [][Next]_vars

\* Every thread runs, the clock ticks, and the dispatcher keeps up: of the pending signals
\* none is passed over for ever.
FairSpec ==
  /\ Spec
  /\ WF_vars(MainStep) /\ WF_vars(Tick) /\ WF_vars(IntrStep)
  /\ \A t \in Thread : WF_vars(InputStep(t))
  /\ \A sig \in Signal : SF_vars(Sigwait(sig))
-----------------------------------------------------------------------------
\* A frame in INPUT_QUEUE is never forgotten: the softirq is pending, or the dispatcher has not
\* seen the queue empty yet, or whoever put a frame there is about to raise it.  Signals do
\* not queue, so that the order of push and raise, and of take and drain, matters.
SoftirqPromised ==
  queue # <<>> /\ intr # "terminated" =>
    "softirq" \in pending \/ intr \in {"softirq", "handler"} \/ \E t \in Thread : inh[t].step = "raise"

\* A frame that reached the open tap is never left in the kernel without a signal.
TapPromised ==
  tap = "open" /\ (\E i \in DOMAIN ring : ~ring[i].early) /\ intr # "terminated" =>
    "tap" \in pending \/ intr = "tap"

\* The frames of one sender reach their handlers in the order in which they came.
InOrder ==
  \A i, j \in DOMAIN handled : i < j /\ handled[i].src = handled[j].src => handled[i].n < handled[j].n

Stopped == main \notin {"intr", "timer", "open_lo", "attach", "async", "setsig", "store", "running"}

\* What came to the open tap, or was queued, is handled, unless the stack is shut down.
Delivered ==
  \A n \in 1..MaxFrames :
    ((\E i \in DOMAIN ring : ring[i].n = n /\ ring[i].wanted /\ ~ring[i].early)
       \/ \E i \in DOMAIN queue : queue[i].n = n)
    ~> ((\E i \in DOMAIN handled : handled[i].n = n) \/ Stopped)

\* Every timer is run again and again until the shutdown, however the signals interleave.
TimerRuns == \A h \in Timer : []<>(h \in due \/ Stopped)

\* net::shutdown returns, whatever the dispatcher is doing when it is called.
ShutdownEnds == main = "close_lo" ~> main = "done"
=============================================================================
