CONSTANTS
  App = {app}
  Intr = dispatcher
  tcp = tcp
  arp = arp
  Timer <- Timers
  Interval <- Intervals
  MaxFrames = 2
SPECIFICATION FairSpec
INVARIANTS SoftirqPromised TapPromised InOrder
PROPERTIES Delivered TimerRuns ShutdownEnds
CHECK_DEADLOCK FALSE
