CONSTANTS
  Waiters = {w1, w2, w3}
  MaxGeneration = 3
SPECIFICATION TaskFairSpec
INVARIANTS NoLostWakeup
PROPERTIES InterruptReachesAll InterruptNotDropped NotifyEndsWait InterruptEndsWait ImplementsWaitSpec
