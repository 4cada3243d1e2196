SPECIFICATION Spec
CONSTANTS
  Thread = {t1, t2}
  PCB_SIZE_MAX = 2
  Desc = {0, 1, 2}
  BacklogMax = 1
  MaxPcbs = 3
  NoPcb = NoPcb
  NoSock = NoSock
INVARIANTS RightPcb OneSocketPerPcb NoOrphan
CHECK_DEADLOCK FALSE
