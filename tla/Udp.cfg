CONSTANTS
  Thread = {t1, t2}
  PCB_SIZE_MAX = 2
  Addr = {a, any}
  ANY = any
  Port = {0, 1, 2}
  DYNAMIC_PORT_MIN = 1
  DYNAMIC_PORT_MAX = 2
  MaxOpens = 2
  MaxInput = 2
  NoPcb = NoPcb
  NoTask = NoTask
SPECIFICATION FairSpec
INVARIANTS EndpointsDisjoint ReplyComesBack SleepersHaveNothing TakenInOrder
PROPERTY DatagramEndsSleep
