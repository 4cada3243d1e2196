SPECIFICATION FairSpec
CONSTANTS
  Host <- HostDef
  Unicast <- UnicastDef
  Netmask <- NetmaskDef
  Gateway = 10
  Static <- StaticDef
  Dst <- DstDef
  MTU = 20
  MaxRoutes = 3
  MaxSends = 1
  MaxFaults = 1
INVARIANTS BestRoute HandledWasSent AnswersSolicited
PROPERTIES FallsSilent EchoAnswered
CHECK_DEADLOCK FALSE
