CONSTANTS
  Thread = {t, stack}
  Stack = stack
  p = p
  q = q
  IpAddr = {p, q}
  Unicast = me
  EtherAddr = {h1, h2}
  CACHE_SIZE = 2
  CACHE_TIMEOUT = 2
  Target <- Targets
  h1 = h1
  h2 = h2
  Hardware <- Hardwares
  MaxFlight = 1
  MaxFaults = 1
  NoAddr = NoAddr
SPECIFICATION FairSpec
INVARIANTS TypeOK FreshestAnswer
PROPERTY KnownAgain
