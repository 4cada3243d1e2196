CONSTANTS
  SeqMod = 32
  RECV_BUF_SIZE = 2
  TCP_DEFAULT_RTO = 1
  TCP_RETRANS_DEADLINE = 2
  TCP_TIMEWAIT_SEC = 3
  PCB_SIZE_MAX = 1
  Addr <- Addrs
  ANY = "any"
  Port = {0, 7, 10, 11}
  Byte <- Bytes
  NoPcb = NoPcb
  Host = {"A", "B"}
  Thread = {"ta", "tb"}
  ThreadHost <- ThreadHosts
  HostAddr <- HostAddrs
  Iss <- IssOf
  MSS = 1
  DynPort = {10, 11}
  Calls <- CloseCalls
  BindTo <- BindArgs
  ConnectTo <- ConnectArgs
  SendLen = {2}
  RecvLen = {2}
  Backlog = {1}
  MaxOpens = 1
  MaxFaults = 1
  MaxFlight = 1
  Faults = {"lose", "interrupt"}
  PeerSegment <- NoSegment
SPECIFICATION FairSpec
PROPERTIES OpenReturns ClosingEnds
