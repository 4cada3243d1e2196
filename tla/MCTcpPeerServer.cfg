CONSTANTS
  SeqMod = 32
  RECV_BUF_SIZE = 2
  TCP_DEFAULT_RTO = 1
  TCP_RETRANS_DEADLINE = 2
  TCP_TIMEWAIT_SEC = 3
  PCB_SIZE_MAX = 3
  Addr <- Addrs
  ANY = "any"
  Port = {0, 7, 10, 11}
  Byte <- Bytes
  NoPcb = NoPcb
  Host = {"A"}
  Thread = {"ta"}
  ThreadHost <- ThreadHosts
  HostAddr <- HostAddrs
  Iss <- IssOf
  MSS = 1
  DynPort = {10, 11}
  Calls <- AcceptCalls
  BindTo <- ServerPort
  ConnectTo <- ConnectArgs
  SendLen = {1}
  RecvLen = {2}
  Backlog = {1}
  MaxOpens = 1
  MaxFaults = 4
  MaxFlight = 1
  Faults = {"peer"}
  PeerSegment <- ClientSegments
SPECIFICATION Spec
INVARIANTS ConnectionUnique WaitersBlocked
