------------------------------- MODULE MCTcp --------------------------------
(***************************************************************************)
(* The instances of Tcp that TLC checks.  Hosts are named by upper-case    *)
(* letters, threads by the host they run on.                               *)
(***************************************************************************)
EXTENDS Tcp

Addrs == {"any", "a", "b"}
At(addr, port) == [addr |-> addr, port |-> port]
Bytes == 1..2
NoSegment == {}

OnA == {"ta", "ta2"}
ThreadHosts == [t \in Thread |-> IF t \in OnA THEN "A" ELSE "B"]
HostAddrs == [h \in Host |-> IF h = "A" THEN "a" ELSE "b"]
IssOf == [h \in Host |-> IF h = "A" THEN {3} ELSE {9}]

\* B serves on port 7 of whatever address, A opens from a dynamic port.
BindArgs == [t \in Thread |-> IF t \in OnA THEN {AnyEndp} ELSE {At("any", 7)}]
ConnectArgs == [t \in Thread |-> IF t \in OnA THEN {At("b", 7)} ELSE {}]

\* A opens, writes and closes; B opens passively and reads.
StreamCalls == [t \in Thread |-> IF t \in OnA THEN {"active", "send", "close"}
                                              ELSE {"passive", "receive"}]
\* Both ends open and close.
CloseCalls == [t \in Thread |-> IF t \in OnA THEN {"active", "close"} ELSE {"passive", "close"}]
\* The same, with a second thread of A that reads.
HalfCloseCalls == [t \in Thread |-> CASE t = "ta"  -> {"active", "close"}
                                      [] t = "ta2" -> {"receive"}
                                      [] t = "tb"  -> {"passive", "close"}]
\* Two threads of A connect to a server.
ServerCalls == [t \in Thread |-> IF t \in OnA THEN {"active"}
                                              ELSE {"socket", "bind", "listen", "accept", "close"}]
\* One thread of A opens twice, the server also writes to what it accepted.
StaleCalls == [t \in Thread |-> IF t \in OnA THEN {"active"}
                                             ELSE {"socket", "bind", "listen", "accept", "send"}]

\* A client that talks to a peer of another kind, b:7, which may send any of these at any
\* time.  Its initial sequence number is 20, that of A is 3.
ClientCalls == [t \in Thread |-> {"socket", "connect", "send", "receive", "close"}]
FromPeer(flg, seq, ack, data) ==
  OutputSegment(seq, ack, flg, 1, data, At("b", 7), At("a", 10))
PeerSegments ==
  {FromPeer({"SYN"}, 20, 0, <<>>), FromPeer({"SYN"}, 21, 0, <<>>), FromPeer({"PSH"}, 21, 0, <<>>)}
    \cup {FromPeer({"SYN", "ACK"}, 20, ack, <<>>) : ack \in {4, 9}}
    \cup {FromPeer({"RST", "ACK"}, seq, 4, <<>>) : seq \in {0, 21}}
    \cup {FromPeer({"ACK"}, 21, ack, <<>>) : ack \in {4, 5, 9}}
    \cup {FromPeer({"ACK", "FIN"}, 21, ack, <<>>) : ack \in {4, 5}}
    \cup {FromPeer({"ACK", "PSH"}, 21, 4, data) : data \in {<<1>>, <<1, 2, 1>>}}

\* The same with a server on a:7 that b:10 and b:11 talk to.
AcceptCalls == [t \in Thread |-> {"socket", "bind", "listen", "accept", "receive", "close"}]
ServerPort == [t \in Thread |-> {At("any", 7)}]
ToServer(flg, seq, ack, data) ==
  {OutputSegment(seq, ack, flg, 1, data, At("b", port), At("a", 7)) : port \in {10, 11}}
ClientSegments ==
  ToServer({"SYN"}, 20, 0, <<>>) \cup ToServer({"ACK"}, 21, 4, <<>>)
    \cup ToServer({"ACK", "PSH"}, 21, 4, <<1>>) \cup ToServer({"RST"}, 21, 0, <<>>)
=============================================================================
