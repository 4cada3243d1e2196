--------------------------------- MODULE Ip ---------------------------------
(***************************************************************************)
(* IP and ICMP (ip.rs, icmp.rs, and cksum16 of util.rs) on hosts that each *)
(* have a loopback device and an Ethernet device on one LAN.  Interfaces   *)
(* and routes are configured in any order; then packets are sent by        *)
(* ip::output, handled by ip::input, and answered by icmp::input.  ARP is  *)
(* external here: an address is resolved or not (see Arp).                 *)
(*                                                                         *)
(* A byte is a digit below BYTE, a u16 is two of them in the order of a    *)
(* little-endian machine, and an address is one digit.  A header keeps the *)
(* fields that are not constant: protocol, checksum, source, destination.  *)
(* Packets have the lengths they say they have.                            *)
(***************************************************************************)
EXTENDS Integers, Sequences, FiniteSets, Bitwise

CONSTANTS Host,
          Unicast(_, _),     \* the address of a host on a device, for iface_register
          Netmask(_),        \* the netmask of a device, likewise
          Gateway, Static,   \* the gateway, and routes <<network, netmask, nexthop>> for route_add
          Dst,               \* destinations to which applications send
          MTU,               \* of both devices
          MaxRoutes,         \* bound on the number of routes of a host
          MaxSends,          \* bound on the number of calls of output by applications
          MaxFaults          \* bound on the number of packets that the LAN changes

BYTE == 16
WORD == BYTE * BYTE
Digit == 0..(BYTE - 1)
ANY == 0
BROADCAST == BYTE - 1
Dev == {"lo", "eth"}
ICMP == 1
UNKNOWN == 2          \* a protocol for which no handler is registered
ECHO_REPLY == 0
DEST_UNREACH == 3
ECHO == 8
IP_HDR_SIZE == 6
ICMP_HDR_SIZE == 5
QUOTED == 1         \* bytes of the payload that an error message quotes

VARIABLES ifaces,   \* the devices of each host that have an IpIface
          routes,   \* ROUTES
          frames,   \* on their way: [dev, to, pkt]
          sends,    \* how many packets the applications sent
          sent,     \* the packets that left, for the properties
          handled,  \* <<host, packet>> that passed the checks of input, likewise
          asked,    \* <<host, number>> of the echo requests that left, likewise
          answered, \* <<host, number>> of the echo replies handled, likewise
          faults,   \* how many packets the LAN changed
          lost      \* whether the LAN or ARP lost something

vars == <<ifaces, routes, frames, sends, sent, handled, asked, answered, faults, lost>>

Init ==
  /\ ifaces = [h \in Host |-> {}]
  /\ routes = [h \in Host |-> <<>>]
  /\ frames = {} /\ sends = 0
  /\ sent = {} /\ handled = {} /\ asked = {} /\ answered = {}
  /\ faults = 0 /\ lost = FALSE
-----------------------------------------------------------------------------
(* util.rs *)

\* Defect: the last byte of an odd length is left out.
WordSumEven(data) ==
  LET sum[n \in 0..Len(data)] == IF n = 0 THEN 0 ELSE sum[n - 1] + (IF n % 2 = 0 THEN BYTE ELSE 1) * data[n]
  IN sum[Len(data) - (Len(data) % 2)]

\* The sum of the words; the last byte of an odd length is a word of its own.
WordSum(data) ==
  LET sum[n \in 0..Len(data)] == IF n = 0 THEN 0 ELSE sum[n - 1] + (IF n % 2 = 0 THEN BYTE ELSE 1) * data[n]
  IN sum[Len(data)]

\* The loop that folds the carries.
RECURSIVE Folded(_)
Folded(sum) == IF sum < WORD THEN sum ELSE Folded((sum % WORD) + (sum \div WORD))

cksum16(data, init) == WORD - 1 - Folded(init + WordSum(data))

\* to_ne_bytes.
Bytes(word) == <<word % BYTE, word \div BYTE>>
-----------------------------------------------------------------------------
(* Routes *)

\* The operations on addresses, tabulated.
BitAnd == [a \in Digit, b \in Digit |-> a & b]
BitOr == [a \in Digit, b \in Digit |-> a | b]
Ones == [mask \in Digit |-> Cardinality({i \in 0..3 : (mask \div 2^i) % 2 = 1})]
Complement(mask) == BYTE - 1 - mask
Broadcast(h, dev) == BitOr[Unicast(h, dev), Complement(Netmask(dev))]

\* Whether routes[h][i] leads to dst.
Leads(h, i, dst) == BitAnd[dst, routes[h][i].netmask] = routes[h][i].network

\* The length of the prefix of routes[h][i], -1 where there is no route.
Prefix(h, i) == IF i = 0 THEN -1 ELSE Ones[routes[h][i].netmask]

\* Defect: of two equally long prefixes the later one is taken.
BetterOrEqual(h, i, best) == Prefix(h, i) >= Prefix(h, best)

Better(h, i, best) == Prefix(h, i) > Prefix(h, best)

\* The position of the route that the loop of route_lookup ends with, 0 for None.
route_lookup(h, dst) ==
  LET best[n \in 0..Len(routes[h])] ==
        IF n = 0 THEN 0
        ELSE IF Leads(h, n, dst) /\ Better(h, n, best[n - 1]) THEN n ELSE best[n - 1]
  IN best[Len(routes[h])]

\* The routes of h after route_add.
RouteAdded(h, network, netmask, nexthop, dev) ==
  [routes EXCEPT ![h] = Append(@, [network |-> network, netmask |-> netmask, nexthop |-> nexthop, dev |-> dev])]

\* Defect: the network of the interface is its address.
NetworkUnmasked(h, dev) == Unicast(h, dev)

Network(h, dev) == BitAnd[Unicast(h, dev), Netmask(dev)]

\* iface_register; add_iface refuses a second one.
IfaceRegister(h, dev) ==
  /\ dev \notin ifaces[h] /\ Len(routes[h]) < MaxRoutes
  /\ ifaces' = [ifaces EXCEPT ![h] = @ \cup {dev}]
  /\ routes' = RouteAdded(h, Network(h, dev), Netmask(dev), ANY, dev)
  /\ UNCHANGED <<frames, sends, sent, handled, asked, answered, faults, lost>>

\* set_default_gateway, or route_add with one of the static routes.
RouteAdd(h) ==
  /\ "eth" \in ifaces[h] /\ Len(routes[h]) < MaxRoutes
  /\ \E r \in Static \cup {<<ANY, ANY, Gateway>>} : routes' = RouteAdded(h, r[1], r[2], r[3], "eth")
  /\ UNCHANGED <<ifaces, frames, sends, sent, handled, asked, answered, faults, lost>>
-----------------------------------------------------------------------------
(* Output *)

\* The header with its checksum stored in it.
build_packet(protocol, data, src, dst) ==
  LET head == <<protocol, 0, 0, 0, src, dst>>
      sum == Bytes(cksum16(head, 0))
  IN [hdr |-> [head EXCEPT ![3] = sum[1], ![4] = sum[2]], data |-> data]

Frame(dev, to, pkt) == [dev |-> dev, to |-> to, pkt |-> pkt]

\* What may become of a packet: frames that leave, or nothing, lost or refused.
Refused == [frames |-> {}, lost |-> FALSE]
Lost == [frames |-> {}, lost |-> TRUE]
Leaves(fs) == [frames |-> fs, lost |-> FALSE]

\* On the LAN a broadcast reaches every other host; a host that ARP resolves gets its frame.
output_device(h, dev, pkt, target) ==
  IF dev = "lo" THEN {Leaves({Frame("lo", h, pkt)})}
  ELSE IF target \in {Broadcast(h, "eth"), BROADCAST}
  THEN {Leaves({Frame("eth", g, pkt) : g \in Host \ {h}})}
  ELSE {Lost} \cup {Leaves({Frame("eth", g, pkt)}) :
                     g \in {x \in Host \ {h} : "eth" \in ifaces[x] /\ Unicast(x, "eth") = target}}

\* Defect: any source address will do.
SourceForAny(h, dev, src) == IF src = ANY THEN {Unicast(h, dev)} ELSE {src}

\* The source address to use, if src may be used on the device.
SourceFor(h, dev, src) == IF src \in {ANY, Unicast(h, dev)} THEN {Unicast(h, dev)} ELSE {}

\* ip::output: the possible outcomes.
output(h, protocol, data, src, dst) ==
  LET i == route_lookup(h, dst)
      r == routes[h][i]
      target == IF r.nexthop # ANY THEN r.nexthop ELSE dst
  IN IF (src = ANY /\ dst = BROADCAST) \/ i = 0 THEN {Refused}
     ELSE IF SourceFor(h, r.dev, src) = {} \/ MTU < IP_HDR_SIZE + Len(data) THEN {Refused}
     ELSE UNION {output_device(h, r.dev, build_packet(protocol, data, s, dst), target) :
                   s \in SourceFor(h, r.dev, src)}

\* icmp::output: the message with its checksum stored in it.
icmp_message(ty, code, dep, data) ==
  LET msg == <<ty, code, 0, 0, dep>> \o data
      sum == Bytes(cksum16(msg, 0))
  IN [msg EXCEPT ![3] = sum[1], ![4] = sum[2]]

\* An application sends: an echo request with a number of its own, or another protocol.
Send(h, src, dst, protocol, data) ==
  /\ sends < MaxSends
  /\ \E o \in output(h, protocol, data, src, dst) :
       /\ frames' = frames \cup o.frames
       /\ sent' = sent \cup {f.pkt : f \in o.frames}
       /\ asked' = IF protocol = ICMP /\ o.frames # {} THEN asked \cup {<<h, sends + 1>>} ELSE asked
       /\ lost' = (lost \/ o.lost)
  /\ sends' = sends + 1
  /\ UNCHANGED <<ifaces, routes, handled, answered, faults>>
-----------------------------------------------------------------------------
(* Input *)

Protocol(pkt) == pkt.hdr[1]
Src(pkt) == pkt.hdr[5]
DstOf(pkt) == pkt.hdr[6]

\* The checks of ip::input.
Accepted(f) ==
  /\ cksum16(f.pkt.hdr, 0) = 0
  /\ f.dev \in ifaces[f.to]
  /\ DstOf(f.pkt) \in {Unicast(f.to, f.dev), Broadcast(f.to, f.dev), BROADCAST}

\* The checks of icmp::input.
AcceptedIcmp(data) == Len(data) >= ICMP_HDR_SIZE /\ cksum16(data, 0) = 0

\* Defect: a reply is answered like a request.
icmp_inputAny(f) ==
  IF ~AcceptedIcmp(f.pkt.data) THEN {Refused}
  ELSE output(f.to, ICMP, icmp_message(ECHO_REPLY, 0, f.pkt.data[5], SubSeq(f.pkt.data, ICMP_HDR_SIZE + 1, Len(f.pkt.data))),
              Unicast(f.to, f.dev), Src(f.pkt))

\* icmp::input: an echo request is answered.
icmp_input(f) ==
  IF ~AcceptedIcmp(f.pkt.data) \/ f.pkt.data[1] # ECHO THEN {Refused}
  ELSE output(f.to, ICMP, icmp_message(ECHO_REPLY, 0, f.pkt.data[5], SubSeq(f.pkt.data, ICMP_HDR_SIZE + 1, Len(f.pkt.data))),
              Unicast(f.to, f.dev), Src(f.pkt))

\* A protocol without a handler: the sender is told.
unreachable(f) ==
  output(f.to, ICMP, icmp_message(DEST_UNREACH, 2, 0, f.pkt.hdr \o SubSeq(f.pkt.data, 1, QUOTED)),
         Unicast(f.to, f.dev), Src(f.pkt))

\* ip::input with the handler it calls.
Input(f) ==
  /\ f \in frames
  /\ \E o \in IF ~Accepted(f) THEN {Refused}
              ELSE IF Protocol(f.pkt) = ICMP THEN icmp_input(f) ELSE unreachable(f) :
       /\ frames' = (frames \ {f}) \cup o.frames
       /\ sent' = sent \cup {x.pkt : x \in o.frames}
       /\ lost' = (lost \/ o.lost)
  /\ handled' = IF Accepted(f) /\ (Protocol(f.pkt) = ICMP => AcceptedIcmp(f.pkt.data))
                THEN handled \cup {<<f.to, f.pkt>>} ELSE handled
  /\ answered' = IF Accepted(f) /\ Protocol(f.pkt) = ICMP /\ AcceptedIcmp(f.pkt.data) /\ f.pkt.data[1] = ECHO_REPLY
                 THEN answered \cup {<<f.to, f.pkt.data[5]>>} ELSE answered
  /\ UNCHANGED <<ifaces, routes, sends, asked, faults>>

\* The LAN changes a byte of a packet, or loses a frame.
Corrupt(f) ==
  /\ f \in frames /\ f.dev = "eth" /\ faults < MaxFaults
  /\ \E part \in {"hdr", "data"} : \E i \in DOMAIN f.pkt[part] :
       frames' = (frames \ {f}) \cup {[f EXCEPT !.pkt[part][i] = (@ + 1) % BYTE]}
  /\ faults' = faults + 1 /\ lost' = TRUE
  /\ UNCHANGED <<ifaces, routes, sends, sent, handled, asked, answered>>

Lose(f) ==
  /\ f \in frames /\ f.dev = "eth"
  /\ frames' = frames \ {f}
  /\ lost' = TRUE
  /\ UNCHANGED <<ifaces, routes, sends, sent, handled, asked, answered, faults>>

Sources == {ANY} \cup {Unicast(h, dev) : h \in Host, dev \in Dev}
Payloads == {<<ICMP, icmp_message(ECHO, 0, sends + 1, <<7, 7>>)>>, <<UNKNOWN, <<9, sends>>>>, <<UNKNOWN, [i \in 1..MTU |-> 0]>>}

Next ==
  \/ \E h \in Host, dev \in Dev : IfaceRegister(h, dev)
  \/ \E h \in Host : RouteAdd(h)
  \/ \E h \in Host, src \in Sources, dst \in Dst, p \in Payloads : Send(h, src, dst, p[1], p[2])
  \/ \E f \in frames : Input(f) \/ Corrupt(f) \/ Lose(f)

Spec == Init /\ [][Next]_vars

\* The stack handles what arrives.
FairSpec == Spec /\ WF_vars(\E f \in frames : Input(f))
-----------------------------------------------------------------------------
\* The loop of route_lookup finds, for every destination, the first of the matching routes
\* with the longest netmask, whatever the order in which interfaces and routes were added.
BestRoute ==
  \A h \in Host, dst \in Digit :
    LET match == {i \in DOMAIN routes[h] : Leads(h, i, dst)}
        longest == {i \in match : \A j \in match : Prefix(h, j) <= Prefix(h, i)}
    IN route_lookup(h, dst) = IF match = {} THEN 0 ELSE CHOOSE i \in longest : \A j \in longest : i <= j

\* What a host hands to a protocol, or answers, is what another host sent: the checksum of
\* the header, and for ICMP that of the message, reveals a byte that the LAN changed.
HandledWasSent ==
  \A x \in handled : \E p \in sent : p.hdr = x[2].hdr /\ (Protocol(p) = ICMP => p = x[2])

\* An echo reply reaches only the host that sent the request: requests leave with the
\* address of their own interface, so nobody is answered in place of another.
AnswersSolicited == answered \subseteq asked

\* Answers are not answered: once the applications stop sending, the LAN falls silent, with
\* errors and replies to broadcasts and over the loopback device too.
FallsSilent == <>[](frames = {})

\* A host whose echo request another host handles gets its answer, unless the LAN or ARP
\* lost something: the answer has a route back and leaves with an address that is accepted.
EchoAnswered ==
  \A h \in Host : \A n \in 1..MaxSends :
    (\E x \in handled : /\ Protocol(x[2]) = ICMP /\ x[2].data[1] = ECHO /\ x[2].data[5] = n
                        /\ <<h, n>> \in asked)
      ~> (<<h, n>> \in answered \/ lost)
=============================================================================
