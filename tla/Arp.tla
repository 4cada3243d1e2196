--------------------------------- MODULE Arp --------------------------------
(***************************************************************************)
(* The ARP cache of arp.rs.  Threads that send call resolve; the thread of *)
(* the stack (platform/linux/intr.rs) runs input and on_timer, and calls   *)
(* resolve itself when a protocol answers from input.  resolve takes the   *)
(* mutex once to look and once to insert, input once to update and once to *)
(* insert: each critical section of CACHE is one action.                   *)
(*                                                                         *)
(* The cache is a Vec.  Here it is a set of entries that know their places *)
(* in the vector and in time: `pos` orders them as the vector does,        *)
(* `stamp` as their timestamps do, and `age` counts the runs of on_timer   *)
(* since then.  time::now() is read under the mutex: stamps are distinct.  *)
(*                                                                         *)
(* The network loses, repeats and delays messages.  Its other hosts answer *)
(* requests, ask for addresses themselves and change their hardware.       *)
(***************************************************************************)
EXTENDS Integers, FiniteSets

CONSTANTS Thread,         \* the threads that send
          Stack,          \* the thread of the stack, one of them
          IpAddr,         \* the addresses of the other hosts
          Unicast,        \* iface.unicast()
          EtherAddr,      \* the hardware addresses of the other hosts
          CACHE_SIZE,
          CACHE_TIMEOUT,  \* in runs of on_timer, which comes every second
          Target,         \* the addresses that each thread sends to
          Hardware,       \* the hardware addresses that each host has in turn
          MaxFlight,      \* bound on the messages on their way to the stack
          MaxFaults,      \* bound on lost and repeated messages and failed outputs
          NoAddr          \* ETHER_ADDR_ANY

Message == [spa : IpAddr, sha : EtherAddr, tpa : IpAddr \cup {Unicast}]

ASSUME ArpAssumption ==
  /\ Stack \in Thread
  /\ Unicast \notin IpAddr
  /\ Target \in [Thread -> SUBSET IpAddr]
  /\ Hardware \in [IpAddr -> SUBSET EtherAddr]
  /\ CACHE_SIZE \in Nat \ {0} /\ CACHE_TIMEOUT \in Nat \ {0}
  /\ MaxFlight \in Nat /\ MaxFaults \in Nat
  /\ NoAddr \notin EtherAddr

\* A CacheEntry.  CacheState::Static is never constructed.
Entry == [state : {"Incomplete", "Resolved"}, pa : IpAddr, ha : EtherAddr \cup {NoAddr},
          pos : Nat, stamp : Nat, age : Nat]

VARIABLES cache,    \* CACHE
          thr,      \* where each thread is in resolve, or the stack's in input
          asked,    \* the requests of the stack on their way
          flight,   \* the messages on their way to the stack
          faults,   \* how many faults there were
          heard     \* the hardware address last heard of every host, for the properties

vars == <<cache, thr, asked, flight, faults, heard>>

\* "insert": resolve found no entry; "request": it inserted one and has not asked yet;
\* "merge": input found no entry to update for msg.
Idle == [pc |-> "idle"]
ThreadState == {Idle} \cup [pc : {"insert", "request"}, pa : IpAddr] \cup [pc : {"merge"}, msg : Message]

TypeOK ==
  /\ cache \subseteq Entry /\ IsFiniteSet(cache) /\ Cardinality(cache) <= CACHE_SIZE
  /\ thr \in [Thread -> ThreadState]
  /\ asked \subseteq IpAddr
  /\ flight \subseteq Message
  /\ faults \in 0..MaxFaults
  /\ heard \in [IpAddr -> EtherAddr \cup {NoAddr}]

Init ==
  /\ cache = {}
  /\ thr = [t \in Thread |-> Idle]
  /\ asked = {}
  /\ flight = {}
  /\ faults = 0
  /\ heard = [pa \in IpAddr |-> NoAddr]
-----------------------------------------------------------------------------
(***************************************************************************)
(* The cache.                                                              *)
(***************************************************************************)
\* The entry that a loop over the vector finds for pa: the first, or none.
First(pa) == {e \in cache : e.pa = pa /\ \A f \in cache : f.pa = pa => e.pos <= f.pos}

Absent(pa) == \A e \in cache : e.pa # pa

\* Only the order of places and stamps matters: they are kept as small as possible.
Compacted(c) ==
  {[e EXCEPT !.pos = Cardinality({f \in c : f.pos < e.pos}),
             !.stamp = Cardinality({f \in c : f.stamp < e.stamp})] : e \in c}

\* Beyond every place and every stamp in the cache.
Last == CACHE_SIZE

\* Defect: the timestamp is left alone.
UpdatedKeepsStamp(e, ha) ==
  (cache \ {e}) \cup {[e EXCEPT !.ha = ha, !.state = "Resolved"]}

\* Defect: an entry that was incomplete stays so.
UpdatedKeepsState(e, ha) ==
  Compacted((cache \ {e}) \cup {[e EXCEPT !.ha = ha, !.stamp = Last, !.age = 0]})

\* cache_update, on the entry it finds.
Updated(e, ha) ==
  Compacted((cache \ {e}) \cup
            {[e EXCEPT !.ha = ha, !.state = "Resolved", !.stamp = Last, !.age = 0]})

\* The entry cache_insert drops when the vector is full.
Oldest(e) == \A f \in cache : e.stamp <= f.stamp

\* Defect: the test of the size is off by one.
InsertedOffByOne(pa, ha, state) ==
  LET new == [state |-> state, pa |-> pa, ha |-> ha, pos |-> Last + 1, stamp |-> Last + 1, age |-> 0]
  IN IF Cardinality(cache) <= CACHE_SIZE THEN {Compacted(cache \cup {new})}
     ELSE {Compacted((cache \ {e}) \cup {new}) : e \in {f \in cache : Oldest(f)}}

\* cache_insert: a push, or the place of the oldest.
Inserted(pa, ha, state) ==
  LET new(pos) == [state |-> state, pa |-> pa, ha |-> ha, pos |-> pos, stamp |-> Last, age |-> 0]
  IN IF Cardinality(cache) < CACHE_SIZE
     THEN {Compacted(cache \cup {new(Last)})}
     ELSE {Compacted((cache \ {e}) \cup {new(e.pos)}) : e \in {f \in cache : Oldest(f)}}

\* on_timer, a second after it ran last: everything is older, and what is too old goes.
Expired(e) == e.age + 1 >= CACHE_TIMEOUT

OnTimer ==
  /\ thr[Stack] = Idle
  /\ cache # {}
  /\ cache' = Compacted({[e EXCEPT !.age = @ + 1] : e \in {f \in cache : ~Expired(f)}})
  /\ UNCHANGED <<thr, asked, flight, faults, heard>>
-----------------------------------------------------------------------------
(***************************************************************************)
(* resolve.  When there is an entry, it returns what the entry says and    *)
(* changes nothing.                                                        *)
(***************************************************************************)
Resolve(t, pa) ==
  /\ thr[t] = Idle
  /\ Absent(pa)
  /\ thr' = [thr EXCEPT ![t] = [pc |-> "insert", pa |-> pa]]
  /\ UNCHANGED <<cache, asked, flight, faults, heard>>

ResolveInsert(t) ==
  /\ thr[t].pc = "insert"
  /\ cache' \in Inserted(thr[t].pa, NoAddr, "Incomplete")
  /\ thr' = [thr EXCEPT ![t].pc = "request"]
  /\ UNCHANGED <<asked, flight, faults, heard>>

Fault == faults < MaxFaults /\ faults' = faults + 1

\* request: the message leaves, or Device::output fails.
Request(t) ==
  /\ thr[t].pc = "request"
  /\ asked' = asked \cup {thr[t].pa}
  /\ thr' = [thr EXCEPT ![t] = Idle]
  /\ UNCHANGED <<cache, flight, faults, heard>>

RequestFails(t) ==
  /\ thr[t].pc = "request" /\ Fault
  /\ thr' = [thr EXCEPT ![t] = Idle]
  /\ UNCHANGED <<cache, asked, flight, heard>>
-----------------------------------------------------------------------------
(***************************************************************************)
(* input, for a message that passed the checks of its header.  The reply   *)
(* that it may send last changes no state of the stack.                    *)
(***************************************************************************)
\* Up to the test of `merge`.  The network may deliver the message again.
Input(msg) ==
  /\ thr[Stack] = Idle
  /\ msg \in flight
  /\ \/ flight' = flight \ {msg} /\ UNCHANGED faults
     \/ flight' = flight /\ Fault
  /\ heard' = [heard EXCEPT ![msg.spa] = msg.sha]
  /\ \/ /\ \E e \in First(msg.spa) : cache' = Updated(e, msg.sha)
        /\ UNCHANGED thr
     \/ /\ Absent(msg.spa) /\ msg.tpa = Unicast
        /\ thr' = [thr EXCEPT ![Stack] = [pc |-> "merge", msg |-> msg]]
        /\ UNCHANGED cache
     \/ /\ Absent(msg.spa) /\ msg.tpa # Unicast
        /\ UNCHANGED <<cache, thr>>
  /\ UNCHANGED asked

InputInsert ==
  LET msg == thr[Stack].msg IN
  /\ thr[Stack].pc = "merge"
  /\ cache' \in Inserted(msg.spa, msg.sha, "Resolved")
  /\ thr' = [thr EXCEPT ![Stack] = Idle]
  /\ UNCHANGED <<asked, flight, faults, heard>>
-----------------------------------------------------------------------------
(***************************************************************************)
(* The other hosts and the network.                                        *)
(***************************************************************************)
Deliver(pa, ha, tpa) ==
  LET msg == [spa |-> pa, sha |-> ha, tpa |-> tpa] IN
  /\ Cardinality(flight \cup {msg}) <= MaxFlight
  /\ flight' = flight \cup {msg}

OwnerReplies(pa) ==
  /\ pa \in asked
  /\ asked' = asked \ {pa}
  /\ \E ha \in Hardware[pa] : Deliver(pa, ha, Unicast)
  /\ UNCHANGED <<cache, thr, faults, heard>>

\* A host asks for the address of the stack or, by broadcast, of somebody else.
HostAsks(pa, ha, tpa) ==
  /\ Deliver(pa, ha, tpa)
  /\ UNCHANGED <<cache, thr, asked, faults, heard>>

Lose ==
  /\ Fault
  /\ \/ \E msg \in flight : flight' = flight \ {msg} /\ UNCHANGED asked
     \/ \E pa \in asked : asked' = asked \ {pa} /\ UNCHANGED flight
  /\ UNCHANGED <<cache, thr, heard>>
-----------------------------------------------------------------------------
ThreadStep(t) ==
  ResolveInsert(t) \/ Request(t) \/ RequestFails(t) \/ (t = Stack /\ InputInsert)

Next ==
  \/ OnTimer
  \/ \E t \in Thread : ThreadStep(t)
  \/ \E t \in Thread : \E pa \in Target[t] : Resolve(t, pa)
  \/ \E msg \in flight : Input(msg)
  \/ \E pa \in IpAddr : OwnerReplies(pa)
  \/ \E pa \in IpAddr, tpa \in IpAddr \cup {Unicast} : \E ha \in Hardware[pa] :
       pa # tpa /\ HostAsks(pa, ha, tpa)
  \/ Lose

Spec == Init /\ [][Next]_vars

\* Threads that can run do, and the timer with them; messages arrive, hosts answer, and the
\* applications do not stop sending to any address.
FairSpec ==
  /\ Spec
  /\ WF_vars(OnTimer)
  /\ \A t \in Thread : WF_vars(ThreadStep(t))
  /\ SF_vars(\E msg \in flight : Input(msg))
  /\ \A pa \in IpAddr : SF_vars(OwnerReplies(pa)) /\ SF_vars(\E t \in Thread : pa \in Target[t] /\ Resolve(t, pa))
-----------------------------------------------------------------------------
\* What resolve hands out for an address is what the stack heard last of it: of several
\* entries for one address, which the two mutex sections of resolve and input can leave
\* behind, the first is never older than the others.
FreshestAnswer ==
  \A pa \in IpAddr : \A e \in First(pa) : e.state = "Resolved" => e.ha = heard[pa]

\* A request or a reply that is lost leaves an Incomplete entry, for which resolve asks no
\* more; on_timer removes it, so that every address is asked for, and known, again.
KnownAgain ==
  \A pa \in IpAddr : []<>(\E e \in cache : e.pa = pa /\ e.state = "Resolved")
=============================================================================
