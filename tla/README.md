# Formal models of the DFS routing module

This directory holds TLA+ specifications of the program in `src/`: an ns-3
`internet` module (IPv4, IPv6, ARP, UDP, TCP, routing protocols) whose global
routing protocol has been extended with two *local failover* algorithms, a depth
first and a breadth first search that a packet carries out itself, with its state
in a packet tag. The specifications are checked with TLC on small instances and
the main results are proved with TLAPS for instances of any size.

The program is a discrete event simulation: one thread, one event at a time. What
interleaves are the *events*: packets that arrive, timers that expire, interfaces
that go up and down, calls of the simulation script. Every action of a model is
one handler, run to its end, as the simulator runs it.

Contents: [the system](#the-system) - [plan](#plan) - [the modules](#the-modules)
- [what the runs check](#what-the-runs-check) - [bounds](#bounds) -
[fairness](#fairness) - [what is proved](#what-is-proved) -
[disagreements](#where-the-code-and-its-documentation-disagree) -
[what is not modelled](#what-is-not-modelled).

## The system

Components, the state each keeps, its operations, and what makes it correct.

| Component | State | Operations | What is hard | What must hold |
|---|---|---|---|---|
| Local failover: `ipv4-global-routing.cc`, `MyTag.h` | per node: host and network routes, `vectorOfDownInterfaces`; per packet: the tag (detour flag, parent and current port of every node) | `RouteOutput`, `RouteInput` and its three algorithms, `NotifyInterfaceUp/Down`, `NotifyAdd/RemoveAddress` | the state of the search travels with the packet while interfaces change under it; routes, list of down interfaces and interfaces drift apart; indices from 0 and from 1 | the parents form a tree; a detour tries working ports only and finds a path if there is one; the packet meets its end; no index leaves the devices of the node |
| IPv4 forwarding plane: `ipv4-l3-protocol.cc`, `ipv4-interface.cc` | interfaces, TTL of the packet | `Receive`, `IpForward`, `SendRealOut`, `LocalDeliver`, `RouteInputError`, `SetUp`, `SetDown` | an interface goes down between two hops; several reasons to drop | best-effort forwarding, whatever the routing protocol |
| Fragmentation and reassembly: `ipv4-l3-protocol.cc` | identifications, fragment lists, timers | `DoFragmentation`, `ProcessFragment`, `HandleFragmentsTimeout`, `Fragments::*` | loss, order, duplicates, overlap; fragments of fragments; wrapped identifications; timer against last fragment | what is handed up is a datagram that was sent |
| ARP: `arp-cache.cc`, `arp-l3-protocol.cc` | per address: state, age, retries, queue; one timer per cache | `Lookup`, `Receive`, `HandleWaitReplyTimeout`, `Flush`, `Remove`, `MarkPermanent` | one timer for all entries; late answers; flushes with packets queued; the interface down when the answer comes | no packet lost unnoticed, none overtaken, none waits for ever; the assertions hold |
| List and static routing: `ipv4-list-routing.cc`, `ipv4-static-routing.cc` | ordered protocols; routes of the interfaces | `RouteInput/Output`, `NotifyInterfaceUp/Down` | which protocol answers first after an interface event | part of the forwarding plane's run |
| Global route manager: `global-route-manager-impl.cc`, `global-router-interface.cc`, `candidate-queue.cc` | LSAs, candidate queue, SPF tree | `DiscoverLSAs`, `SPFCalculate`, `SPFNext`, `CandidateQueue::Push/Pop/Reorder` | equal costs, transit networks, routers before networks | shortest paths; queue order |
| RIP, RIPng: `rip.cc`, `ripng.cc` | routing table, an expiry event per route, triggered and periodic update events | `HandleRequests`, `HandleResponses`, `InvalidateRoute`, `DeleteRoute`, `DoSendRouteUpdate`, `NotifyInterfaceUp/Down` | counting to infinity; invalidation, deletion and revival of one route race; updates lost or reordered | converges to shortest paths; an unreachable route is never used and is deleted; timers never hit a deleted route |
| Neighbour discovery: `ndisc-cache.cc`, `icmpv6-l4-protocol.cc` | per neighbour: state, queue, one timer with four functions; per address: tentative, preferred, invalid | `HandleNS`, `HandleNA`, `Lookup`, the four timeouts, `DoDAD`, `FunctionDadTimeout` | crossing solicitations; a timer of an older state; two hosts with one tentative address | the timer fits the state; no packet is stranded; at most one owner of an address |
| IPv6 forwarding and extensions: `ipv6-l3-protocol.cc`, `ipv6-extension.cc`, `ipv6-interface.cc` | fragment lists, prefixes, PMTU | `Receive`, `IpForward`, `Ipv6ExtensionFragment::Process` | as IPv4 fragmentation | as IPv4 fragmentation |
| TCP connection: `tcp-socket-base.cc`, `tcp-l4-protocol.cc` | state, sequence numbers, congestion state, six timers | `Connect`, `Listen`, `Close`, `ForwardUp` and the `Process*` handlers, `ReTxTimeout`, `PersistTimeout`, `LastAckTimeout`, ... | simultaneous close, lost and late segments, forked sockets, timers of an older state | both ends agree; a stream is delivered in order; a close ends |
| TCP buffers: `tcp-rx-buffer.cc`, `tcp-tx-buffer.cc` | map of segments, next sequence, FIN | `Add`, `Extract`, `SetFinSequence`, `CopyFromSequence`, `DiscardUpTo` | overlaps in every position, the window, wrap-around at 2^32 | a prefix of the stream, every byte once |
| Congestion control: `tcp-congestion-ops.cc` and variants; `rtt-estimator.cc` | window, threshold; mean and variation | `IncreaseWindow`, `GetSsThresh`, `Measurement` | retransmitted segments as samples | window at least one segment; Karn's rule |
| UDP, end points: `udp-socket-impl.cc`, `ipv4-end-point-demux.cc` | list of end points, ephemeral port | `Bind`, `Connect`, `Lookup`, `AllocateEphemeralPort` | exhausted ports; precedence of partial matches | at most one owner of a four-tuple |
| ICMP, raw and packet sockets, headers, helpers, NSC, bindings | none or little | | | see [what is not modelled](#what-is-not-modelled) |

How they interact. A socket asks the list routing protocol of its node for a route
(`RouteOutput`); static routing, with the higher priority, answers for networks the
node is attached to, global routing for the others. `Ipv4L3Protocol` fragments what
does not fit and hands packets to `Ipv4Interface::Send`, which lets ARP (or NDISC)
find the hardware address. On the next node `Ipv4L3Protocol::Receive` calls
`RouteInput`; its callbacks `IpForward`, `LocalDeliver` and `RouteInputError` run
before it returns. Interfaces tell the routing protocols of their state by
callbacks. Global routing tables are computed for all nodes at once, by the route
manager; the failover algorithms exist because *this is not done again* when an
interface goes down (the call is commented out in `NotifyInterfaceDown`).

Shared state is small and therefore dangerous: the tag (written by every node the
packet crosses), the list of down interfaces (written by callbacks, read by the
scan), the one timer of an ARP cache (shared by all its entries), the fragment
lists (shared by all datagrams that have one key).

`PROJECT.json` lists the hazards of the code line by line, each with the
properties that would notice it going wrong.

## Plan

In order of importance for this program:

1. **Done.** Failover routing with the forwarding plane, `Ipv4Topology`, `MyTag`,
   `Ipv4GlobalRouting`; the abstract `DatagramForwarding` it implements; proofs.
2. **Done.** `ArpCache` and its proofs; `Ipv4Fragmentation` and its proofs.
3. **Done.** `Rip`: routers that exchange their routes to one network, with lost
   updates and interfaces that flap.
4. **Done.** `NdiscCache`, neighbour unreachability detection, and its proofs.
5. **Done.** `TcpTransfer`: an established connection with both buffers and loss
   recovery.
6. `GlobalRouteManager`: SPF and candidate queue as functions against a
   reference distance; it replaces the constant `NextHops` of
   `Ipv4GlobalRouting` in a composition.
7. Opening and closing a TCP connection, its own address in duplicate address
   detection, `EndPointDemux`, `PmtuCache`, `RttHistory`.
8. **Done.** Proofs of the invariants of `Ipv4Fragmentation` and `Rip`, of the tree
   of parents, and of the breadth first action property; `FoldTheorems`.
9. **Done.** Proofs of the invariants of `TcpTransfer`, with the lemmas of
   `FoldTheorems`.
10. **Done.** `DfsDetour`: the depth first detour as a search, and the proof that it
    finds a path; `ByteStream`, the stream that `TcpTransfer` implements, and the proof
    that it does. Every invariant, action property and refinement that the passing runs
    check is now a theorem; liveness is model-checked.

## The modules

| Module | Role |
|---|---|
| `Ipv4Topology` | nodes, devices, links; assumptions on them |
| `MyTag` | the packet tag as a vector of bytes, with its index arithmetic |
| `Ipv4GlobalRouting` | the three algorithms, list and static routing, forwarding plane, events |
| `DatagramForwarding` | what any routing protocol must make of one datagram (abstract) |
| `Ipv4GlobalRouting_proofs` | theorems about the two modules above |
| `DfsDetour` | the depth first detour as a search: what disturbs it, where it began, what it finds |
| `DfsDetour_proofs` | the theorem that it finds a path |
| `MCIpv4GlobalRouting`, `MCDfsRouting` | the networks Diamond and Ring; `MCDfsRouting` adds `DfsDetour` to them |
| `ArpCache` | cache, lookups, replies, timer, queues |
| `ArpCache_proofs` | theorems about timers and retries, and about queues |
| `MCArpCache` | one or two neighbours |
| `Ipv4Fragmentation`, `Ipv4Fragmentation_proofs`, `MCIpv4Fragmentation` | fragmentation and reassembly |
| `FoldTheorems` | induction over the natural numbers and folds over sequences, for the proofs |
| `Rip`, `Rip_proofs`, `MCRip` | RIP routers and their routes to one network; a line and a pair of routers |
| `NdiscCache`, `NdiscCache_proofs`, `MCNdiscCache` | neighbour unreachability detection between the hosts of a link |
| `TcpTransfer`, `TcpTransfer_proofs`, `MCTcpTransfer` | a one-way transfer over an established TCP connection |
| `ByteStream` | what a connection promises its two applications (abstract); `TcpTransfer` implements it |

### Failover routing

State. `ifaceUp` is `Ipv4Interface::m_ifup` of every port, `downList` the vector of
down interfaces of every node (as a set: it is only searched), `routes` the devices
of the routes to `Dst` in each table. The packet is `status`, `at` (the port where
it arrives next), `ttl`, `tagged` and `tag`.

Actions. `Send` is a socket's `RouteOutput` and `Ipv4L3Protocol::Send`; `IpForward`,
`LocalDeliver`, `RouteInputError`, `NoRouteFound`, `DropAtDownInterface` are the
outcomes of `Receive`; `Abort` and `SendAborts` stand for a failed assertion or the
use of a null pointer, which end the program; `SetDown`, `SetUp`, `AddressChange`
are the events with all callbacks they make. `RouteInputDFS` and `RouteInputBFS`
are operators from (node, incoming device) to the set of possible decisions. The
scans over the devices are written as "the smallest usable device from `first` on";
the decisions for an index outside the node's devices are what `Node::GetDevice`
does with it: its assertion fails.

One packet at a time is enough: forwarding a packet changes no state another packet
reads. The reverse, events between any two hops of the packet, is all there.

Assumptions, and where they come from. Links are point to point, as in every script
the algorithms were written for; interfaces and devices correspond one to one; the
tag is long enough for the node ids (`FitsTag`: its accessors do not check, and a
write outside a vector is not a state of the program); fewer than 255 devices, as
`IndexOfNetDeviceInNode` returns a byte; `NextHops` stands for the route manager,
of which nothing is assumed but that it returns devices of the node (`BuildRoutes`
takes the physical ones), in the runs it is shortest paths. "The first route" of
`LookupGlobal` is the smallest device; with `RandomEcmpRouting` it is any.

The position of the loopback device matters: `DeviceOutOfRange` takes the *last*
device for it, which is right if the stack was installed after the other devices.
Properties about it assume `LoopbackIsLast`; the theorems `Refinement` and
`DfsDetourLoss` do not.

### ARP

`entry`, `age`, `retries`, `pending` are the fields of an entry, `timer` is
`m_waitReplyTimer`, `scheduled` the requests sent with jitter, `up` the interface.
`fate` and `sent` record what becomes of the packets; `asked` and `retimed` are
history. Time advances in ticks, not past a timer that is due nor a request that is
scheduled: the jitter (10 ms) is shorter than any timeout (1 s and more). Replies
may come at any time from anyone, which covers lost and repeated requests and
replies. Ages stop at `MaxAge`, beyond every timeout, where they no longer matter.
`Lookup` has one action per branch; its "possibly unreachable code" and the
assertion of `MarkWaitReply` are `LookupAborts`.

### Fragmentation

A fragment is a record: the datagram and the bytes it really carries (`dg`, `from`,
`size`) and what its header says (`offset`, `more`). The two differ when the code
gets an offset wrong, and a property can notice. `fragments[i]` is the list of
identification `i` in the order `AddFragment` keeps it; `IsEntire`, `GetPacket` and
the size computation of `GetPartialPacket` are folds over it. One source, one
destination, one protocol: the key of a reassembly is its identification, which is
counted modulo `IdModulus` (2^16 in the code). Links lose, delay, reorder and repeat;
the 30 s timer may expire at any moment. Datagrams have at most 65535 bytes, so that
16-bit ends of fragments do not overflow. The ICMP message of a timeout is left out.

### RIP

`routes[r]` is `m_routes` of router `r` restricted to one destination network, a list
because there can be several entries for it: the one of the time before an interface
went down and the one since. An entry has its event (`InvalidateRoute` or
`DeleteRoute`) and the time it has left; `next[r]` is `m_nextTriggeredUpdate`,
`updated` says whose unsolicited update of the period has been sent. A channel is a
queue from one router to another on one network.

Actions are the timers (`SendRouteRequest`, `SendTriggeredUpdate`,
`SendUnsolicitedRouteUpdate`, `InvalidateTimeout`, `DeleteRoute`), the handlers of what
is received, and the interface events. `HandleResponse` folds `HandleRte` over the
entries of a response, as the code's loop does; a response of several entries may
change one route several times. Time advances in periods of 30 s: `Tick` is enabled
when all updates of a period have been sent and received and no event is due, since
triggered updates take at most 5 s and messages less. Routes to different networks
do not influence each other, so one destination is enough.

### Neighbour discovery

`entry[<<h, n>>]` is the entry of host `h` for its neighbour `n`: its state, what
`m_nudTimer` will do, `m_nsRetransmit` and `m_waiting`. The one timer of an entry has
four functions; starting it for one ends the others. `asked` and `heard` are history.
The list may hold advertisements of the host itself, since an answer to a solicitation
is sent through the same `Lookup` as any packet: it is the element `Advertisement`.

`StartResolution`, `SendResolved` and `SendLater` are the outcomes of `Lookup` for a
packet; the four timeouts and the handlers of solicitations, advertisements (solicited
or not), router messages and redirections follow `icmpv6-l4-protocol.cc`. A host that
is asked without a source (duplicate address detection of another) answers all hosts:
`HandleDadProbe`. Addresses are link-local and hosts keep their link-layer address,
so the branches for a changed address do not occur, and nobody calls
`MarkPermanent`. A running timer may expire at any time, which includes every
relation of the delays.

### TCP

`snd` is the sending `TcpSocketBase` with its `TcpTxBuffer`, `rcv` the receiving one with
its `TcpRxBuffer`; a byte is its position in the stream, so that a property can see a
byte that is misplaced. The packets of the send buffer are flattened to bytes; the
receive buffer keeps its blocks, for it is their overlaps that are hard: `Overlapped`
is the body of the loop of `Add`, folded over the blocks in order. `PendingData` is the
loop of `SendPendingData` as a recursive function of the next sequence number, with
silly window avoidance and Nagle's test. `ReceivedAck` has its branches for duplicate
and new acknowledgments in `OPEN`, `DISORDER`, `RECOVERY` and `LOSS`.

What is abstracted. The congestion window is any size of at least a segment at any
time, whatever algorithm computes it. The advertised window is constant, because
`m_rWnd` is set when the connection is made and the code announces the maximum size of
the receive buffer, not what is free. `m_dupAckCount` is kept as far as it decides
something. Sequence numbers do not wrap. Segments and acknowledgments are sets: one
that is sent again while a copy is under way is one, and what exceeds `MaxInFlight`
is lost.

Assumptions. A window below one segment is never used (silly window avoidance), so
such a connection stalls by configuration; so there is a window, and it lies between a
segment and the size of the receive buffer. With a single retry, a partial
acknowledgment drops the connection in `DoRetransmit` and `ReceivedAck` goes on to use
it; at least two are assumed. Opening and closing the connection are left out.

## What the runs check

| Run | Instance | Question |
|---|---|---|
| `dfs_diamond` | Diamond, depth first, 4 events | Does a detour stay on links, keep its parents a tree, abort and get lost only for the known reasons, end, and find a path if it begins at the first router and nothing disturbs it? |
| `bfs_default` | Ring, breadth first (the default flags), 4 events | What can happen before the first working route is met: are aborts of a detour always preceded by a step onto the loopback device? |
| `global_routing` | Diamond with a node that does not forward, random ECMP, rebuilt tables | Does plain routing implement `DatagramForwarding` without aborting, and does every packet end? |
| `bfs_working_route` | Diamond, no events; violated | see [below](#where-the-code-and-its-documentation-disagree) |
| `arp_two_neighbours` | two addresses of which one may become permanent, four packets, queue of two | Are packets conserved and in order, do assertions hold, is nobody given up early, does every queue drain, with one timer for two entries? |
| `arp_shorter_timeout` | one address; violated | see below |
| `fragments` | datagrams of 6 and 7 bytes, links of 4 and 2, one identification for both, one duplicate | Is what is handed up what was sent; is nothing held back; do timers and lists match? |
| `fragments_refragmented` | one datagram of 7 bytes; violated | see below |
| `rip` | three routers in a line, both ends attached to the destination; two interface events, one lost update | Does every route end or get refreshed, is a direct route preferred, is no metric too good to be true, do all routers come to shortest paths? |
| `rip_dead_network` | two routers, one interface event; violated | see below |
| `ndisc` | two hosts that send a packet to each other, one event that nobody asked for | Are packets conserved, stranded only by certain messages, neighbours given up only after all solicitations; does every doubt end? |
| `tcp` | four writes of a byte, segments of three, buffers of three, two segments under way | Do the sockets implement a stream of bytes, read once and in order, is the receive buffer kept within its size, does the transfer end? |

What they show. The depth first algorithm keeps what its design promises: parents
form a tree rooted at the node of the failure, ports are tried in order and never
twice, and a packet whose detour begins at the first router reaches `Dst` if links
failed as links, nothing changes meanwhile and a path is left (`DetourFindsPath`). Its
weakness is precise. A detour that returns to a node the packet had crossed *before*
the detour finds no parent there and a port already set: the ports below it are not
tried any more, and when the later ones are down it asks for device 0, which ends the
program, although a path may be left. `DfsAbortsOnlyWithoutParent` says that this and a
packet without a route are the only such cases. Diamond has no path that is missed in
this way, but a network of seven nodes has: a router has its host at port 1, a longer
path behind port 2 and the next router behind port 3; the link from there onwards has
failed, so the detour begins at that next router and comes back through its port 1. The
first router finds port 3 in the tag, its last, and the path behind port 2 is not
searched. So `DetourFindsPath` asks that no node was crossed before, and that port 1 of
the node where the detour begins is up, since the first port of a detour is taken
without a look at its state. A packet is lost to a
down port during a detour only on the way back to its parent. The breadth first
algorithm, which is the default, has two faults: working routes crash (below), and
the packet leaves on the device *after* the one that was checked.

ARP: with the timeout left alone, the "unreachable" code is unreachable, although one
timer serves all entries; an entry that begins to wait while the timer runs gets its
first retry early but is never given up before all its requests and a whole timeout
after the last. Order and conservation hold across flushes, removals, lost answers
and interfaces that go down. A queue is stranded only by `MarkPermanent`, which
leaves it where it is: the exception in `QueueDrains`.

Fragmentation: reassembly is right for all orders, losses and duplicates, with
overlaps, as long as headers are right and the identification is unique; if two
datagrams share one, bytes are mixed but never shifted. The size that `GetPartialPacket`
computes for the message of a timeout is another matter. It subtracts without the
comparison that `GetPacket` makes, and wraps around when a fragment ends before
what has been put together. Two things lead there: a last fragment that was cut again
and starts from offset 0, and fragments of two datagrams in one list.
`SizeWrapsOnlyIfMixed` says that nothing else does. The run meets the first (7 bytes:
[0,2) and [2,4), then a displaced [2,3)). The second alone takes other sizes (say 3 and 6
bytes), but the theorem covers it.

RIP: with poisoned reverse and two interface events, all routers end up with the
distances of the network that is left. Two things seen on the way. An entry that
waits for deletion is advertised as unreachable and may be taken over by the other
router's advertisement of the same (below); the entry is then valid again with a
metric that means unreachable, and `Converges` counts it as unreachable. And the replies to a
request are sent to a port of a socket that has no receive callback
(`rip.cc:160-171` binds the sending socket, `rip.cc:850` answers to it), so a router that
comes up learns its routes from periodic and triggered updates only.

Neighbour discovery: packets can be stranded, in three ways that
`OnlyNewsStrandsPackets` names. Solicitations that cross leave the entry `DELAY` with
packets in its list, and the answer that then comes sends none; an unsolicited
advertisement stops the timer; a router advertisement marks the entry reachable before
the code asks whether it was being probed. They stay until the neighbour is probed
again, and the run shows that there is no fourth way and that no packet is sent twice.

TCP: the loop of `Add` leaves every byte in one block and in its place, for every
overlap. The receive window is enforced by the receiver from its first *block* on, not
at all when it has none; the buffer stays within its size because the sender keeps to
the window. Limited transmit does not: it sends a segment for every duplicate
acknowledgment (`tcp-socket-base.cc:1465`, `:1494`), and nothing then bounds what the
buffer holds but its look at the first block: less than twice `m_maxBuffer`. The property
states both bounds; in the run, with a buffer of three bytes and segments that hold no more, the
first is never exceeded, and only the theorem `HeldCorrect` speaks of larger ones. `CarriesStream`
looks at both ends together, as their applications see them: the steps of the sockets are
those of `ByteStream` (below). It also says what becomes of a connection whose
retries are used up. `DoRetransmit` deallocates the end point and leaves `m_state` as it
was, so `Send` goes on to take bytes into the buffer and to return their number, though
nothing is sent any more: they never arrive. The run has such writes.

Each property has a mutant in `PROJECT.json`: a plausible error in the code, written
as an alternative definition beside the right one ("mutation of ..."), with which
the property fails.

## Bounds

- Networks. Diamond is the smallest in which a detour has two disjoint paths, a node
  can be crossed before the detour, and a detour can visit, return from and re-enter
  nodes; Ring has a host on every switch, so that a breadth first detour meets
  working and broken ports at each. Six nodes.
- `MaxEvents = 4` interface events: two links can fail at both ends, or one fail,
  recover and fail. The fault of the depth first algorithm needs two events, that of
  the breadth first one.
- `InitialTtl = 16` for the depth first run: a search of the whole diamond does not
  need as many, so TTL does not hide a loop; 8 in the other runs, where the loops
  there are end at the TTL, as they do in the code.
- RIP: the line with both ends attached is a cycle of three, the smallest network in
  which a router has a second way and news can travel around; `LinkDown` of 4 is the
  distance plus two, so that counting to infinity happens and is not cut off at once.
  `TimeoutDelay` 3 and `GarbageCollectionDelay` 2 keep the order 180 s > 120 s > 30 s.
- NDISC: one multicast solicitation and two unicast ones separate the first, the last
  and the limit; a list of two holds a packet and an advertisement, and is full.
- TCP: single bytes with segments and a window of three make every relation of a
  segment to a block: a retransmission of three covers segments of one and two.
  A threshold of two duplicates and two segments under way reach fast retransmit, partial
  acknowledgments, timeouts in recovery, and the use of all retries.
- ARP: four packets, so that a queue of two is full with one more to come and
  one for another address; timeouts of 1 to 3 ticks keep their order; `MaxRetries` of
  1 or 2 distinguishes the first, a middle and the last request.
- Fragmentation: `Align = 2` for 8; sizes 6 and 7 give a last fragment that is full
  and one that is not, one that is fragmented again and one that is not; `IdModulus
  = 1` makes the two datagrams collide; one duplicate gives every kind of overlap
  that the fragments' sizes allow.

All runs set `CHECK_DEADLOCK FALSE`: the system may stop, when the program has
aborted or when nothing is left to happen.

## Fairness

The simulator runs every event it has scheduled. A frame on a link is such an event:
`WF(Receive)`. So is the ARP timer with the ticks that lead to it and the jittered
requests: `WF(Simulate)`; each timer of a reassembly and each timer of a neighbour: `WF`
of its handler; the events of a RIP network, of which the next one is run:
`WF(Timers \/ Receive \/ Tick)`; the pending-data event and the retransmission timer of
a TCP sender: `WF` of each. Nothing is assumed of what others do: no host has to answer, no interface has to come up, no
link has to deliver, no script has to send.

## What is proved

With TLAPS, for all values of the constants that satisfy the named assumptions
(`NodeAssumption`, `LinkAssumption`, `RoutingAssumption`, `ArpAssumption`,
`FragmentationAssumption`, `RipAssumption`, `NdiscAssumption`, `TcpAssumption`); TLC evaluates those in every run.

`Ipv4GlobalRouting_proofs`, for any network, TTL and sequence of events:

- `TypeCorrect`: `[]TypeOK`, for all algorithms. Inductive invariant `TypeInv`, which
  adds to `TypeOK` that bytes of the tag are devices.
- `DetourStaysOnLinks`: `[]TagNamesLinks` for the depth first algorithm. `DfsInv`
  strengthens it: the packet is at a physical port and the bytes of every node are 0
  or physical ports; `DfsDecision` follows a decision through the scan.
- `DfsAborts`: `[]DfsAbortsOnlyWithoutParent`. A node with a parent can always return
  to it, so only a node without one can ask for device 0.
- `DfsDetourLoss`: the action property, from the invariant that every down port is in
  the list of its node.
- `Refinement`: `Spec => ForwardsDatagrams`, for all algorithms and wherever the
  loopback device is. Each action maps to a step of `DatagramForwarding` or a stutter.
- `ParentsCorrect` (`[]ParentsFormTree`) and `ParentFixedCorrect` (`ParentFixed`), for
  all algorithms. The tree alone is not inductive: a node that the packet enters must
  not become the parent of its own ancestor. `TreeInv` adds why it cannot. A node adopts
  a parent only if its curr byte is 0, every node with a parent has its curr byte set,
  and so has the node from which the packet comes, hence every parent: the new node is
  a leaf (`TreeGrows`). The lemma `AnyDecision` says of both algorithms at once what a
  packet that is forwarded may carry (`Leaves`): its tag as it was but for the curr byte of the
  node, with a parent adopted by a node that had no curr byte, or with the detour begun.
- `BfsAborts` (`BfsDetourAbortsOnlyAfterLoopback`) from `BfsInv`: as `RouteInputBFS` never
  forwards a packet by plain routing, a node with a curr byte also has a parent, and a
  packet on a detour has a tag.

`DfsDetour_proofs`, for any network and any failed links, with the depth first algorithm and
a socket that asks for its route with the packet:

- `DetourFindsPathCorrect` (`[]DetourFindsPath`): a detour that nothing disturbs and that
  begins at the first router delivers the packet, or `Dst` is cut off. The detour is
  Tarry's traversal of a graph, its state spread over the tag: a node leaves by each of
  its working ports once, in order, by its parent last. `SearchInv` says so in numbers,
  which are functions of the tag. `Used(n)` are the ports through which the packet has
  left `n`, `Heard(n)` those through which it has come. The packet has left every node as
  often as it has come, but for the node where it is and the origin (`Balanced`); every
  node but the origin has heard its parent; the parents lead to the origin; and TTL and
  crossings add up to `InitialTtl`. When the origin has used up its ports, balance and
  the tree make every visited node use up its own, parent included, so the visited
  nodes are closed under working links and do not hold `Dst`: it is cut off. Until then there is a
  next port or a parent, hence no abort, and no working port is used twice, so a TTL above
  the number of ports does not run out.
- The hypotheses are those of the property, explained above; `FirstHop` shows that "no node
  crossed before" means that the detour began at the first router, and `DownRecorded`
  that every port that is down is known to its node.

`ArpCache_proofs`, for any number of addresses, packets and retries, any timeouts:

- `TypeCorrect`; `Unreachable` (`[]AbortsOnlyAfterNewTimeout`); `GivenUpLate`
  (`GivenUpOnlyAfterRetries`). The inductive invariant is `WaitInv`: only entries that
  wait or were made permanent have queues, only entries that wait have been retried,
  an entry has been asked for once more than it was retried, and, unless the timeout
  was changed, the age of an entry that waits plus what the timer has left is at
  most the timeout, *exactly* the timeout once it has been retried. The last part is
  why one timer can serve all.

- `PacketsCorrect` (`[]PacketsConserved`) from `Conserved`, and `OrderCorrect`
  (`[]SentInOrder`) from `OrderInv`: packets not yet handed over come last, what was sent
  came before what waits, queue and sent packets are in order.

`Ipv4Fragmentation_proofs`, for any sizes, MTUs and number of links:

- `InPlaceCorrect` (`[]FragmentsInPlace`) from `SoundInv`: everything on a link or in a
  list is a piece of its datagram whose header is right, unless displaced.
- `TimersCorrect` (`[]TimerPerReassembly`) and `TypeCorrect`.
- `IntactCorrect` (`[]DeliveredIntact`). `CollectInv` adds to `SoundInv` what the loops of
  `Fragments` rely on: the list is in the order of its offsets and `m_moreFragment` is that
  of its last fragment (`OrderInv`), fragments are kept under the identification of
  their datagram (`IdInv`), and a list that is entire is not kept. From a list in order
  that `IsEntire` accepts, `GetPacket` takes every byte once: position by position along
  the fold, what has been put together is the datagram up to the largest end so far.
- `HeldBackCorrect` (`[]NothingHeldBack`). `CoverInv`: every byte of a datagram that is
  alone under its identification and of which nothing was lost is under way, collected,
  or handed up. When nothing is under way the list covers the datagram, so it would be
  entire, and an entire list is not kept. `ApartInv` says that two fragments share no
  byte unless one is a repetition of the other: in a list in order, the fragment before
  then ends where the next one begins, which is what `IsEntire` asks.
- `SizeWrapsCorrect` (`[]SizeWrapsOnlyIfMixed`), also from `ApartInv`: what has been put
  together ends where some earlier fragment of the list ends (`SetInduction` along the
  fold of `GetPartialPacket`), and in a list of one datagram whose headers are right no
  later one ends before that.

`TcpTransfer_proofs`, for any writes, sizes of reads, segments, windows and buffers, any
retransmission and delayed acknowledgment parameters, with and without limited transmit
and Nagle's algorithm, and any losses, repetitions and reorderings:

- `InvCorrect` (`[]Inv`), and from it `TypeCorrect`, `StreamCorrect` (`[]StreamInOrder`) and
  `HeldCorrect` (`[]HeldWithinBuffer`). `Inv` has four parts. `SenderInv`: the send buffer is
  what was written from its head on, and `m_nextTxSequence` lies in it. `BufferInv`: each
  block of the receive buffer is a run of the stream, blocks do not overlap, none begins
  before the first unread byte, there is no gap from there to `m_nextRxSeq`, no block
  lies across `m_nextRxSeq`, none holds a byte beyond `m_highTxMark`, and `m_size` is the
  number of bytes held. `NetworkInv`: a segment carries bytes up to `m_highTxMark`,
  which are those that were sent, and no acknowledgment goes beyond `m_nextRxSeq`. `Windowed` is explained below.
- The loop of `Add` is followed block by block. `TrimmedUpTo` says what is true after
  the blocks up to `k`: what is left of the segment is new and in the window, and each
  of those blocks is either inside of it and erased, or beside it. After the
  last block the part can be stored without an overlap, and the three assignments to
  `m_size` (`ErasedCounts`) and the walk to the next gap
  (`ContiguousReached`) fit. `Gathered` does the same for the bytes that `Extract` puts together.
- That `m_size` stays within `m_maxBuffer` needs both ends. Without limited transmit
  every segment ends within the window of `m_nextRxSeq`. With it nothing bounds what is
  sent, and `Add` looks at the first *block* only: `Windowed` says that a block begins
  within the window of `m_nextRxSeq`, or of a byte that is held and itself in that
  window, hence before twice the window of the first unread byte. The proof covers buffers of
  every size, where the run's are too small to come near the second bound.
- `StreamRefinement` (`Spec => CarriesStream`): the sockets implement `ByteStream`. Mapped are
  the end of the send buffer, `m_highTxMark`, the head of the buffer, `m_nextRxSeq`, the
  bytes read, and whether the connection has been given up. `Send` is `Write`, before and
  after that; what is sent for the first time is `Transmit`; a segment is `Accept` or
  nothing; an acknowledgment of new data is `Release`, and a partial one may send more
  in the same step; `Recv` is `Read`; the last retransmission is `GiveUp`; everything else, timers,
  retransmissions, duplicates, acknowledgments sent, is a stutter. `Inv` gives the order of
  the marks: what is accepted was sent. One more invariant is needed, `RetryInv`. A partial
  acknowledgment discards bytes and retransmits, and were that the last retry, one step would both
  release and give up, and go on to use a dropped connection. It is not: recovery begins
  with all retries left and uses one before the next acknowledgment of new data renews
  them, and `TcpAssumption` gives at least two. And a connection that has been given up runs
  no retransmission timer, so it sends nothing more.

`Rip_proofs`, for any routers, networks, metrics, delays, split-horizon strategy, and
any pattern of losses and interface events:

- `TypeCorrect`, `RoutesExpireCorrect` (`[]RoutesExpire`), `NeverTooGoodCorrect`
  (`[]NeverTooGood`), all from `GoodInv`: every entry of a table has the event that its
  state calls for, and its metric, like every metric in a message, is at most infinity and at
  least each lower bound `h` of the distances. The last part is preserved because a lower
  bound grows by at most the metric of the link that a response crosses, which is what
  `HandleResponses` adds.
- `DirectFirstCorrect` (`[]DirectFirst`) from `OwnInv`: the last entry of a router whose
  interface to the network is up is its own network route, with metric 1, valid and without
  an event. `Lookup` takes the last valid entry; what is received cannot change this one
  (no response is better, it has no neighbour as gateway, and no event that could be half over), as long as link
  metrics are positive, which the property states.

`FoldTheorems` carries the arguments about loops. The library's induction theorems take
an operator as parameter, which the provers cannot instantiate; here a property is a
*set*: `SetInduction` (a set of numbers with 0 and all successors is `Nat`) follows from
the well-foundedness of `<`, and `FoldTrace` and `FoldIn` from it: a fold over a sequence,
its step given as a function of the position and the value so far, passes through a
sequence of values in the given set, each computed from the one before.
`DownwardInduction` is its counterpart for the recursive functions of `TcpTransfer`, which
climb to a bound.

`NdiscCache_proofs`, for any hosts, packets and numbers of solicitations. Every action
but `Flush` changes one entry, so the inductive invariant `NudInv` is a predicate of a
single entry, `EntryOK`, and there is one lemma for each operation on an entry. It adds
to the types that the timer fits the state, that the counter and the history of
solicitations agree as long as a timer runs that looks at it, and when a list may be
non-empty.

- `TypeCorrect`; `RetransmitFindsPacket` (`[]RetransmitHasPacket`); `StrandedByNews`
  (`[]OnlyNewsStrandsPackets`); `GivenUpLate` (`GivenUpOnlyAfterSolicits`).
- `PacketsCorrect` (`[]PacketsConserved`), inductive together with `NudInv`: of a list it
  needs only at how many places a packet is (`At`, `AddAt`).

### What is only model-checked

Liveness under fairness is out of the prover's reach: `PacketMeetsItsEnd`, `QueueDrains`,
`ReassemblyEnds`, `Converges`, `DoubtEnds`, `TransferEnds`. Everything else that the passing
runs check is a theorem. The four violated properties are refuted by TLC.

## Where the code and its documentation disagree

Each is a run that TLC ends with a counterexample.

- `bfs_working_route`: `RouteInputBFS` sets the output device only when the route does
  *not* work (lines 969-974) and passes a null pointer on otherwise (line 998). The
  global routing test expects all packets over working routes to be delivered.
- `arp_shorter_timeout`: `SetWaitReplyTimeout` changes what `IsExpired` compares with
  but not the running timer, so `Lookup` reaches the code it calls possibly
  unreachable.
- `fragments_refragmented`: `DoFragmentation` drops the original offset of a *last*
  fragment when it cuts it again (lines 1574-1578); its pieces claim the start of the
  datagram, and a part is handed up as the whole, against the comment on `GetPacket`.
- `rip_dead_network`: `HandleResponses` takes over a route of the same metric late in the
  life of an entry, without asking whether that metric is 16 (`rip.cc:1013-1027`); a dead
  route becomes valid and `Lookup` returns it, against `doc/routing-overview.rst:351-352`.

Seen while reading, certain from the text and not worth a run:

- `RouteOutput` may be called with a null packet (`ipv4-routing-protocol.h:82`, and
  `TcpSocketBase::SetupEndpoint` does); both failover algorithms dereference it. It is
  the action `SendAborts`.
- `tcp-rx-buffer.h:135` calls `m_maxBuffer` an upper bound of the bytes in the buffer; with
  limited transmit the code does not keep it. What it keeps is the bound of the theorem
  `HeldCorrect`; in the run `tcp` the buffer stays within its size.
- `GetPartialPacket` (`ipv4-l3-protocol.cc:1809-1815`) asks for a fragment of a size that
  has wrapped around, in the two cases above. What comes of it depends on `Packet::CreateFragment`, which is
  not in this repository; the timeout's other effects do not depend on it. The model has
  the size up to the first wrap.
- A socket whose retries are used up still takes what its application writes
  (`tcp-socket-base.cc:792-816` ask for `m_state` only) and returns their number, though it sends nothing more.
- The persist timer of TCP cannot start in an established transfer: the window that is
  advertised never closes.
- `RespondToInterfaceEvents` has no effect on interface events: the code is commented
  out. The model has it so.
- The comment on a full ARP queue (`arp-cache.cc:409`) says the last packet is replaced;
  the new one is dropped.
- `SendRealOut` fragments packets whose header says not to.
- With an MTU below 28 bytes the loop of `DoFragmentation` does not end; the assumption
  on `Room` excludes it.

## What is not modelled

- Multicast, broadcast, raw sockets and checksums in the forwarding plane: no decision
  of the failover algorithms depends on them.
- Header formats and serialisation: pure layout.
- NSC glue, Python bindings, examples, helpers: no logic of their own, or none that
  is in this repository.
- The congestion control variants: formulas in floating point. `TcpTransfer` lets the
  window be anything they may compute.
- Of RIP: addresses and masks (routes of one network only), requests for single routes,
  excluded interfaces, the default route, and RIPng.
- Of neighbour discovery: duplicate address detection of a host's own addresses, changes
  of link-layer addresses, the routes a redirection makes.
- Of TCP: opening and closing, both directions at once, persist probes, window scaling,
  timestamps, ECN, sequence numbers that wrap.
- Components marked as planned in `PROJECT.json`.
