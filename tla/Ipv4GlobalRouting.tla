------------------------- MODULE Ipv4GlobalRouting -------------------------
(***************************************************************************)
(* The forwarding plane of src/model/ipv4-global-routing.cc: one unicast   *)
(* packet at a time travels from Src to Dst through nodes that run the     *)
(* list routing protocol with static routing first and global routing      *)
(* second, while interfaces are taken down and up under it.                *)
(*                                                                         *)
(* Algorithm chooses, as enableDFS and enableBFS do at compile time,       *)
(* between plain global routing and the two local failover algorithms.     *)
(* Forwarding of one packet touches no state of another packet, so one     *)
(* packet at a time, against every interleaving of interface events, shows *)
(* everything that many packets would.                                     *)
(***************************************************************************)
EXTENDS Ipv4Topology, MyTag

CONSTANTS
    Src, Dst,            \* the nodes of the sending and the receiving socket
    DstPort,             \* the port of Dst whose address the packet carries
    Forwarding,          \* the nodes whose interfaces forward (IsForwarding)
    NextHops(_, _),      \* NextHops(up, n): devices of the routes to Dst that the
                         \* global route manager computes for n when the ports
                         \* in up are up
    Algorithm,           \* "global", "dfs", "bfs" or "both"
    RandomEcmpRouting, RespondToInterfaceEvents,    \* the two attributes
    InitialTtl,          \* Ipv4L3Protocol::m_defaultTtl or the socket's
    Query,               \* what the socket passes to RouteOutput
    MaxEvents            \* bound on the interface and address events

ASSUME RoutingAssumption ==
    /\ Src \in Node /\ Dst \in Node /\ Src # Dst
    /\ DstPort \in PhysicalPort /\ DstPort[1] = Dst
    /\ Forwarding \subseteq Node
    /\ \A n \in Node : FitsTag(n)
    /\ NumberOfSwitches \in Nat
    /\ Algorithm \in {"global", "dfs", "bfs", "both"}
    /\ RandomEcmpRouting \in BOOLEAN /\ RespondToInterfaceEvents \in BOOLEAN
    /\ InitialTtl \in 1 .. 255
    /\ Query \subseteq {"packet", "null"}
    /\ MaxEvents \in Nat

VARIABLES
    ifaceUp,    \* the ports whose Ipv4Interface is up
    downList,   \* downList[n]: vectorOfDownInterfaces of n, as a set of devices
    routes,     \* routes[n]: devices of the routes to Dst in n's global table
    status,     \* what has become of the packet
    at,         \* the port at which the packet arrives next
    ttl,        \* the TTL of its header
    tagged,     \* whether it carries a MyTag
    tag,        \* the MyTag, EmptyTag if there is none
    events      \* events so far

net    == <<ifaceUp, downList, routes, events>>
packet == <<status, at, ttl, tagged, tag>>
vars   == <<ifaceUp, downList, routes, status, at, ttl, tagged, tag, events>>

(* "flight": on a link.  The other outcomes are final: "delivered" to the  *)
(* socket, one of the drop traces of Ipv4L3Protocol, or "aborted": an      *)
(* assertion of the simulator failed or a null pointer was dereferenced,   *)
(* and the program is gone.                                                *)
Outcome == {"delivered", "noRoute", "routeError", "ifaceDown", "ttlExpired", "aborted"}

Status == {"none", "flight"} \cup Outcome

TypeOK ==
    /\ ifaceUp \subseteq Port
    /\ downList \in [Node -> SUBSET (1 .. 254)]
    /\ routes \in [Node -> SUBSET (1 .. 254)]
    /\ \A n \in Node : downList[n] \cup routes[n] \subseteq Physical(n)
    /\ status \in Status
    /\ at \in Port
    /\ ttl \in 0 .. InitialTtl
    /\ tagged \in BOOLEAN
    /\ tag \in Tag
    /\ events \in 0 .. MaxEvents

(* DeleteGlobalRoutes, BuildGlobalRoutingDatabase, InitializeRoutes: the   *)
(* tables of all nodes, from the interfaces that are up.                   *)
BuildRoutes(up) == [n \in Node |-> NextHops(up, n) \cap Physical(n)]

Init ==
    /\ ifaceUp = Port
    /\ downList = [n \in Node |-> {}]
    /\ routes = BuildRoutes(Port)
    /\ status = "none"
    /\ at = DstPort
    /\ ttl = 0
    /\ tagged = FALSE
    /\ tag = EmptyTag
    /\ events = 0

-----------------------------------------------------------------------------
(* Routing decisions.  A decision is a record: the device to send on and   *)
(* the tag the packet leaves with.  GetDevicePlusOne hands any index to    *)
(* Node::GetDevice, which asserts that the device exists: an index outside *)
(* Device(n), such as the parent 0 of a node that has none, aborts the     *)
(* program, and so does the use of a null pointer, written Null.           *)

Null == -1

NoRoute == -2    \* RouteInput returns false

Decision(out, t) == [out |-> out, tag |-> t]

Smallest(S) == CHOOSE i \in S : \A j \in S : i <= j

(* LookupGlobal: the first of the routes to Dst or, with random ECMP, any. *)
LookupGlobal(n) ==
    IF RandomEcmpRouting \/ routes[n] = {} THEN routes[n] ELSE {Smallest(routes[n])}

(* The network route to Dst that Ipv4StaticRouting keeps for the interface *)
(* that shares a link with it: added by NotifyInterfaceUp, removed by      *)
(* NotifyInterfaceDown.                                                    *)
LookupStatic(n) == {d \in Device(n) : Link[<<n, d>>] = DstPort /\ <<n, d>> \in ifaceUp}

(* RouteNotWorking, NetDeviceNotWorking: the interface was once down.      *)
NotWorking(n, d) == d \in downList[n]

NormalRouting == PacketStart(tag) = 0

(* Mutations of Usable: the down interfaces are not looked up; the check   *)
(* for the end of the node's devices is off by one.                        *)
UsableUnchecked(n, first, parent) == (first .. NDevices[n] - 1) \ {parent}
UsableOneMore(n, first, parent) ==
    {d \in first .. NDevices[n] : ~ NotWorking(n, d) /\ d # parent}

(* The devices a scan from device first on can settle on.  The last device *)
(* of the node is never one: DeviceOutOfRange is GetNDevices() <= index.   *)
Usable(n, first, parent) ==
    {d \in first .. NDevices[n] - 1 : ~ NotWorking(n, d) /\ d # parent}

(* The scan of both algorithms: advance from first while the device is not *)
(* working or is the parent; past the end, go back to the parent.  Asking  *)
(* for a first device beyond the last one aborts.                          *)
Scan(n, first, parent) ==
    IF first > NDevices[n] THEN Null
    ELSE LET usable == Usable(n, first, parent)
         IN  IF usable = {} THEN parent ELSE Smallest(usable)

(* ActualSend records the device the packet is sent on in the tag.         *)
ActualSend(n, out, t) ==
    Decision(out, IF out \in Device(n) THEN SetCurrValue(t, n, out) ELSE t)

(* SetPacketStart and parent 1: the node at which the detour begins.       *)
StartDetour(n) == SetParentValue(SetPacketStart(tag), n, 1)

DfsNormal(n) ==
    IF LookupGlobal(n) = {} THEN {Decision(Null, tag)}
    ELSE {IF NotWorking(n, d) THEN ActualSend(n, 1, StartDetour(n))
                              ELSE ActualSend(n, d, tag) : d \in LookupGlobal(n)}

(* Mutations of DfsTag: the parent is never recorded; it is recorded at    *)
(* every visit.                                                            *)
DfsTagUnset(n, in) == tag
DfsTagEveryVisit(n, in) == SetParentValue(tag, n, in)

(* The tag after the "first visit" branch of a detoured packet.            *)
DfsTag(n, in) == IF CurrVal(tag, n) = 0 THEN SetParentValue(tag, n, in) ELSE tag

(* Mutation of DfsCustom: the scan starts at the port used last.           *)
DfsCustomRepeats(n, in) ==
    LET t == DfsTag(n, in)
    IN  {ActualSend(n, Scan(n, CurrVal(t, n), ParVal(t, n)), t)}

DfsCustom(n, in) ==
    LET t == DfsTag(n, in)
    IN  {ActualSend(n, Scan(n, CurrVal(t, n) + 1, ParVal(t, n)), t)}

RouteInputDFS(n, in) == IF NormalRouting THEN DfsNormal(n) ELSE DfsCustom(n, in)

(* BFSPacketSend indexes the devices from 0 with an index counted from 1:  *)
(* the packet leaves on the device after the one that was chosen.          *)
BFSPacketSend(n, chosen, t) ==
    ActualSend(n, IF chosen \in Device(n) THEN chosen + 1 ELSE Null, t)

(* A route that works leaves the output device a null pointer.             *)
BfsNormal(n) ==
    IF LookupGlobal(n) = {} THEN {Decision(Null, tag)}
    ELSE {IF NotWorking(n, d)
          THEN BFSPacketSend(n, Scan(n, 1, 1), StartDetour(n))
          ELSE Decision(Null, tag) : d \in LookupGlobal(n)}

BfsCustom(n, in) ==
    LET curr == CurrVal(tag, n)
        par  == ParVal(tag, n)
    IN  {IF curr = 0 /\ par = 0 THEN BFSPacketSend(n, in, SetParentValue(tag, n, in))
         ELSE IF curr # in /\ par # in THEN BFSPacketSend(n, in, tag)
         ELSE BFSPacketSend(n, Scan(n, curr + 1, par), tag)}

(* The tag of RouteInputBFS is default constructed: without a tag in the   *)
(* packet its vector is empty, and reading it is an invalid access.        *)
RouteInputBFS(n, in) ==
    IF ~ tagged THEN {Decision(Null, tag)}
    ELSE IF NormalRouting THEN BfsNormal(n) ELSE BfsCustom(n, in)

(* Plain global routing; "both" returns false as if there were no route.   *)
RouteInputGlobal(n) ==
    IF Algorithm = "both" \/ LookupGlobal(n) = {} THEN {Decision(NoRoute, tag)}
    ELSE {Decision(d, tag) : d \in LookupGlobal(n)}

(* Ipv4ListRouting::RouteInput: static routing has the higher priority.    *)
RouteInput(n, in) ==
    IF LookupStatic(n) # {} THEN {Decision(d, tag) : d \in LookupStatic(n)}
    ELSE IF Algorithm = "dfs" THEN RouteInputDFS(n, in)
    ELSE IF Algorithm = "bfs" THEN RouteInputBFS(n, in)
    ELSE RouteInputGlobal(n)

-----------------------------------------------------------------------------
(* The sending socket.  RouteOutput puts an empty tag on the packet; a TCP *)
(* socket asks for its route with a null packet before it has one, and the *)
(* failover algorithms dereference it.  A route found by static routing is *)
(* used without the tag.                                                   *)

Outgoing(n) == IF LookupStatic(n) # {} THEN LookupStatic(n) ELSE LookupGlobal(n)

TagsOutput == Algorithm \in {"dfs", "bfs"} /\ LookupStatic(Src) = {}

(* RouteOutput of "both" returns a route without a device: Ipv4L3Protocol  *)
(* asserts that it has one.                                                *)
OutputAborts(query) ==
    /\ LookupStatic(Src) = {}
    /\ \/ Algorithm = "both"
       \/ Algorithm \in {"dfs", "bfs"} /\ query = "null"

(* Mutation of SendRealOut: whether the interface is up is not asked.      *)
SendRealOutUnchecked(n, d) == status' = "flight" /\ at' = Link[<<n, d>>]

(* SendRealOut: the interface of the device must be up; the frame then     *)
(* arrives at the other end of the link.                                   *)
SendRealOut(n, d) ==
    IF <<n, d>> \in ifaceUp
    THEN /\ status' = "flight"
         /\ at' = Link[<<n, d>>]
    ELSE /\ status' = "ifaceDown"
         /\ UNCHANGED at

Discard(outcome) ==
    /\ status' = outcome
    /\ UNCHANGED <<at, ttl, tagged, tag>>

(* A socket of Src sends the next packet.                                  *)
Send(query) ==
    /\ status \notin {"flight", "aborted"}
    /\ ~ OutputAborts(query)
    /\ ttl' = InitialTtl
    /\ tagged' = TagsOutput
    /\ tag' = EmptyTag
    /\ IF Outgoing(Src) = {} THEN status' = "noRoute" /\ UNCHANGED at
       ELSE \E d \in Outgoing(Src) : SendRealOut(Src, d)
    /\ UNCHANGED net

SendAborts(query) ==
    /\ status \notin {"flight", "aborted"}
    /\ OutputAborts(query)
    /\ Discard("aborted")
    /\ UNCHANGED net

-----------------------------------------------------------------------------
(* Ipv4L3Protocol::Receive at the node the packet arrives at, with what    *)
(* RouteInput and its callbacks do: one action per outcome.                *)

(* Mutation of DropAtDownInterface: the packet is kept.                    *)
KeepAtDownInterface == FALSE

DropAtDownInterface ==
    /\ status = "flight"
    /\ at \notin ifaceUp
    /\ Discard("ifaceDown")
    /\ UNCHANGED net

Arrives(n, in) == status = "flight" /\ at = <<n, in>> /\ at \in ifaceUp

LocalDeliver ==
    /\ Arrives(Dst, at[2])
    /\ Discard("delivered")
    /\ UNCHANGED net

RouteInputError(n, in) ==
    /\ Arrives(n, in)
    /\ n # Dst /\ n \notin Forwarding
    /\ Discard("routeError")
    /\ UNCHANGED net

Routes(n, in) == Arrives(n, in) /\ n # Dst /\ n \in Forwarding

NoRouteFound(n, in) ==
    /\ Routes(n, in)
    /\ \E r \in RouteInput(n, in) : r.out = NoRoute
    /\ Discard("noRoute")
    /\ UNCHANGED net

Abort(n, in) ==
    /\ Routes(n, in)
    /\ \E r \in RouteInput(n, in) : r.out \notin Device(n) \cup {NoRoute}
    /\ Discard("aborted")
    /\ UNCHANGED net

(* Mutations of IpForward: the TTL is compared before it is decremented;   *)
(* the decremented TTL is lost.                                            *)
ForwardWith(n, in, newTtl, expired) ==
    /\ Routes(n, in)
    /\ \E r \in RouteInput(n, in) :
         /\ r.out \in Device(n)
         /\ ttl' = newTtl
         /\ tag' = r.tag
         /\ tagged' = TRUE
         /\ IF expired THEN status' = "ttlExpired" /\ UNCHANGED at
                       ELSE SendRealOut(n, r.out)
    /\ UNCHANGED net
IpForwardTtlLate(n, in) == ForwardWith(n, in, ttl - 1, ttl = 0)
IpForwardTtlLost(n, in) == ForwardWith(n, in, ttl, ttl = 1)

(* IpForward: the TTL is decremented before the packet is sent.  The       *)
(* failover algorithms forward a new packet that carries the new tag.      *)
IpForward(n, in) ==
    /\ Routes(n, in)
    /\ \E r \in RouteInput(n, in) :
         /\ r.out \in Device(n)
         /\ ttl' = ttl - 1
         /\ tag' = r.tag
         /\ tagged' = (tagged \/ (Algorithm = "dfs" /\ LookupStatic(n) = {}))
         /\ IF ttl' = 0 THEN status' = "ttlExpired" /\ UNCHANGED at
                        ELSE SendRealOut(n, r.out)
    /\ UNCHANGED net

Receive ==
    \/ DropAtDownInterface
    \/ LocalDeliver
    \/ \E n \in Node : \E in \in Device(n) :
         \/ RouteInputError(n, in)
         \/ NoRouteFound(n, in)
         \/ Abort(n, in)
         \/ IpForward(n, in)

-----------------------------------------------------------------------------
(* Interface and address events.  SetDown and SetUp may be called whatever *)
(* the state of the interface; NotifyInterfaceUp of global routing leaves  *)
(* the list of down interfaces alone and neither event rebuilds the        *)
(* routes, whatever RespondToInterfaceEvents says.                         *)

Event == events < MaxEvents /\ events' = events + 1 /\ status # "aborted"

SetDown(n, d) ==
    /\ Event
    /\ ifaceUp' = ifaceUp \ {<<n, d>>}
    /\ downList' = [downList EXCEPT ![n] = @ \cup {d}]
    /\ UNCHANGED routes /\ UNCHANGED packet

SetUp(n, d) ==
    /\ Event
    /\ ifaceUp' = ifaceUp \cup {<<n, d>>}
    /\ UNCHANGED <<downList, routes>> /\ UNCHANGED packet

(* NotifyAddAddress, NotifyRemoveAddress: an address of any interface.     *)
AddressChange ==
    /\ Event
    /\ routes' = IF RespondToInterfaceEvents THEN BuildRoutes(ifaceUp) ELSE routes
    /\ UNCHANGED <<ifaceUp, downList>> /\ UNCHANGED packet

InterfaceEvent ==
    \/ \E p \in PhysicalPort : SetDown(p[1], p[2]) \/ SetUp(p[1], p[2])
    \/ AddressChange

Next ==
    \/ \E query \in Query : Send(query) \/ SendAborts(query)
    \/ Receive
    \/ InterfaceEvent

(* A frame on a link arrives: the simulator runs every scheduled event.    *)
Fairness == WF_vars(Receive)

Spec == Init /\ [][Next]_vars

FairSpec == Spec /\ Fairness

-----------------------------------------------------------------------------
(* Properties.                                                             *)

LoopbackIsLast == \A n \in Node : Loopback[n] = NDevices[n]

(* Every port that the tag names is a port with a link behind it: the scan *)
(* of RouteInputDFS never settles on the loopback device and never moves   *)
(* past the last device, however often the packet comes back.  (For nodes  *)
(* whose stack was installed after their devices.)                         *)
TagNamesLinks ==
    LoopbackIsLast =>
        \A n \in Node : {CurrVal(tag, n), ParVal(tag, n)} \subseteq {0} \cup Physical(n)

(* A node the packet crossed by plain routing before the detour: ActualSend *)
(* has set its curr byte, nobody its parent byte.                          *)
CrossedBefore(n) == CurrVal(tag, n) # 0 /\ ParVal(tag, n) = 0

(* The depth first search aborts the program in two cases only: a packet   *)
(* without a route, and a detour that comes back to a node it crossed      *)
(* before it became a detour and finds every later port down: that node    *)
(* has no parent to return to.                                             *)
DfsAbortsOnlyWithoutParent ==
    LoopbackIsLast /\ status = "aborted" =>
        LET n == at[1]
        IN  \/ NormalRouting /\ routes[n] = {}
            \/ ~ NormalRouting /\ CrossedBefore(n) /\ Usable(n, CurrVal(tag, n) + 1, 0) = {}

(* A breadth first detour aborts the program only at a node where the      *)
(* packet has been on the loopback device, the one beyond the last port    *)
(* that BFSPacketSend may step on.                                         *)
BfsDetourAbortsOnlyAfterLoopback ==
    [][LoopbackIsLast /\ status = "flight" /\ status' = "aborted" /\ ~ NormalRouting =>
        Loopback[at[1]] \in {at[2], CurrVal(tag, at[1]), ParVal(tag, at[1])}]_vars

(* As long as a packet is under way, it never forgets the port through     *)
(* which a detour first entered a node, nor that it is on a detour.        *)
ParentFixed ==
    [][status = "flight" =>
        /\ PacketStart(tag') >= PacketStart(tag)
        /\ \A n \in Node : ParVal(tag, n) # 0 => ParVal(tag', n) = ParVal(tag, n)]_vars

(* The parents that a detour leaves behind lead back to the node where it  *)
(* began: apart from that node's, whose parent is port 1 by decree, they   *)
(* contain no cycle.                                                       *)
Detoured == {n \in Node : ParVal(tag, n) # 0}

ParentNode(n) == Link[<<n, ParVal(tag, n)>>][1]

ParentsFormTree ==
    Detoured = {} \/ \E root \in Detoured :
        /\ ParVal(tag, root) = 1
        /\ \A S \in SUBSET (Detoured \ {root}) :
             S # {} => \E n \in S : ParentNode(n) \notin S

(* On a detour a packet is lost at a down output interface only if it was  *)
(* being returned to the parent: every other port that is tried was        *)
(* checked, and the list of down interfaces misses none of them.           *)
DetourLossOnlyTowardsParent ==
    [][\A n \in Node :
        /\ at[1] = n /\ at \in ifaceUp /\ ~ NormalRouting
        /\ status = "flight" /\ status' = "ifaceDown"
        => ParVal(tag', n) = CurrVal(tag', n)]_vars

(* No packet circulates for ever.                                          *)
PacketMeetsItsEnd == status = "flight" ~> status # "flight"

-----------------------------------------------------------------------------
(* What the repository says elsewhere, and the code does not do.           *)

(* test/ipv4-global-routing-test-suite.cc expects packets whose route      *)
(* works to arrive: forwarding one does not bring the program down.        *)
WorkingRouteForwards ==
    status = "aborted" /\ NormalRouting =>
        \A d \in LookupGlobal(at[1]) : NotWorking(at[1], d)

-----------------------------------------------------------------------------
(* What every algorithm promises about one datagram, with the tags and the *)
(* routing tables forgotten; plain global routing promises, besides, not   *)
(* to end the program.                                                     *)
Datagram == INSTANCE DatagramForwarding WITH MayAbort <- Algorithm # "global"

ForwardsDatagrams == Datagram!Spec

=============================================================================
