---------------------- MODULE Ipv4GlobalRouting_proofs ----------------------
(***************************************************************************)
(* Proofs about Ipv4GlobalRouting, for every network, TTL, number of       *)
(* events and tag size that the assumptions of the module allow.           *)
(***************************************************************************)
EXTENDS Ipv4GlobalRouting, WellFoundedInduction, TLAPS

(***************************************************************************)
(* The tag: a setter changes the byte it is named after and no other, of   *)
(* this node and of every other node.                                      *)
(***************************************************************************)
LEMMA EmptyTagType ==
    /\ EmptyTag \in Tag
    /\ PacketStart(EmptyTag) = 0
    /\ \A n \in Node : ParVal(EmptyTag, n) = 0 /\ CurrVal(EmptyTag, n) = 0
  BY RoutingAssumption, NodeAssumption
     DEF EmptyTag, Tag, TagIndex, TagSize, PacketStart, ParVal, CurrVal, ParentIndex,
         CurrIndex, FitsTag

LEMMA TagIndices ==
    /\ 0 \in TagIndex
    /\ \A n \in Node : /\ ParentIndex(n) \in TagIndex \ {0}
                       /\ CurrIndex(n) \in TagIndex \ {0}
    /\ \A n, m \in Node : /\ ParentIndex(n) # CurrIndex(m)
                          /\ ParentIndex(n) = ParentIndex(m) => n = m
                          /\ CurrIndex(n) = CurrIndex(m) => n = m
  BY RoutingAssumption, NodeAssumption
     DEF TagIndex, TagSize, ParentIndex, CurrIndex, FitsTag

LEMMA TagBytes ==
  ASSUME NEW t \in Tag, NEW n \in Node
  PROVE  /\ PacketStart(t) \in 0 .. 255
         /\ ParVal(t, n) \in 0 .. 255
         /\ CurrVal(t, n) \in 0 .. 255
  BY TagIndices DEF Tag, PacketStart, ParVal, CurrVal

LEMMA SetStart ==
  ASSUME NEW t \in Tag
  PROVE  /\ SetPacketStart(t) \in Tag
         /\ PacketStart(SetPacketStart(t)) = 1
         /\ \A m \in Node : /\ ParVal(SetPacketStart(t), m) = ParVal(t, m)
                            /\ CurrVal(SetPacketStart(t), m) = CurrVal(t, m)
  BY TagIndices DEF Tag, SetPacketStart, PacketStart, ParVal, CurrVal

LEMMA SetParent ==
  ASSUME NEW t \in Tag, NEW n \in Node, NEW v \in 0 .. 255
  PROVE  /\ SetParentValue(t, n, v) \in Tag
         /\ PacketStart(SetParentValue(t, n, v)) = PacketStart(t)
         /\ \A m \in Node :
              /\ ParVal(SetParentValue(t, n, v), m) = IF m = n THEN v ELSE ParVal(t, m)
              /\ CurrVal(SetParentValue(t, n, v), m) = CurrVal(t, m)
  BY TagIndices DEF Tag, SetParentValue, PacketStart, ParVal, CurrVal

LEMMA SetCurr ==
  ASSUME NEW t \in Tag, NEW n \in Node, NEW v \in 0 .. 255
  PROVE  /\ SetCurrValue(t, n, v) \in Tag
         /\ PacketStart(SetCurrValue(t, n, v)) = PacketStart(t)
         /\ \A m \in Node :
              /\ CurrVal(SetCurrValue(t, n, v), m) = IF m = n THEN v ELSE CurrVal(t, m)
              /\ ParVal(SetCurrValue(t, n, v), m) = ParVal(t, m)
  BY TagIndices DEF Tag, SetCurrValue, PacketStart, ParVal, CurrVal

(***************************************************************************)
(* Ports and routing decisions.                                            *)
(***************************************************************************)
LEMMA PortType ==
    /\ \A p \in Port : p[1] \in Node /\ p[2] \in Device(p[1]) /\ p = <<p[1], p[2]>>
    /\ \A n \in Node : \A d \in Device(n) : <<n, d>> \in Port
    /\ \A n \in Node : Device(n) \subseteq 1 .. 254
    /\ PhysicalPort \subseteq Port
    /\ DstPort \in Port
  <1>1. \A n \in Node : NDevices[n] \in 2 .. 254
    BY NodeAssumption
  <1>2. \A n \in Node : Device(n) \subseteq 1 .. 254
    BY <1>1 DEF Device
  <1>3. PhysicalPort \subseteq Port
    BY DEF PhysicalPort
  <1> QED
    BY <1>2, <1>3, RoutingAssumption DEF Port

LEMMA LinkType == ASSUME NEW p \in Port PROVE Link[p] \in Port
  BY LinkAssumption

LEMMA SmallestIn ==
  ASSUME NEW S \in SUBSET Nat, S # {}
  PROVE  Smallest(S) \in S /\ \A i \in S : Smallest(S) <= i
  <1>1. \E i \in S : \A j \in S : ~ (<<j, i>> \in OpToRel(<, Nat))
    BY NatLessThanWellFounded, WFMin, Zenon
  <1>2. \A i, j \in Nat : <<j, i>> \in OpToRel(<, Nat) <=> j < i
    BY DEF OpToRel
  <1>3. \E i \in S : \A j \in S : ~ (j < i)
    BY <1>1, <1>2, Zenon
  <1>4. \E i \in S : \A j \in S : i <= j
    BY <1>3
  <1> QED
    BY <1>4 DEF Smallest

LEMMA DecisionFields ==
  ASSUME NEW out, NEW t
  PROVE  Decision(out, t).out = out /\ Decision(out, t).tag = t
  BY DEF Decision

LEMMA ActualSendType ==
  ASSUME NEW n \in Node, NEW out, NEW t \in Tag
  PROVE  /\ ActualSend(n, out, t).out = out
         /\ ActualSend(n, out, t).tag \in Tag
         /\ out \in Device(n) => ActualSend(n, out, t).tag = SetCurrValue(t, n, out)
  <1>1. out \in Device(n) => out \in 0 .. 255
    BY PortType
  <1>2. out \in Device(n) => SetCurrValue(t, n, out) \in Tag
    BY <1>1, SetCurr
  <1> QED
    BY <1>2 DEF ActualSend, Decision

LEMMA StartDetourType ==
  ASSUME NEW n \in Node, tag \in Tag
  PROVE  /\ StartDetour(n) \in Tag
         /\ PacketStart(StartDetour(n)) = 1
         /\ \A m \in Node :
              /\ ParVal(StartDetour(n), m) = IF m = n THEN 1 ELSE ParVal(tag, m)
              /\ CurrVal(StartDetour(n), m) = CurrVal(tag, m)
  <1> DEFINE t == SetPacketStart(tag)
  <1>1. /\ t \in Tag
        /\ PacketStart(t) = 1
        /\ \A m \in Node : ParVal(t, m) = ParVal(tag, m) /\ CurrVal(t, m) = CurrVal(tag, m)
    BY SetStart
  <1>2. StartDetour(n) = SetParentValue(t, n, 1)
    BY DEF StartDetour
  <1> HIDE DEF t
  <1>3. /\ SetParentValue(t, n, 1) \in Tag
        /\ PacketStart(SetParentValue(t, n, 1)) = PacketStart(t)
        /\ \A m \in Node :
              /\ ParVal(SetParentValue(t, n, 1), m) = IF m = n THEN 1 ELSE ParVal(t, m)
              /\ CurrVal(SetParentValue(t, n, 1), m) = CurrVal(t, m)
    <2>1. 1 \in 0 .. 255
      OBVIOUS
    <2> QED
      BY <1>1, <2>1, SetParent
  <1> QED
    BY <1>1, <1>2, <1>3

LEMMA ScanResult ==
  ASSUME NEW n \in Node, NEW first \in Nat \ {0}, NEW parent
  PROVE  \/ first > NDevices[n] /\ Scan(n, first, parent) = Null
         \/ /\ first <= NDevices[n]
            /\ Usable(n, first, parent) = {}
            /\ Scan(n, first, parent) = parent
         \/ Scan(n, first, parent) \in Usable(n, first, parent)
  <1>1. Usable(n, first, parent) \in SUBSET Nat
    BY DEF Usable
  <1>2. Usable(n, first, parent) # {} =>
            Smallest(Usable(n, first, parent)) \in Usable(n, first, parent)
    BY <1>1, SmallestIn
  <1>3. NDevices[n] \in Nat
    BY NodeAssumption
  <1> QED
    BY <1>2, <1>3 DEF Scan

LEMMA RouteInputTag ==
  ASSUME TypeOK, NEW n \in Node, NEW in \in Device(n), NEW r \in RouteInput(n, in)
  PROVE  r.tag \in Tag
  <1> USE DEF TypeOK
  <1>1. in \in 0 .. 255
    BY PortType
  <1>2. ASSUME NEW out, NEW t \in Tag, r = Decision(out, t) PROVE r.tag \in Tag
    BY <1>2, DecisionFields
  <1>3. ASSUME NEW out, NEW t \in Tag, r = ActualSend(n, out, t) PROVE r.tag \in Tag
    BY <1>3, ActualSendType
  <1>4. ASSUME NEW out, NEW t \in Tag, r = BFSPacketSend(n, out, t) PROVE r.tag \in Tag
    BY <1>4, ActualSendType DEF BFSPacketSend
  <1>5. CASE r \in DfsNormal(n)
    BY <1>2, <1>3, <1>5, StartDetourType DEF DfsNormal
  <1>6. CASE r \in DfsCustom(n, in)
    BY <1>1, <1>3, <1>6, SetParent DEF DfsCustom, DfsTag
  <1>7. CASE r \in BfsNormal(n)
    BY <1>2, <1>4, <1>7, StartDetourType DEF BfsNormal
  <1>8. CASE r \in BfsCustom(n, in)
    <2>1. SetParentValue(tag, n, in) \in Tag
      BY <1>1, SetParent
    <2> QED
      BY <2>1, <1>4, <1>8 DEF BfsCustom
  <1>9. CASE r \in RouteInputGlobal(n)
    BY <1>2, <1>9 DEF RouteInputGlobal
  <1>10. CASE LookupStatic(n) # {}
    BY <1>2, <1>10 DEF RouteInput
  <1>11. CASE LookupStatic(n) = {} /\ Algorithm = "bfs" /\ ~ tagged
    BY <1>2, <1>11 DEF RouteInput, RouteInputBFS
  <1> QED
    BY <1>5, <1>6, <1>7, <1>8, <1>9, <1>10, <1>11
       DEF RouteInput, RouteInputDFS, RouteInputBFS

(***************************************************************************)
(* Type correctness.  The TTL stays positive while the packet is on a      *)
(* link: without that it could be decremented below 0.                     *)
(***************************************************************************)
NetType ==
    /\ ifaceUp \subseteq Port
    /\ downList \in [Node -> SUBSET (1 .. 254)]
    /\ routes \in [Node -> SUBSET (1 .. 254)]
    /\ \A n \in Node : downList[n] \cup routes[n] \subseteq Physical(n)
    /\ events \in 0 .. MaxEvents

PacketType ==
    /\ status \in Status
    /\ at \in Port
    /\ ttl \in 0 .. InitialTtl
    /\ tagged \in BOOLEAN
    /\ tag \in Tag
    /\ status = "flight" => ttl >= 1

TypeInv == NetType /\ PacketType

LEMMA SendRealOutType ==
  ASSUME TypeOK, NEW n \in Node, NEW d \in Device(n), SendRealOut(n, d)
  PROVE  status' \in {"flight", "ifaceDown"} /\ at' \in Port
  BY PortType, LinkType DEF SendRealOut, TypeOK

LEMMA LookupsInRange ==
  ASSUME TypeOK, NEW n \in Node
  PROVE  LookupStatic(n) \cup LookupGlobal(n) \subseteq Device(n)
  <1>1. routes[n] \in SUBSET Nat /\ routes[n] \subseteq Device(n)
    BY DEF TypeOK, Physical
  <1>2. routes[n] # {} => Smallest(routes[n]) \in routes[n]
    BY <1>1, SmallestIn
  <1> QED
    BY <1>1, <1>2 DEF LookupStatic, LookupGlobal

LEMMA BuildRoutesType ==
  ASSUME NEW up
  PROVE  /\ BuildRoutes(up) \in [Node -> SUBSET (1 .. 254)]
         /\ \A n \in Node : BuildRoutes(up)[n] \subseteq Physical(n)
  BY PortType DEF BuildRoutes, Physical

LEMMA InitTypeInv == Init => TypeInv
  <1> SUFFICES ASSUME Init PROVE TypeInv
    OBVIOUS
  <1>1. tag \in Tag
    BY EmptyTagType DEF Init
  <1>2. /\ routes \in [Node -> SUBSET (1 .. 254)]
        /\ downList \in [Node -> SUBSET (1 .. 254)]
        /\ \A n \in Node : downList[n] \cup routes[n] \subseteq Physical(n)
    BY BuildRoutesType DEF Init
  <1>3. ttl \in 0 .. InitialTtl /\ events \in 0 .. MaxEvents
    BY RoutingAssumption DEF Init
  <1>4. ifaceUp \subseteq Port /\ at \in Port /\ tagged \in BOOLEAN
    BY PortType DEF Init
  <1>5. status = "none" /\ status \in Status
    BY DEF Init, Status, Outcome
  <1> QED
    BY <1>1, <1>2, <1>3, <1>4, <1>5 DEF TypeInv, NetType, PacketType

LEMMA NextTypeInv == TypeInv /\ [Next]_vars => TypeInv'
  <1> SUFFICES ASSUME TypeInv, [Next]_vars PROVE TypeInv'
    OBVIOUS
  <1>0. TypeOK /\ NetType /\ PacketType
    BY DEF TypeInv, TypeOK, NetType, PacketType
  <1>c. UNCHANGED net => NetType'
    BY <1>0 DEF net, NetType
  <1>d. UNCHANGED packet => PacketType'
    BY <1>0 DEF packet, PacketType
  <1>e. ASSUME NEW outcome \in Outcome, Discard(outcome) PROVE PacketType'
    BY <1>0, <1>e DEF Discard, Status, Outcome, PacketType
  <1>1. ASSUME NEW query \in Query, Send(query) PROVE TypeInv'
    <2>1. ttl' = InitialTtl /\ InitialTtl \in 1 .. 255
      BY <1>1, RoutingAssumption DEF Send
    <2>2. tag' \in Tag
      BY <1>1, EmptyTagType DEF Send
    <2>3. tagged' \in BOOLEAN
      BY <1>1 DEF Send, TagsOutput
    <2>4. Outgoing(Src) \subseteq Device(Src) /\ Src \in Node
      BY <1>0, LookupsInRange, RoutingAssumption DEF Outgoing
    <2>5. status' \in Status /\ at' \in Port
      <3>1. CASE Outgoing(Src) = {}
        BY <1>1, <1>0, <3>1 DEF Send, TypeOK, Status, Outcome
      <3>2. CASE Outgoing(Src) # {}
        <4>1. PICK d \in Outgoing(Src) : SendRealOut(Src, d)
          BY <1>1, <3>2 DEF Send
        <4> QED
          BY <1>0, <2>4, <4>1, SendRealOutType DEF Status, Outcome
      <3> QED
        BY <3>1, <3>2
    <2>6. UNCHANGED net
      BY <1>1 DEF Send
    <2> QED
      BY <1>c, <2>1, <2>2, <2>3, <2>5, <2>6 DEF TypeInv, PacketType
  <1>2. ASSUME NEW query \in Query, SendAborts(query) PROVE TypeInv'
    BY <1>2, <1>c, <1>e DEF SendAborts, Outcome, TypeInv
  <1>3. CASE DropAtDownInterface \/ LocalDeliver
    BY <1>3, <1>c, <1>e DEF DropAtDownInterface, LocalDeliver, Outcome, TypeInv
  <1>4. ASSUME NEW n \in Node, NEW in \in Device(n),
               RouteInputError(n, in) \/ NoRouteFound(n, in) \/ Abort(n, in)
        PROVE  TypeInv'
    BY <1>4, <1>c, <1>e DEF RouteInputError, NoRouteFound, Abort, Outcome, TypeInv
  <1>5. ASSUME NEW n \in Node, NEW in \in Device(n), IpForward(n, in) PROVE TypeInv'
    <2>1. PICK r \in RouteInput(n, in) :
            /\ r.out \in Device(n)
            /\ ttl' = ttl - 1
            /\ tag' = r.tag
            /\ tagged' = (tagged \/ (Algorithm = "dfs" /\ LookupStatic(n) = {}))
            /\ IF ttl' = 0 THEN status' = "ttlExpired" /\ UNCHANGED at
                           ELSE SendRealOut(n, r.out)
      BY <1>5 DEF IpForward
    <2>2. status = "flight" /\ UNCHANGED net
      BY <1>5 DEF IpForward, Routes, Arrives
    <2>3. ttl' \in 0 .. InitialTtl
      BY <1>0, <2>1, <2>2, RoutingAssumption DEF PacketType
    <2>4. tag' \in Tag
      BY <1>0, <2>1, RouteInputTag
    <2>5. tagged' \in BOOLEAN
      BY <2>1, <1>0 DEF TypeOK
    <2>6. /\ status' \in Status /\ at' \in Port
          /\ status' = "flight" => ttl' >= 1
      <3>1. CASE ttl' = 0
        BY <2>1, <3>1, <1>0 DEF TypeOK, Status, Outcome
      <3>2. CASE ttl' # 0
        <4>1. SendRealOut(n, r.out)
          BY <2>1, <3>2, Zenon
        <4>3. ttl' >= 1
          BY <2>3, <3>2, RoutingAssumption
        <4>2. status' \in {"flight", "ifaceDown"} /\ at' \in Port
          BY <1>0, <2>1, <4>1, SendRealOutType
        <4> QED
          BY <4>2, <4>3 DEF Status, Outcome
      <3> QED
        BY <3>1, <3>2
    <2> QED
      BY <1>c, <2>2, <2>3, <2>4, <2>5, <2>6 DEF TypeInv, PacketType
  <1>6. CASE InterfaceEvent
    <2>1. events' \in 0 .. MaxEvents /\ UNCHANGED packet
      BY <1>0, <1>6, RoutingAssumption
         DEF InterfaceEvent, Event, SetDown, SetUp, AddressChange, TypeOK
    <2>2. ASSUME NEW p \in PhysicalPort, SetDown(p[1], p[2]) PROVE NetType'
      <3>1. p[1] \in Node /\ p[2] \in Physical(p[1]) /\ p[2] \in 1 .. 254
        BY PortType DEF PhysicalPort, Physical
      <3>2. /\ downList' = [downList EXCEPT ![p[1]] = @ \cup {p[2]}]
            /\ ifaceUp' \subseteq ifaceUp
            /\ routes' = routes
        BY <2>2 DEF SetDown
      <3> QED
        BY <1>0, <2>1, <3>1, <3>2 DEF NetType
    <2>3. ASSUME NEW p \in PhysicalPort, SetUp(p[1], p[2]) PROVE NetType'
      <3>1. <<p[1], p[2]>> \in Port
        BY PortType DEF PhysicalPort
      <3> QED
        BY <1>0, <2>1, <2>3, <3>1 DEF NetType, SetUp
    <2>4. ASSUME AddressChange PROVE NetType'
      BY <1>0, <2>1, <2>4, BuildRoutesType DEF NetType, AddressChange
    <2>5. PacketType'
      BY <1>d, <2>1
    <2>6. NetType'
      BY <1>6, <2>2, <2>3, <2>4 DEF InterfaceEvent
    <2> QED
      BY <2>5, <2>6 DEF TypeInv
  <1>7. CASE UNCHANGED vars
    BY <1>7, <1>c, <1>d DEF vars, net, packet, TypeInv
  <1> QED
    BY <1>1, <1>2, <1>3, <1>4, <1>5, <1>6, <1>7 DEF Next, Receive

(* In every behaviour every variable keeps its type: the packet is always  *)
(* at an existing port, its tag stays a vector of bytes, and its TTL is    *)
(* never decremented below 0.                                              *)
THEOREM TypeCorrect == Spec => []TypeOK
  <1>1. TypeInv => TypeOK
    BY DEF TypeInv, NetType, PacketType, TypeOK
  <1> QED
    BY InitTypeInv, NextTypeInv, <1>1, PTL DEF Spec

(***************************************************************************)
(* The depth first search.  Where the loopback device comes last, the tag  *)
(* invariant below is inductive: the parent bytes are written only together *)
(* with the curr byte of the same node, and both only with ports that have *)
(* a link behind them.                                                     *)
(***************************************************************************)
PortsNamed(t) == \A n \in Node : {CurrVal(t, n), ParVal(t, n)} \subseteq {0} \cup Physical(n)

ParentsOfDetour(t) ==
    \A n \in Node : ParVal(t, n) # 0 => CurrVal(t, n) # 0 /\ PacketStart(t) # 0

DfsInv ==
    /\ at \in PhysicalPort
    /\ PortsNamed(tag)
    /\ ParentsOfDetour(tag)

LEMMA LinkPhysical ==
  ASSUME NEW n \in Node, NEW d \in Physical(n)
  PROVE  <<n, d>> \in PhysicalPort /\ Link[<<n, d>>] \in PhysicalPort
  BY PortType, LinkAssumption DEF Physical, PhysicalPort

LEMMA StaticPhysical == ASSUME NEW n \in Node PROVE LookupStatic(n) \subseteq Physical(n)
  <1> SUFFICES ASSUME NEW d \in LookupStatic(n) PROVE d # Loopback[n]
    BY DEF LookupStatic, Physical
  <1>1. Link[<<n, d>>] = DstPort /\ DstPort \in PhysicalPort
    BY RoutingAssumption DEF LookupStatic
  <1>2. Link[<<n, Loopback[n]>>] = <<n, Loopback[n]>>
    BY LinkAssumption
  <1>3. <<n, Loopback[n]>> \notin PhysicalPort
    BY DEF PhysicalPort
  <1> QED
    BY <1>1, <1>2, <1>3

LEMMA PhysicalBeforeLoopback ==
  ASSUME LoopbackIsLast, NEW n \in Node
  PROVE  /\ \A d \in Physical(n) : d \in Nat /\ 1 <= d /\ d < NDevices[n]
         /\ \A d \in Nat \ {0} : d < NDevices[n] => d \in Physical(n)
         /\ 1 \in Physical(n)
         /\ \A d \in Device(n) : d \in Nat /\ 1 <= d
         /\ NDevices[n] \in 2 .. 254
  BY NodeAssumption DEF LoopbackIsLast, Physical, Device

(* The bytes ActualSend leaves behind.                                     *)
LEMMA SentTag ==
  ASSUME NEW n \in Node, NEW out \in Device(n), NEW t \in Tag
  PROVE  /\ PacketStart(ActualSend(n, out, t).tag) = PacketStart(t)
         /\ \A m \in Node :
              /\ CurrVal(ActualSend(n, out, t).tag, m) = IF m = n THEN out ELSE CurrVal(t, m)
              /\ ParVal(ActualSend(n, out, t).tag, m) = ParVal(t, m)
  <1>1. out \in 0 .. 255
    BY PortType
  <1>2. ActualSend(n, out, t).tag = SetCurrValue(t, n, out)
    BY ActualSendType
  <1>3. /\ PacketStart(SetCurrValue(t, n, out)) = PacketStart(t)
        /\ \A m \in Node :
              /\ CurrVal(SetCurrValue(t, n, out), m) = IF m = n THEN out ELSE CurrVal(t, m)
              /\ ParVal(SetCurrValue(t, n, out), m) = ParVal(t, m)
    BY <1>1, SetCurr
  <1> QED
    BY <1>2, <1>3

(* The tag a detoured packet has after the first visit branch.             *)
LEMMA DfsTagBytes ==
  ASSUME tag \in Tag, NEW n \in Node, NEW in \in Device(n)
  PROVE  /\ DfsTag(n, in) \in Tag
         /\ PacketStart(DfsTag(n, in)) = PacketStart(tag)
         /\ \A m \in Node :
              /\ CurrVal(DfsTag(n, in), m) = CurrVal(tag, m)
              /\ ParVal(DfsTag(n, in), m) =
                    IF m = n /\ CurrVal(tag, n) = 0 THEN in ELSE ParVal(tag, m)
  <1>1. in \in 0 .. 255
    BY PortType
  <1>2. CASE CurrVal(tag, n) = 0
    <2>1. DfsTag(n, in) = SetParentValue(tag, n, in)
      BY <1>2 DEF DfsTag
    <2>2. /\ SetParentValue(tag, n, in) \in Tag
          /\ PacketStart(SetParentValue(tag, n, in)) = PacketStart(tag)
          /\ \A m \in Node :
               /\ ParVal(SetParentValue(tag, n, in), m) = IF m = n THEN in ELSE ParVal(tag, m)
               /\ CurrVal(SetParentValue(tag, n, in), m) = CurrVal(tag, m)
      BY <1>1, SetParent
    <2> QED
      BY <1>2, <2>1, <2>2
  <1>3. CASE CurrVal(tag, n) # 0
    BY <1>3 DEF DfsTag
  <1> QED
    BY <1>2, <1>3

(* One routing decision of the depth first search.                         *)
LEMMA DfsDecision ==
  ASSUME Algorithm = "dfs", LoopbackIsLast, TypeOK, DfsInv,
         NEW n \in Node, NEW in \in Physical(n), NEW r \in RouteInput(n, in)
  PROVE  /\ r.out \in Device(n) =>
              /\ r.out \in Physical(n)
              /\ PortsNamed(r.tag)
              /\ ParentsOfDetour(r.tag)
         /\ r.out \notin Device(n) =>
              \/ NormalRouting /\ routes[n] = {}
              \/ ~ NormalRouting /\ CrossedBefore(n) /\ Usable(n, CurrVal(tag, n) + 1, 0) = {}
  <1>0. tag \in Tag /\ in \in Device(n)
    BY DEF TypeOK, Physical
  <1>1. CASE LookupStatic(n) # {}
    <2>1. r.out \in LookupStatic(n) /\ r.tag = tag
      <3>1. PICK d \in LookupStatic(n) : r = Decision(d, tag)
        BY <1>1 DEF RouteInput
      <3> QED
        BY <3>1, DecisionFields
    <2>2. r.out \in Physical(n) /\ r.out \in Device(n)
      BY <2>1, StaticPhysical DEF Physical
    <2>3. PortsNamed(r.tag) /\ ParentsOfDetour(r.tag)
      BY <2>1 DEF DfsInv
    <2> QED
      BY <2>2, <2>3
  <1>2. CASE LookupStatic(n) = {} /\ NormalRouting
    <2>1. r \in DfsNormal(n)
      BY <1>2 DEF RouteInput, RouteInputDFS
    <2>2. CASE LookupGlobal(n) = {}
      <3>1. r = Decision(Null, tag)
        BY <2>1, <2>2 DEF DfsNormal
      <3>2. r.out = -1
        BY <3>1, DecisionFields DEF Null
      <3>3. r.out \notin Device(n)
        BY <3>2, PhysicalBeforeLoopback
      <3>4. routes[n] = {}
        BY <2>2 DEF LookupGlobal
      <3> QED
        BY <1>2, <3>3, <3>4
    <2>3. CASE LookupGlobal(n) # {}
      <3>1. PICK d \in LookupGlobal(n) :
              r = IF NotWorking(n, d) THEN ActualSend(n, 1, StartDetour(n))
                                      ELSE ActualSend(n, d, tag)
        BY <2>1, <2>3 DEF DfsNormal
      <3>2. d \in Physical(n)
        <4>1. routes[n] \in SUBSET Nat /\ routes[n] \subseteq Physical(n)
          BY DEF TypeOK
        <4> QED
          BY <4>1, <2>3, SmallestIn DEF LookupGlobal
      <3>3. 1 \in Physical(n) /\ Physical(n) \subseteq Device(n)
        BY PhysicalBeforeLoopback DEF Physical
      <3>4. CASE NotWorking(n, d)
        <4>1. r = ActualSend(n, 1, StartDetour(n))
          BY <3>1, <3>4
        <4>2. r.out = 1
          BY <1>0, <4>1, StartDetourType, ActualSendType
        <4>3. /\ PacketStart(r.tag) = 1
              /\ \A m \in Node :
                   /\ CurrVal(r.tag, m) = IF m = n THEN 1 ELSE CurrVal(tag, m)
                   /\ ParVal(r.tag, m) = IF m = n THEN 1 ELSE ParVal(tag, m)
          BY <1>0, <3>3, <4>1, StartDetourType, SentTag
        <4> QED
          BY <3>3, <4>2, <4>3 DEF DfsInv, PortsNamed, ParentsOfDetour
      <3>5. CASE ~ NotWorking(n, d)
        <4>1. r = ActualSend(n, d, tag)
          BY <3>1, <3>5
        <4>2. r.out = d
          BY <1>0, <4>1, ActualSendType
        <4>3. /\ PacketStart(r.tag) = PacketStart(tag)
              /\ \A m \in Node :
                   /\ CurrVal(r.tag, m) = IF m = n THEN d ELSE CurrVal(tag, m)
                   /\ ParVal(r.tag, m) = ParVal(tag, m)
          BY <1>0, <3>2, <3>3, <4>1, SentTag
        <4> QED
          BY <1>2, <3>2, <3>3, <4>2, <4>3
             DEF DfsInv, PortsNamed, ParentsOfDetour, NormalRouting
      <3> QED
        BY <3>4, <3>5
    <2> QED
      BY <2>2, <2>3
  <1>3. CASE LookupStatic(n) = {} /\ ~ NormalRouting
    <2> DEFINE t     == DfsTag(n, in)
               first == CurrVal(t, n) + 1
               out   == Scan(n, first, ParVal(t, n))
    <2>1. r = ActualSend(n, out, t)
      BY <1>3 DEF RouteInput, RouteInputDFS, DfsCustom
    <2>2. /\ t \in Tag
          /\ PacketStart(t) = PacketStart(tag)
          /\ \A m \in Node :
               /\ CurrVal(t, m) = CurrVal(tag, m)
               /\ ParVal(t, m) = IF m = n /\ CurrVal(tag, n) = 0 THEN in ELSE ParVal(tag, m)
      BY <1>0, DfsTagBytes
    <2>3. CurrVal(tag, n) \in {0} \cup Physical(n) /\ ParVal(tag, n) \in {0} \cup Physical(n)
      BY DEF DfsInv, PortsNamed
    <2>a. /\ \A d \in Physical(n) : d \in Nat /\ 1 <= d /\ d < NDevices[n]
          /\ \A d \in Nat \ {0} : d < NDevices[n] => d \in Physical(n)
          /\ \A d \in Device(n) : d \in Nat /\ 1 <= d
          /\ NDevices[n] \in 2 .. 254
      BY PhysicalBeforeLoopback
    <2>b. first = CurrVal(tag, n) + 1
      BY <2>2
    <2>c. CurrVal(tag, n) \in Nat /\ CurrVal(tag, n) < NDevices[n]
      <3> HIDE DEF t, first, out
      <3> QED
        BY <2>3, <2>a
    <2>4. first \in Nat \ {0} /\ first <= NDevices[n] /\ first = CurrVal(tag, n) + 1
      <3> HIDE DEF t, first, out
      <3> QED
        BY <2>a, <2>b, <2>c
    <2>5. r.out = out
      BY <2>1, <2>2, ActualSendType
    <2>6. \/ Usable(n, first, ParVal(t, n)) = {} /\ out = ParVal(t, n)
          \/ out \in Usable(n, first, ParVal(t, n))
      <3> HIDE DEF t, first
      <3> QED
        BY <2>4, ScanResult, NodeAssumption
    <2>7. Usable(n, first, ParVal(t, n)) \subseteq Physical(n)
      <3> HIDE DEF t, first, out
      <3> QED
        BY <2>4, <2>a DEF Usable
    <2>8. CASE out \in Physical(n)
      <3>1. out \in Device(n)
        BY <2>8 DEF Physical
      <3>2. /\ PacketStart(r.tag) = PacketStart(t)
            /\ \A m \in Node :
                 /\ CurrVal(r.tag, m) = IF m = n THEN out ELSE CurrVal(t, m)
                 /\ ParVal(r.tag, m) = ParVal(t, m)
        BY <2>1, <2>2, <3>1, SentTag
      <3>3. out # 0
        <4> HIDE DEF t, first, out
        <4> QED
          BY <2>8, <2>a
      <3>4. PortsNamed(r.tag)
        BY <2>2, <2>8, <3>2 DEF DfsInv, PortsNamed
      <3>5. ParentsOfDetour(r.tag)
        BY <1>3, <2>2, <3>2, <3>3 DEF DfsInv, ParentsOfDetour, NormalRouting
      <3> QED
        BY <2>5, <2>8, <3>1, <3>4, <3>5
    <2>9. CASE out \notin Physical(n)
      <3>1. Usable(n, first, ParVal(t, n)) = {} /\ out = ParVal(t, n)
        BY <2>6, <2>7, <2>9
      <3>2. CurrVal(tag, n) # 0 /\ ParVal(tag, n) = 0 /\ ParVal(t, n) = 0
        BY <2>2, <2>3, <2>9, <3>1
      <3>3. out \notin Device(n)
        <4>1. out = 0
          BY <3>1, <3>2
        <4> HIDE DEF t, first, out
        <4> QED
          BY <4>1, <2>a
      <3> QED
        BY <1>3, <2>4, <2>5, <3>1, <3>2, <3>3 DEF CrossedBefore
    <2> QED
      BY <2>8, <2>9
  <1> QED
    BY <1>1, <1>2, <1>3

LEMMA LookupsPhysical ==
  ASSUME TypeOK, NEW n \in Node
  PROVE  LookupStatic(n) \subseteq Physical(n) /\ LookupGlobal(n) \subseteq Physical(n)
  <1>1. routes[n] \in SUBSET Nat /\ routes[n] \subseteq Physical(n)
    BY DEF TypeOK
  <1>2. routes[n] # {} => Smallest(routes[n]) \in routes[n]
    BY <1>1, SmallestIn
  <1> QED
    BY <1>1, <1>2, StaticPhysical DEF LookupGlobal

(* A decision is carried out by IpForward and by no other action.          *)
LEMMA ForwardDecision ==
  ASSUME NEW n \in Node, NEW in \in Device(n), IpForward(n, in)
  PROVE  /\ at = <<n, in>> /\ at \in ifaceUp /\ n # Dst /\ n \in Forwarding
         /\ status = "flight"
         /\ UNCHANGED net
         /\ \E r \in RouteInput(n, in) :
              /\ r.out \in Device(n)
              /\ ttl' = ttl - 1
              /\ tag' = r.tag
              /\ \/ ttl' = 0 /\ status' = "ttlExpired" /\ at' = at
                 \/ ttl' # 0 /\ SendRealOut(n, r.out)
  BY DEF IpForward, Routes, Arrives

(* What a socket sends leaves through a device with a link and carries an  *)
(* empty tag.                                                              *)
LEMMA SendResult ==
  ASSUME TypeOK, NEW query \in Query, Send(query)
  PROVE  /\ UNCHANGED net /\ tag' = EmptyTag /\ ttl' = InitialTtl
         /\ status \notin {"flight", "aborted"}
         /\ \/ status' = "noRoute" /\ at' = at
            \/ \E d \in Physical(Src) : SendRealOut(Src, d)
  <1>1. Outgoing(Src) \subseteq Physical(Src)
    BY LookupsPhysical, RoutingAssumption DEF Outgoing
  <1>2. CASE Outgoing(Src) = {}
    BY <1>2 DEF Send
  <1>3. CASE Outgoing(Src) # {}
    <2>1. PICK d \in Outgoing(Src) : SendRealOut(Src, d)
      BY <1>3 DEF Send
    <2> QED
      BY <1>1, <2>1 DEF Send
  <1> QED
    BY <1>2, <1>3

(* Every other action of Next keeps the place of the packet and its tag.   *)
LEMMA OtherActions ==
  ASSUME [Next]_vars
  PROVE  \/ \E query \in Query : Send(query)
         \/ \E n \in Node : \E in \in Device(n) : IpForward(n, in)
         \/ UNCHANGED <<at, ttl, tagged, tag>>
  BY DEF Next, Receive, SendAborts, DropAtDownInterface, LocalDeliver, RouteInputError,
         NoRouteFound, Abort, Discard, InterfaceEvent, SetDown, SetUp, AddressChange, packet,
         vars

LEMMA DfsInvInit == Init => DfsInv
  <1> SUFFICES ASSUME Init PROVE DfsInv
    OBVIOUS
  <1>1. at \in PhysicalPort
    BY RoutingAssumption DEF Init
  <1>2. \A n \in Node : ParVal(tag, n) = 0 /\ CurrVal(tag, n) = 0
    BY EmptyTagType DEF Init
  <1> QED
    BY <1>1, <1>2 DEF DfsInv, PortsNamed, ParentsOfDetour

LEMMA SendRealOutPhysical ==
  ASSUME at \in PhysicalPort, NEW n \in Node, NEW d \in Physical(n), SendRealOut(n, d)
  PROVE  at' \in PhysicalPort
  BY LinkPhysical DEF SendRealOut

LEMMA DfsInvNext ==
  ASSUME Algorithm = "dfs", LoopbackIsLast, TypeOK, DfsInv, [Next]_vars
  PROVE  DfsInv'
  <1>1. ASSUME NEW query \in Query, Send(query) PROVE DfsInv'
    <2>1. /\ tag' = EmptyTag
          /\ \/ at' = at
             \/ \E d \in Physical(Src) : SendRealOut(Src, d)
      BY <1>1, SendResult, Zenon
    <2>2. \A n \in Node : ParVal(tag', n) = 0 /\ CurrVal(tag', n) = 0
      BY <2>1, EmptyTagType
    <2>3. at' \in PhysicalPort
      BY <2>1, SendRealOutPhysical, RoutingAssumption DEF DfsInv
    <2> QED
      BY <2>2, <2>3 DEF DfsInv, PortsNamed, ParentsOfDetour
  <1>2. ASSUME NEW n \in Node, NEW in \in Device(n), IpForward(n, in) PROVE DfsInv'
    <2>1. PICK r \in RouteInput(n, in) :
            /\ r.out \in Device(n)
            /\ tag' = r.tag
            /\ at' = at \/ SendRealOut(n, r.out)
      BY <1>2, ForwardDecision, Zenon
    <2>2. at = <<n, in>>
      BY <1>2, ForwardDecision, Zenon
    <2>3. in \in Physical(n)
      BY <2>2 DEF DfsInv, PhysicalPort, Physical
    <2>4. r.out \in Physical(n) /\ PortsNamed(r.tag) /\ ParentsOfDetour(r.tag)
      BY <2>1, <2>3, DfsDecision
    <2>5. at' \in PhysicalPort
      BY <2>1, <2>4, SendRealOutPhysical DEF DfsInv
    <2> QED
      BY <2>1, <2>4, <2>5 DEF DfsInv, PortsNamed, ParentsOfDetour
  <1>3. CASE UNCHANGED <<at, ttl, tagged, tag>>
    BY <1>3 DEF DfsInv, PortsNamed, ParentsOfDetour
  <1> QED
    BY <1>1, <1>2, <1>3, OtherActions

(* With the depth first search and the loopback device last, a tag only    *)
(* ever names ports with a link behind them, and a packet only ever        *)
(* arrives on such a port: RouteInputDFS never sends to the loopback       *)
(* device, however the interfaces change while the packet wanders.         *)
THEOREM DetourStaysOnLinks == ASSUME Algorithm = "dfs" PROVE Spec => []TagNamesLinks
  <1> DEFINE IInv == TypeInv /\ (LoopbackIsLast => DfsInv)
  <1>1. Init => IInv
    BY InitTypeInv, DfsInvInit
  <1>2. IInv /\ [Next]_vars => IInv'
    <2>1. TypeInv => TypeOK
      BY DEF TypeInv, NetType, PacketType, TypeOK
    <2>2. LoopbackIsLast' <=> LoopbackIsLast
      BY DEF LoopbackIsLast
    <2> QED
      BY <2>1, <2>2, NextTypeInv, DfsInvNext
  <1>3. IInv => TagNamesLinks
    BY DEF DfsInv, PortsNamed, TagNamesLinks
  <1> QED
    BY <1>1, <1>2, <1>3, PTL DEF Spec

(***************************************************************************)
(* When the depth first search aborts.  Once the program has aborted no    *)
(* variable changes, so the reason it had stays visible in the state.      *)
(***************************************************************************)
DfsAbortReason(n) ==
    \/ NormalRouting /\ routes[n] = {}
    \/ ~ NormalRouting /\ CrossedBefore(n) /\ Usable(n, CurrVal(tag, n) + 1, 0) = {}

LEMMA AbortReason ==
  ASSUME Algorithm = "dfs", LoopbackIsLast, TypeOK, DfsInv,
         NEW n \in Node, NEW in \in Device(n), Abort(n, in)
  PROVE  at[1] = n /\ DfsAbortReason(n)
  <1>1. at = <<n, in>>
    BY DEF Abort, Routes, Arrives
  <1>2. in \in Physical(n)
    BY <1>1 DEF DfsInv, PhysicalPort, Physical
  <1>3. PICK r \in RouteInput(n, in) : r.out \notin Device(n)
    BY DEF Abort
  <1> QED
    BY <1>1, <1>2, <1>3, DfsDecision DEF DfsAbortReason

LEMMA StatusAborted ==
  ASSUME Algorithm = "dfs", "null" \notin Query, TypeOK, [Next]_vars, status' = "aborted"
  PROVE  \/ UNCHANGED vars /\ status = "aborted"
         \/ \E n \in Node : \E in \in Device(n) :
              Abort(n, in) /\ UNCHANGED <<at, tag, routes, downList>>
  <1>1. ASSUME NEW query \in Query PROVE ~ Send(query) /\ ~ SendAborts(query)
    <2>1. ASSUME Send(query) PROVE FALSE
      <3>1. \/ status' = "noRoute"
            \/ \E d \in Physical(Src) : SendRealOut(Src, d)
        BY <2>1, SendResult, Zenon
      <3> QED
        BY <3>1 DEF SendRealOut
    <2>2. ~ SendAborts(query)
      BY DEF SendAborts, OutputAborts
    <2> QED
      BY <2>1, <2>2
  <1>2. ASSUME NEW n \in Node, NEW in \in Device(n), IpForward(n, in) PROVE FALSE
    <2>1. PICK r \in RouteInput(n, in) : status' = "ttlExpired" \/ SendRealOut(n, r.out)
      BY <1>2, ForwardDecision, Zenon
    <2> QED
      BY <2>1 DEF SendRealOut
  <1>3. ~ InterfaceEvent
    <2>1. InterfaceEvent => status # "aborted" /\ status' = status
      BY DEF InterfaceEvent, SetDown, SetUp, AddressChange, Event, packet
    <2> QED
      BY <2>1
  <1>4. ASSUME NEW n \in Node, NEW in \in Device(n)
        PROVE  ~ RouteInputError(n, in) /\ ~ NoRouteFound(n, in)
    BY DEF RouteInputError, NoRouteFound, Discard
  <1>5. ~ DropAtDownInterface /\ ~ LocalDeliver
    BY DEF DropAtDownInterface, LocalDeliver, Discard
  <1>6. ASSUME NEW n \in Node, NEW in \in Device(n), Abort(n, in)
        PROVE  UNCHANGED <<at, tag, routes, downList>>
    BY <1>6 DEF Abort, Discard, net
  <1> QED
    BY <1>1, <1>2, <1>3, <1>4, <1>5, <1>6 DEF Next, Receive, vars

(* If no socket asks for a route with a null packet, the depth first       *)
(* search brings the program down only for a packet without a route and    *)
(* for a detour that returns to a node it had crossed before it became a   *)
(* detour, when every later port of that node has been down.               *)
THEOREM DfsAborts ==
  ASSUME Algorithm = "dfs", "null" \notin Query
  PROVE  Spec => []DfsAbortsOnlyWithoutParent
  <1> DEFINE IInv == /\ TypeInv
                     /\ LoopbackIsLast => DfsInv
                     /\ LoopbackIsLast /\ status = "aborted" => DfsAbortReason(at[1])
  <1>0. TypeInv => TypeOK
    BY DEF TypeInv, NetType, PacketType, TypeOK
  <1>1. Init => IInv
    <2>1. Init => status = "none"
      BY DEF Init
    <2> QED
      BY <2>1, InitTypeInv, DfsInvInit
  <1>2. IInv /\ [Next]_vars => IInv'
    <2> SUFFICES ASSUME IInv, [Next]_vars PROVE IInv'
      OBVIOUS
    <2>1. LoopbackIsLast' <=> LoopbackIsLast
      BY DEF LoopbackIsLast
    <2>2. TypeInv' /\ (LoopbackIsLast => DfsInv')
      BY <1>0, NextTypeInv, DfsInvNext
    <2>3. ASSUME LoopbackIsLast, status' = "aborted" PROVE DfsAbortReason(at[1])'
      <3>1. CASE UNCHANGED vars /\ status = "aborted"
        BY <2>3, <3>1
           DEF vars, DfsAbortReason, NormalRouting, CrossedBefore, Usable, NotWorking
      <3>2. ASSUME NEW n \in Node, NEW in \in Device(n),
                   Abort(n, in), UNCHANGED <<at, tag, routes, downList>>
            PROVE  DfsAbortReason(at[1])'
        <4>1. DfsAbortReason(at[1])
          BY <1>0, <2>3, <3>2, AbortReason
        <4> QED
          BY <3>2, <4>1 DEF DfsAbortReason, NormalRouting, CrossedBefore, Usable, NotWorking
      <3> QED
        BY <1>0, <2>3, <3>1, <3>2, StatusAborted
    <2> QED
      BY <2>1, <2>2, <2>3
  <1>3. IInv => DfsAbortsOnlyWithoutParent
    BY DEF DfsAbortsOnlyWithoutParent, DfsAbortReason
  <1> QED
    BY <1>1, <1>2, <1>3, PTL DEF Spec

(***************************************************************************)
(* Where the depth first search loses packets, wherever the loopback       *)
(* device is.                                                              *)
(***************************************************************************)
(* SetDown is the only event that takes an interface down, and it records  *)
(* the device; nothing ever takes a device off the list again.             *)
DownRecorded == \A n \in Node : \A d \in Device(n) : <<n, d>> \notin ifaceUp => d \in downList[n]

LossTowardsParent(n) ==
    at[1] = n /\ at \in ifaceUp /\ ~ NormalRouting /\ status = "flight" /\ status' = "ifaceDown"
        => ParVal(tag', n) = CurrVal(tag', n)

LEMMA DownRecordedNext ==
  ASSUME TypeOK, DownRecorded, [Next]_vars
  PROVE  DownRecorded'
  <1>1. ASSUME NEW p \in PhysicalPort, SetDown(p[1], p[2]) PROVE DownRecorded'
    <2>1. p[1] \in Node /\ p[2] \in Device(p[1])
      BY PortType
    <2>2. /\ ifaceUp' = ifaceUp \ {<<p[1], p[2]>>}
          /\ downList' = [downList EXCEPT ![p[1]] = @ \cup {p[2]}]
          /\ downList \in [Node -> SUBSET (1 .. 254)]
      BY <1>1 DEF SetDown, TypeOK
    <2>3. ASSUME NEW n \in Node, NEW d \in Device(n), <<n, d>> \notin ifaceUp'
          PROVE  d \in downList'[n]
      <3>1. CASE n = p[1] /\ d = p[2]
        BY <2>2, <3>1
      <3>2. CASE ~ (n = p[1] /\ d = p[2])
        <4>1. <<n, d>> \notin ifaceUp
          BY <2>2, <2>3, <3>2
        <4> QED
          BY <2>2, <4>1 DEF DownRecorded
      <3> QED
        BY <3>1, <3>2
    <2> QED
      BY <2>3 DEF DownRecorded
  <1>2. ASSUME NEW p \in PhysicalPort, SetUp(p[1], p[2]) PROVE DownRecorded'
    BY <1>2 DEF SetUp, DownRecorded
  <1>3. CASE UNCHANGED <<ifaceUp, downList>>
    BY <1>3 DEF DownRecorded
  <1>4. \/ \E p \in PhysicalPort : SetDown(p[1], p[2]) \/ SetUp(p[1], p[2])
        \/ UNCHANGED <<ifaceUp, downList>>
    BY DEF Next, Receive, Send, SendAborts, DropAtDownInterface, LocalDeliver, RouteInputError,
           NoRouteFound, Abort, IpForward, InterfaceEvent, AddressChange, net, vars
  <1> QED
    BY <1>1, <1>2, <1>3, <1>4

(* A detoured packet that IpForward loses was on its way to the parent.    *)
LEMMA ForwardLoss ==
  ASSUME Algorithm = "dfs", TypeOK, DownRecorded,
         NEW n \in Node, NEW in \in Device(n), IpForward(n, in), ~ NormalRouting,
         status' = "ifaceDown"
  PROVE  ParVal(tag', n) = CurrVal(tag', n)
  <1> DEFINE t   == DfsTag(n, in)
             out == Scan(n, CurrVal(t, n) + 1, ParVal(t, n))
  <1>1. PICK r \in RouteInput(n, in) :
          /\ r.out \in Device(n)
          /\ tag' = r.tag
          /\ status' = "ttlExpired" \/ SendRealOut(n, r.out)
    BY ForwardDecision, Zenon
  <1>2. <<n, r.out>> \notin ifaceUp
    BY <1>1 DEF SendRealOut
  <1>3. LookupStatic(n) = {}
    <2>1. LookupStatic(n) # {} => \E d \in LookupStatic(n) : r = Decision(d, tag)
      BY DEF RouteInput
    <2> QED
      BY <1>2, <2>1, DecisionFields DEF LookupStatic
  <1>4. r = ActualSend(n, out, t)
    BY <1>3 DEF RouteInput, RouteInputDFS, DfsCustom
  <1>5. t \in Tag /\ CurrVal(t, n) \in 0 .. 255
    BY DfsTagBytes, TagBytes DEF TypeOK
  <1> HIDE DEF t
  <1>6. r.out = out
    BY <1>4, <1>5, ActualSendType
  <1>7. out \notin Usable(n, CurrVal(t, n) + 1, ParVal(t, n))
    BY <1>1, <1>2, <1>6 DEF DownRecorded, Usable, NotWorking
  <1>8. out = ParVal(t, n)
    <2>1. CurrVal(t, n) + 1 \in Nat \ {0}
      BY <1>5
    <2>2. Null \notin Device(n)
      BY PortType DEF Null
    <2> HIDE DEF out
    <2>3. out = ParVal(t, n) \/ out = Null
      <3> USE DEF out
      <3> QED
        BY <1>7, <2>1, ScanResult
    <2> QED
      BY <1>1, <1>6, <2>2, <2>3
  <1> HIDE DEF out
  <1>9. CurrVal(r.tag, n) = out /\ ParVal(r.tag, n) = ParVal(t, n)
    BY <1>1, <1>4, <1>5, <1>6, SentTag
  <1> QED
    BY <1>1, <1>8, <1>9

(* The list of down interfaces misses no interface that is down, so a      *)
(* depth first detour loses a packet at an interface only when that        *)
(* interface leads to the parent, the one port RouteInputDFS uses without  *)
(* checking it.                                                            *)
THEOREM DfsDetourLoss == ASSUME Algorithm = "dfs" PROVE Spec => DetourLossOnlyTowardsParent
  <1> DEFINE IInv == TypeInv /\ DownRecorded
  <1>0. TypeInv => TypeOK
    BY DEF TypeInv, NetType, PacketType, TypeOK
  <1>1. Init => IInv
    <2>1. Init => DownRecorded
      BY PortType DEF Init, DownRecorded
    <2> QED
      BY <2>1, InitTypeInv
  <1>2. IInv /\ [Next]_vars => IInv'
    BY <1>0, NextTypeInv, DownRecordedNext
  <1>3. IInv /\ [Next]_vars => [\A n \in Node : LossTowardsParent(n)]_vars
    <2> SUFFICES ASSUME TypeOK, DownRecorded, [Next]_vars, NEW n \in Node,
                        at[1] = n, at \in ifaceUp, ~ NormalRouting,
                        status = "flight", status' = "ifaceDown"
                 PROVE  ParVal(tag', n) = CurrVal(tag', n)
      BY <1>0 DEF LossTowardsParent
    <2>1. \E m \in Node : \E in \in Device(m) : IpForward(m, in)
      <3>1. \A query \in Query : ~ Send(query) /\ ~ SendAborts(query)
        BY DEF Send, SendAborts
      <3>2. ~ DropAtDownInterface /\ ~ LocalDeliver
        BY DEF DropAtDownInterface, LocalDeliver, Discard
      <3>3. \A m \in Node : \A in \in Device(m) :
              ~ RouteInputError(m, in) /\ ~ NoRouteFound(m, in) /\ ~ Abort(m, in)
        BY DEF RouteInputError, NoRouteFound, Abort, Discard
      <3>4. ~ InterfaceEvent /\ ~ UNCHANGED vars
        BY DEF InterfaceEvent, SetDown, SetUp, AddressChange, packet, vars
      <3> QED
        BY <3>1, <3>2, <3>3, <3>4 DEF Next, Receive
    <2>2. ASSUME NEW m \in Node, NEW in \in Device(m), IpForward(m, in)
          PROVE  ParVal(tag', n) = CurrVal(tag', n)
      <3>1. at = <<m, in>>
        BY <2>2, ForwardDecision, Zenon
      <3>2. m = n
        BY <3>1
      <3> QED
        BY <2>2, <3>2, ForwardLoss
    <2> QED
      BY <2>1, <2>2
  <1>4. [\A n \in Node : LossTowardsParent(n)]_vars
          => [\A n \in Node :
                /\ at[1] = n /\ at \in ifaceUp /\ ~ NormalRouting
                /\ status = "flight" /\ status' = "ifaceDown"
                => ParVal(tag', n) = CurrVal(tag', n)]_vars
    BY DEF LossTowardsParent
  <1> QED
    BY <1>1, <1>2, <1>3, <1>4, PTL DEF Spec, DetourLossOnlyTowardsParent

(***************************************************************************)
(* Refinement: with the tags, the tables and the lists forgotten, every    *)
(* step is a step of DatagramForwarding or a stutter.                      *)
(***************************************************************************)
LEMMA LeaveStep ==
  ASSUME NEW n \in Node, NEW d \in Device(n), SendRealOut(n, d)
  PROVE  Datagram!Leave(n)
  BY DEF SendRealOut, Datagram!Leave, Datagram!Device, Device

(* Plain global routing finds a device or reports that it has none.        *)
LEMMA GlobalDecides ==
  ASSUME TypeOK, Algorithm = "global", NEW n \in Node, NEW in, NEW r \in RouteInput(n, in)
  PROVE  r.out \in Device(n) \cup {NoRoute}
  <1>1. CASE LookupStatic(n) # {}
    <2>1. PICK d \in LookupStatic(n) : r = Decision(d, tag)
      BY <1>1 DEF RouteInput
    <2> QED
      BY <2>1, DecisionFields, LookupsInRange
  <1>2. CASE LookupStatic(n) = {}
    <2>1. r \in RouteInputGlobal(n)
      BY <1>2 DEF RouteInput
    <2>2. r = Decision(NoRoute, tag) \/ \E d \in LookupGlobal(n) : r = Decision(d, tag)
      BY <2>1 DEF RouteInputGlobal
    <2> QED
      BY <2>2, DecisionFields, LookupsInRange
  <1> QED
    BY <1>1, <1>2

LEMMA StepRefines == TypeOK /\ [Next]_vars => [Datagram!Next]_(Datagram!vars)
  <1> SUFFICES ASSUME TypeOK, [Next]_vars
               PROVE  Datagram!Next \/ UNCHANGED <<ifaceUp, status, at, ttl>>
    BY DEF Datagram!vars
  <1>1. ASSUME NEW query \in Query, Send(query) PROVE Datagram!Originate
    <2>1. /\ UNCHANGED net /\ ttl' = InitialTtl /\ status \notin {"flight", "aborted"}
          /\ \/ status' = "noRoute" /\ at' = at
             \/ \E d \in Physical(Src) : SendRealOut(Src, d)
      BY <1>1, SendResult, Zenon
    <2>2. (\E d \in Physical(Src) : SendRealOut(Src, d)) => Datagram!Leave(Src)
      BY LeaveStep, RoutingAssumption DEF Physical
    <2> QED
      BY <2>1, <2>2 DEF Datagram!Originate, Datagram!InFlight, net
  <1>2. ASSUME NEW query \in Query, SendAborts(query) PROVE Datagram!Crash
    <2>1. Algorithm # "global"
      BY <1>2 DEF SendAborts, OutputAborts
    <2> QED
      BY <1>2, <2>1 DEF SendAborts, Discard, net, Datagram!Crash, Datagram!InFlight
  <1>3. ASSUME DropAtDownInterface PROVE Datagram!Miss
    BY <1>3 DEF DropAtDownInterface, Discard, net, Datagram!Miss, Datagram!InFlight
  <1>4. ASSUME LocalDeliver PROVE Datagram!Deliver
    BY <1>4 DEF LocalDeliver, Arrives, Discard, net, Datagram!Deliver, Datagram!InFlight
  <1>5. ASSUME NEW n \in Node, NEW in \in Device(n), RouteInputError(n, in)
        PROVE  Datagram!Refuse
    BY <1>5 DEF RouteInputError, Arrives, Discard, net, Datagram!Refuse, Datagram!InFlight
  <1>6. ASSUME NEW n \in Node, NEW in \in Device(n), NoRouteFound(n, in)
        PROVE  Datagram!Refuse
    BY <1>6 DEF NoRouteFound, Routes, Arrives, Discard, net, Datagram!Refuse,
                Datagram!InFlight
  <1>7. ASSUME NEW n \in Node, NEW in \in Device(n), Abort(n, in) PROVE Datagram!Crash
    <2>1. Algorithm # "global"
      BY <1>7, GlobalDecides DEF Abort
    <2> QED
      BY <1>7, <2>1 DEF Abort, Routes, Arrives, Discard, net, Datagram!Crash, Datagram!InFlight
  <1>8. ASSUME NEW n \in Node, NEW in \in Device(n), IpForward(n, in)
        PROVE  Datagram!Forward
    <2>1. /\ at = <<n, in>> /\ at \in ifaceUp /\ n # Dst /\ n \in Forwarding
          /\ status = "flight"
          /\ UNCHANGED net
      BY <1>8, ForwardDecision, Zenon
    <2>2. PICK r \in RouteInput(n, in) :
            /\ r.out \in Device(n)
            /\ ttl' = ttl - 1
            /\ \/ ttl' = 0 /\ status' = "ttlExpired" /\ at' = at
               \/ ttl' # 0 /\ SendRealOut(n, r.out)
      BY <1>8, ForwardDecision, Zenon
    <2>3. /\ ttl' = ttl - 1
          /\ \/ ttl' = 0 /\ status' = "ttlExpired" /\ at' = at
             \/ ttl' # 0 /\ Datagram!Leave(n)
      BY <2>2, LeaveStep, Zenon
    <2> HIDE DEF vars
    <2> QED
      BY <2>1, <2>3 DEF net, Datagram!Forward, Datagram!InFlight
  <1>9. ASSUME InterfaceEvent
        PROVE  Datagram!Toggle \/ UNCHANGED <<ifaceUp, status, at, ttl>>
    <2>1. ASSUME NEW p \in PhysicalPort, SetDown(p[1], p[2]) \/ SetUp(p[1], p[2])
          PROVE  Datagram!Toggle
      <3>1. p \in Port /\ p = <<p[1], p[2]>> /\ Datagram!Port = Port
        BY PortType DEF Port, Datagram!Port, Device, Datagram!Device
      <3>2. ifaceUp' = ifaceUp \cup {p} \/ ifaceUp' = ifaceUp \ {p}
        BY <2>1, <3>1 DEF SetDown, SetUp
      <3>3. UNCHANGED packet
        BY <2>1 DEF SetDown, SetUp
      <3> QED
        BY <3>1, <3>2, <3>3 DEF packet, Datagram!Toggle, Datagram!datagram
    <2>2. ASSUME AddressChange PROVE UNCHANGED <<ifaceUp, status, at, ttl>>
      BY <2>2 DEF AddressChange, packet
    <2> QED
      BY <1>9, <2>1, <2>2 DEF InterfaceEvent
  <1>10. CASE UNCHANGED vars
    BY <1>10 DEF vars
  <1>11. \/ \E query \in Query : Send(query) \/ SendAborts(query)
         \/ DropAtDownInterface \/ LocalDeliver
         \/ \E n \in Node : \E in \in Device(n) :
              RouteInputError(n, in) \/ NoRouteFound(n, in) \/ Abort(n, in) \/ IpForward(n, in)
         \/ InterfaceEvent
         \/ UNCHANGED vars
    BY DEF Next, Receive
  <1> QED
    BY <1>1, <1>2, <1>3, <1>4, <1>5, <1>6, <1>7, <1>8, <1>9, <1>10, <1>11
       DEF Datagram!Next

(* All three routing algorithms implement best-effort forwarding: packets  *)
(* move over links that are up, pay TTL at every node that forwards them,  *)
(* are delivered at their destination only and dropped for a reason only;  *)
(* plain global routing, besides, never ends the program.                  *)
THEOREM Refinement == Spec => ForwardsDatagrams
  <1>1. Init => Datagram!Init
    <2>1. Datagram!Port = Port
      BY DEF Port, Datagram!Port, Device, Datagram!Device
    <2> QED
      BY <2>1, PortType DEF Init, Datagram!Init
  <1>2. TypeInv => TypeOK
    BY DEF TypeInv, NetType, PacketType, TypeOK
  <1> QED
    BY <1>1, <1>2, InitTypeInv, NextTypeInv, StepRefines, PTL
       DEF Spec, ForwardsDatagrams, Datagram!Spec

(***************************************************************************)
(* The parents of a detour form a tree, whichever algorithm is used: a     *)
(* node adopts a parent only if its curr byte is unset, and the node from  *)
(* which the packet comes, and so every parent, has its curr byte set.     *)
(***************************************************************************)
(* The bytes of a packet that leaves n on device out, with parent par.     *)
Sent(n, out, par, start, t) ==
    /\ PacketStart(t) = start
    /\ \A m \in Node : /\ CurrVal(t, m) = IF m = n THEN out ELSE CurrVal(tag, m)
                       /\ ParVal(t, m) = IF m = n THEN par ELSE ParVal(tag, m)

Tree(root) ==
    /\ ParVal(tag, root) = 1
    /\ \A n \in Detoured \ {root} : CurrVal(tag, ParentNode(n)) # 0
    /\ \A S \in SUBSET (Detoured \ {root}) : S # {} => \E n \in S : ParentNode(n) \notin S

TreeInv ==
    /\ Algorithm \notin {"dfs", "bfs"} => NormalRouting
    /\ NormalRouting <=> Detoured = {}
    /\ \A n \in Detoured : ParVal(tag, n) \in Device(n) /\ CurrVal(tag, n) # 0
    /\ status = "flight" /\ ~ NormalRouting => at = DstPort \/ CurrVal(tag, Link[at][1]) # 0
    /\ Detoured = {} \/ \E root \in Detoured : Tree(root)

LEMMA SentStart ==
  ASSUME tag \in Tag, NEW n \in Node, NEW out \in Device(n)
  PROVE  Sent(n, out, 1, 1, ActualSend(n, out, StartDetour(n)).tag)
  BY StartDetourType, SentTag DEF Sent

LEMMA SentSame ==
  ASSUME tag \in Tag, NEW n \in Node, NEW out \in Device(n)
  PROVE  Sent(n, out, ParVal(tag, n), PacketStart(tag), ActualSend(n, out, tag).tag)
  BY SentTag DEF Sent

LEMMA SentAdopted ==
  ASSUME tag \in Tag, NEW n \in Node, NEW in \in Device(n), NEW out \in Device(n)
  PROVE  Sent(n, out, in, PacketStart(tag), ActualSend(n, out, SetParentValue(tag, n, in)).tag)
  <1> DEFINE t == SetParentValue(tag, n, in)
  <1>1. in \in 0 .. 255
    BY PortType
  <1>2. /\ t \in Tag /\ PacketStart(t) = PacketStart(tag)
        /\ \A m \in Node : /\ ParVal(t, m) = IF m = n THEN in ELSE ParVal(tag, m)
                           /\ CurrVal(t, m) = CurrVal(tag, m)
    BY <1>1, SetParent
  <1> HIDE DEF t
  <1>3. /\ PacketStart(ActualSend(n, out, t).tag) = PacketStart(t)
        /\ \A m \in Node :
             /\ CurrVal(ActualSend(n, out, t).tag, m) = IF m = n THEN out ELSE CurrVal(t, m)
             /\ ParVal(ActualSend(n, out, t).tag, m) = ParVal(t, m)
    BY <1>2, SentTag
  <1>4. Sent(n, out, in, PacketStart(tag), ActualSend(n, out, t).tag)
    BY <1>2, <1>3 DEF Sent
  <1> QED
    BY <1>4 DEF t

(* What a packet that is forwarded may carry away from n.                  *)
Leaves(n, in, out, t) ==
    \/ t = tag /\ (Link[<<n, out>>] = DstPort \/ Algorithm \notin {"dfs", "bfs"})
    \/ Sent(n, out, ParVal(tag, n), PacketStart(tag), t)
    \/ NormalRouting /\ Algorithm \in {"dfs", "bfs"} /\ Sent(n, out, 1, 1, t)
    \/ ~ NormalRouting /\ CurrVal(tag, n) = 0 /\ Sent(n, out, in, PacketStart(tag), t)

(* ActualSend of the tag as it is, with the parent adopted, or with the    *)
(* detour begun.                                                           *)
LEMMA LeavesSent ==
  ASSUME tag \in Tag, NEW n \in Node, NEW in \in Device(n), NEW out, NEW t, NEW r,
         r = ActualSend(n, out, t), r.out \in Device(n),
         \/ t = tag
         \/ t = StartDetour(n) /\ NormalRouting /\ Algorithm \in {"dfs", "bfs"}
         \/ t = SetParentValue(tag, n, in) /\ ~ NormalRouting /\ CurrVal(tag, n) = 0
  PROVE  Leaves(n, in, r.out, r.tag)
  <1>1. r.out = out /\ out \in Device(n)
    BY DEF ActualSend, Decision
  <1> QED
    BY <1>1, SentStart, SentSame, SentAdopted DEF Leaves

LEMMA AnyDecision ==
  ASSUME TypeOK, NEW n \in Node, NEW in \in Device(n), NEW r \in RouteInput(n, in),
         r.out \in Device(n)
  PROVE  Leaves(n, in, r.out, r.tag)
  <1>0. tag \in Tag
    BY DEF TypeOK
  <1>1. CASE LookupStatic(n) # {}
    <2>1. PICK d \in LookupStatic(n) : r = Decision(d, tag)
      BY <1>1 DEF RouteInput
    <2>2. r.out = d /\ r.tag = tag /\ Link[<<n, d>>] = DstPort
      BY <2>1, DecisionFields DEF LookupStatic
    <2> QED
      BY <2>2 DEF Leaves
  <1>2. CASE LookupStatic(n) = {} /\ Algorithm \notin {"dfs", "bfs"}
    <2>1. r = Decision(NoRoute, tag) \/ \E d \in LookupGlobal(n) : r = Decision(d, tag)
      BY <1>2 DEF RouteInput, RouteInputGlobal
    <2>2. r.tag = tag
      BY <2>1, DecisionFields
    <2> QED
      BY <1>2, <2>2 DEF Leaves
  <1>3. r = Decision(Null, tag) => FALSE
    <2>1. r = Decision(Null, tag) => r.out = -1
      BY DecisionFields DEF Null
    <2>2. -1 \notin Device(n)
      BY NodeAssumption DEF Device
    <2> QED
      BY <2>1, <2>2
  <1>4. CASE LookupStatic(n) = {} /\ Algorithm = "dfs" /\ NormalRouting
    <2>1. r \in DfsNormal(n)
      BY <1>4 DEF RouteInput, RouteInputDFS
    <2>2. r = ActualSend(n, 1, StartDetour(n)) \/ \E d \in LookupGlobal(n) : r = ActualSend(n, d, tag)
      BY <1>3, <2>1 DEF DfsNormal
    <2> QED
      BY <1>0, <1>4, <2>2, LeavesSent
  <1>5. CASE LookupStatic(n) = {} /\ Algorithm = "dfs" /\ ~ NormalRouting
    <2> DEFINE out == Scan(n, CurrVal(DfsTag(n, in), n) + 1, ParVal(DfsTag(n, in), n))
    <2>1. r = ActualSend(n, out, DfsTag(n, in))
      BY <1>5 DEF RouteInput, RouteInputDFS, DfsCustom
    <2> HIDE DEF out
    <2>2. \/ DfsTag(n, in) = tag
          \/ DfsTag(n, in) = SetParentValue(tag, n, in) /\ CurrVal(tag, n) = 0
      <3>1. CASE CurrVal(tag, n) = 0
        <4>1. DfsTag(n, in) = SetParentValue(tag, n, in)
          BY <3>1 DEF DfsTag
        <4> QED
          BY <3>1, <4>1
      <3>2. CASE CurrVal(tag, n) # 0
        <4>1. DfsTag(n, in) = tag
          BY <3>2 DEF DfsTag
        <4> QED
          BY <4>1
      <3> QED
        BY <3>1, <3>2
    <2> DEFINE t == DfsTag(n, in)
    <2>3. r = ActualSend(n, out, t)
      BY <2>1
    <2>4. \/ t = tag
          \/ t = SetParentValue(tag, n, in) /\ CurrVal(tag, n) = 0
      BY <2>2
    <2> HIDE DEF t
    <2> QED
      BY <1>0, <1>5, <2>3, <2>4, LeavesSent
  <1>6. CASE LookupStatic(n) = {} /\ Algorithm = "bfs" /\ NormalRouting
    <2>1. tagged /\ r \in BfsNormal(n)
      BY <1>3, <1>6 DEF RouteInput, RouteInputBFS
    <2>2. r = BFSPacketSend(n, Scan(n, 1, 1), StartDetour(n))
      BY <1>3, <2>1 DEF BfsNormal
    <2>3. \E out : r = ActualSend(n, out, StartDetour(n))
      BY <2>2 DEF BFSPacketSend
    <2> QED
      BY <1>0, <1>6, <2>3, LeavesSent
  <1>7. CASE LookupStatic(n) = {} /\ Algorithm = "bfs" /\ ~ NormalRouting
    <2>1. r \in BfsCustom(n, in)
      BY <1>3, <1>7 DEF RouteInput, RouteInputBFS
    <2>2. \/ CurrVal(tag, n) = 0 /\ r = BFSPacketSend(n, in, SetParentValue(tag, n, in))
          \/ \E chosen : r = BFSPacketSend(n, chosen, tag)
      BY <2>1 DEF BfsCustom
    <2>3. \/ CurrVal(tag, n) = 0 /\ \E out : r = ActualSend(n, out, SetParentValue(tag, n, in))
          \/ \E out : r = ActualSend(n, out, tag)
      BY <2>2 DEF BFSPacketSend
    <2> QED
      BY <1>0, <1>7, <2>3, LeavesSent
  <1> QED
    BY <1>1, <1>2, <1>4, <1>5, <1>6, <1>7

LEMMA LinkOfLink ==
  ASSUME NEW p \in Port
  PROVE  Link[p] \in Port /\ Link[Link[p]] = p /\ Link[p][1] \in Node
  BY LinkAssumption, PortType

LEMMA ParentType ==
  ASSUME TreeInv, NEW n \in Detoured
  PROVE  /\ n \in Node /\ ParVal(tag, n) # 0 /\ CurrVal(tag, n) # 0
         /\ <<n, ParVal(tag, n)>> \in Port /\ ParentNode(n) \in Node
  <1>1. n \in Node /\ ParVal(tag, n) # 0 /\ CurrVal(tag, n) # 0 /\ ParVal(tag, n) \in Device(n)
    BY DEF TreeInv, Detoured
  <1>2. <<n, ParVal(tag, n)>> \in Port
    BY <1>1, PortType
  <1> QED
    BY <1>1, <1>2, LinkOfLink DEF ParentNode

(* A packet that leaves n without a change of its parents keeps the tree.  *)
LEMMA TreeSame ==
  ASSUME TreeInv, NEW n \in Node, NEW out \in Device(n),
         Sent(n, out, ParVal(tag, n), PacketStart(tag), tag')
  PROVE  /\ NormalRouting' = NormalRouting
         /\ (NormalRouting <=> Detoured = {})'
         /\ (\A m \in Detoured : ParVal(tag, m) \in Device(m) /\ CurrVal(tag, m) # 0)'
         /\ (Detoured = {} \/ \E root \in Detoured : Tree(root))'
  <1>1. out # 0
    BY PortType
  <1>2. /\ PacketStart(tag') = PacketStart(tag)
        /\ \A m \in Node : /\ CurrVal(tag', m) = IF m = n THEN out ELSE CurrVal(tag, m)
                           /\ ParVal(tag', m) = ParVal(tag, m)
    BY DEF Sent
  <1>3. Detoured' = Detoured /\ NormalRouting' = NormalRouting
    BY <1>2 DEF Detoured, NormalRouting
  <1>4. \A m \in Node : CurrVal(tag, m) # 0 => CurrVal(tag', m) # 0
    BY <1>1, <1>2
  <1>5. \A m \in Detoured : m \in Node /\ ParVal(tag', m) = ParVal(tag, m) /\ ParentNode(m)' = ParentNode(m)
    BY <1>2 DEF Detoured, ParentNode
  <1>6. ASSUME NEW root \in Detoured, Tree(root) PROVE Tree(root)'
    <2>1. ParVal(tag', root) = 1
      BY <1>5, <1>6 DEF Tree
    <2>2. \A m \in Detoured \ {root} : CurrVal(tag', ParentNode(m)') # 0
      BY <1>4, <1>5, <1>6, ParentType DEF Tree
    <2>3. \A S \in SUBSET (Detoured \ {root}) : S # {} => \E m \in S : ParentNode(m)' \notin S
      BY <1>5, <1>6 DEF Tree
    <2> QED
      BY <1>3, <2>1, <2>2, <2>3 DEF Tree
  <1>7. \A m \in Detoured : ParVal(tag', m) \in Device(m) /\ CurrVal(tag', m) # 0
    BY <1>4, <1>5 DEF TreeInv
  <1>8. NormalRouting <=> Detoured = {}
    BY DEF TreeInv
  <1>9. Detoured = {} \/ \E root \in Detoured : Tree(root)'
    BY <1>6 DEF TreeInv
  <1> QED
    BY <1>3, <1>7, <1>8, <1>9

(* The detour begins: n is its root.                                       *)
LEMMA TreeBegins ==
  ASSUME TreeInv, NormalRouting, NEW n \in Node, NEW out \in Device(n), Sent(n, out, 1, 1, tag')
  PROVE  /\ ~ NormalRouting' /\ Detoured' # {}
         /\ (\A m \in Detoured : ParVal(tag, m) \in Device(m) /\ CurrVal(tag, m) # 0)'
         /\ (Detoured = {} \/ \E root \in Detoured : Tree(root))'
  <1>1. out # 0
    BY PortType
  <1>2. /\ PacketStart(tag') = 1
        /\ \A m \in Node : /\ CurrVal(tag', m) = IF m = n THEN out ELSE CurrVal(tag, m)
                           /\ ParVal(tag', m) = IF m = n THEN 1 ELSE ParVal(tag, m)
    BY DEF Sent
  <1>3. ~ NormalRouting'
    BY <1>2 DEF NormalRouting
  <1>4. \A m \in Node : ParVal(tag, m) = 0
    BY DEF TreeInv, Detoured
  <1>5. Detoured' = {n}
    BY <1>2, <1>4 DEF Detoured
  <1>6. 1 \in Device(n)
    BY NodeAssumption DEF Device
  <1>7. Tree(n)'
    <2>1. ParVal(tag', n) = 1
      BY <1>2
    <2>2. Detoured' \ {n} = {}
      BY <1>5
    <2> QED
      BY <2>1, <2>2 DEF Tree
  <1>8. \A m \in Detoured' : ParVal(tag', m) \in Device(m) /\ CurrVal(tag', m) # 0
    BY <1>1, <1>2, <1>5, <1>6
  <1> QED
    BY <1>3, <1>5, <1>7, <1>8

(* A node that the detour enters for the first time is a new leaf.         *)
LEMMA TreeGrows ==
  ASSUME TreeInv, ~ NormalRouting, NEW n \in Node, NEW in \in Device(n), NEW out \in Device(n),
         CurrVal(tag, n) = 0, Sent(n, out, in, PacketStart(tag), tag'),
         CurrVal(tag, Link[<<n, in>>][1]) # 0,
         Detoured # {}
  PROVE  /\ ~ NormalRouting' /\ Detoured' # {}
         /\ (\A m \in Detoured : ParVal(tag, m) \in Device(m) /\ CurrVal(tag, m) # 0)'
         /\ (Detoured = {} \/ \E root \in Detoured : Tree(root))'
  <1>1. out # 0 /\ in # 0
    BY PortType
  <1>2. /\ PacketStart(tag') = PacketStart(tag)
        /\ \A m \in Node : /\ CurrVal(tag', m) = IF m = n THEN out ELSE CurrVal(tag, m)
                           /\ ParVal(tag', m) = IF m = n THEN in ELSE ParVal(tag, m)
    BY DEF Sent
  <1>3. ~ NormalRouting'
    BY <1>2 DEF NormalRouting
  <1>4. n \notin Detoured /\ Detoured' = Detoured \cup {n}
    <2>1. n \notin Detoured
      BY DEF TreeInv
    <2>2. Detoured' = Detoured \cup {n}
      BY <1>1, <1>2 DEF Detoured
    <2> QED
      BY <2>1, <2>2
  <1>5. \A m \in Node : CurrVal(tag, m) # 0 => CurrVal(tag', m) # 0
    BY <1>1, <1>2
  <1>6. \A m \in Detoured : m \in Node /\ ParVal(tag', m) = ParVal(tag, m) /\ ParentNode(m)' = ParentNode(m)
    BY <1>2, <1>4 DEF Detoured, ParentNode
  <1> DEFINE sender == Link[<<n, in>>][1]
  <1>7. ParentNode(n)' = sender /\ sender \in Node /\ sender # n
    <2>1. <<n, in>> \in Port
      BY PortType
    <2>2. sender \in Node
      BY <2>1, LinkOfLink
    <2>3. ParVal(tag', n) = in
      BY <1>2
    <2> QED
      BY <2>2, <2>3 DEF ParentNode
  <1>8. PICK root \in Detoured : Tree(root)
    BY DEF TreeInv
  <1>9. Tree(root)'
    <2>1. ParVal(tag', root) = 1
      BY <1>6, <1>8 DEF Tree
    <2>2. ASSUME NEW m \in Detoured' \ {root} PROVE CurrVal(tag', ParentNode(m)') # 0
      <3>1. CASE m = n
        BY <3>1, <1>5, <1>7
      <3>2. CASE m # n
        <4>1. m \in Detoured \ {root}
          BY <3>2, <2>2, <1>4
        <4>2. CurrVal(tag, ParentNode(m)) # 0 /\ ParentNode(m) \in Node
          BY <4>1, <1>8, ParentType DEF Tree
        <4> QED
          BY <4>1, <4>2, <1>5, <1>6
      <3> QED
        BY <3>1, <3>2
    <2>3. ASSUME NEW S \in SUBSET (Detoured' \ {root}), S # {} PROVE \E m \in S : ParentNode(m)' \notin S
      <3>1. S \ {n} \in SUBSET (Detoured \ {root})
        BY <1>4
      <3>2. CASE S \ {n} = {}
        <4>1. S = {n}
          BY <2>3, <3>2
        <4> QED
          BY <4>1, <1>7
      <3>3. CASE S \ {n} # {}
        <4>1. PICK m \in S \ {n} : ParentNode(m) \notin S \ {n}
          BY <3>1, <3>3, <1>8 DEF Tree
        <4>2. m \in Detoured \ {root}
          BY <3>1, <4>1
        <4>3. CurrVal(tag, ParentNode(m)) # 0
          BY <4>2, <1>8 DEF Tree
        <4>4. ParentNode(m) \notin S /\ ParentNode(m)' = ParentNode(m)
          BY <4>1, <4>2, <4>3, <1>6
        <4> QED
          BY <4>1, <4>4
      <3> QED
        BY <3>2, <3>3
    <2> QED
      BY <2>1, <2>2, <2>3 DEF Tree
  <1>10. \A m \in Detoured' : ParVal(tag', m) \in Device(m) /\ CurrVal(tag', m) # 0
    <2>1. ASSUME NEW m \in Detoured PROVE ParVal(tag', m) \in Device(m) /\ CurrVal(tag', m) # 0
      BY <1>5, <1>6 DEF TreeInv
    <2>2. ParVal(tag', n) = in /\ CurrVal(tag', n) = out
      BY <1>2
    <2> QED
      BY <1>1, <1>4, <2>1, <2>2
  <1>11. root \in Detoured'
    BY <1>4
  <1> QED
    BY <1>3, <1>9, <1>10, <1>11

(* After a packet has left a node, that node has its curr byte set.        *)
LEMMA SenderSet ==
  ASSUME TypeOK, NEW n \in Node, NEW out \in Device(n), NEW par, NEW start, Sent(n, out, par, start, tag'),
         status' # "flight" \/ SendRealOut(n, out)
  PROVE  status' = "flight" => CurrVal(tag', Link[at'][1]) # 0
  <1> SUFFICES ASSUME status' = "flight" PROVE CurrVal(tag', Link[at'][1]) # 0
    OBVIOUS
  <1>1. at' = Link[<<n, out>>]
    BY DEF SendRealOut
  <1>2. <<n, out>> \in Port /\ Link[Link[<<n, out>>]] = <<n, out>>
    BY PortType, LinkOfLink
  <1>3. Link[at'][1] = n
    BY <1>1, <1>2
  <1>4. CurrVal(tag', n) = out /\ out # 0
    BY PortType DEF Sent
  <1> QED
    BY <1>3, <1>4

LEMMA TreeForward ==
  ASSUME TypeOK, TreeInv, NEW n \in Node, NEW in \in Device(n), IpForward(n, in)
  PROVE  TreeInv'
  <1>1. /\ at = <<n, in>> /\ status = "flight" /\ n # Dst
        /\ \E r \in RouteInput(n, in) :
             /\ r.out \in Device(n)
             /\ tag' = r.tag
             /\ \/ ttl' = 0 /\ status' = "ttlExpired" /\ at' = at
                \/ ttl' # 0 /\ SendRealOut(n, r.out)
    BY ForwardDecision, Zenon
  <1>2. PICK r \in RouteInput(n, in) :
             /\ r.out \in Device(n)
             /\ tag' = r.tag
             /\ \/ ttl' = 0 /\ status' = "ttlExpired" /\ at' = at
                \/ ttl' # 0 /\ SendRealOut(n, r.out)
    BY <1>1, Zenon
  <1> DEFINE out == r.out
  <1>3. out \in Device(n) /\ (status' # "flight" \/ SendRealOut(n, out))
    BY <1>2
  <1>4. Leaves(n, in, out, tag')
    BY <1>2, AnyDecision
  <1> HIDE DEF out
  <1>5. ~ NormalRouting => CurrVal(tag, Link[<<n, in>>][1]) # 0
    <2>1. at # DstPort
      BY <1>1, RoutingAssumption
    <2> QED
      BY <1>1, <2>1 DEF TreeInv
  <1>6. CASE tag' = tag /\ (Link[<<n, out>>] = DstPort \/ Algorithm \notin {"dfs", "bfs"})
    <2>1. status' = "flight" /\ Link[<<n, out>>] = DstPort => at' = DstPort
      BY <1>3 DEF SendRealOut
    <2>2. NormalRouting' = NormalRouting /\ Detoured' = Detoured
      BY <1>6 DEF NormalRouting, Detoured
    <2>3. \A m \in Detoured : ParentNode(m)' = ParentNode(m)
      BY <1>6 DEF ParentNode
    <2>4. \A root \in Detoured : Tree(root) => Tree(root)'
      BY <1>6, <2>2, <2>3 DEF Tree
    <2>5. status' = "flight" /\ ~ NormalRouting' => at' = DstPort
      BY <1>6, <2>1, <2>2 DEF TreeInv
    <2> QED
      BY <1>6, <2>2, <2>4, <2>5 DEF TreeInv
  <1>7. CASE Sent(n, out, ParVal(tag, n), PacketStart(tag), tag')
    <2>1. status' = "flight" => CurrVal(tag', Link[at'][1]) # 0
      BY <1>3, <1>7, SenderSet
    <2>2. /\ NormalRouting' = NormalRouting
          /\ (NormalRouting <=> Detoured = {})'
          /\ (\A m \in Detoured : ParVal(tag, m) \in Device(m) /\ CurrVal(tag, m) # 0)'
          /\ (Detoured = {} \/ \E root \in Detoured : Tree(root))'
      BY <1>3, <1>7, TreeSame
    <2> QED
      BY <2>1, <2>2 DEF TreeInv
  <1>8. CASE NormalRouting /\ Algorithm \in {"dfs", "bfs"} /\ Sent(n, out, 1, 1, tag')
    <2>1. status' = "flight" => CurrVal(tag', Link[at'][1]) # 0
      BY <1>3, <1>8, SenderSet
    <2>2. /\ ~ NormalRouting' /\ Detoured' # {}
          /\ (\A m \in Detoured : ParVal(tag, m) \in Device(m) /\ CurrVal(tag, m) # 0)'
          /\ (Detoured = {} \/ \E root \in Detoured : Tree(root))'
      BY <1>3, <1>8, TreeBegins
    <2> QED
      BY <1>8, <2>1, <2>2 DEF TreeInv
  <1>9. CASE ~ NormalRouting /\ CurrVal(tag, n) = 0 /\ Sent(n, out, in, PacketStart(tag), tag')
    <2>1. status' = "flight" => CurrVal(tag', Link[at'][1]) # 0
      BY <1>3, <1>9, SenderSet
    <2>2. Detoured # {}
      BY <1>9 DEF TreeInv
    <2>3. /\ ~ NormalRouting' /\ Detoured' # {}
          /\ (\A m \in Detoured : ParVal(tag, m) \in Device(m) /\ CurrVal(tag, m) # 0)'
          /\ (Detoured = {} \/ \E root \in Detoured : Tree(root))'
      BY <1>3, <1>5, <1>9, <2>2, TreeGrows
    <2> QED
      BY <1>9, <2>1, <2>3 DEF TreeInv
  <1> QED
    BY <1>4, <1>6, <1>7, <1>8, <1>9 DEF Leaves

LEMMA NoTree ==
  ASSUME tag = EmptyTag
  PROVE  NormalRouting /\ Detoured = {}
  BY EmptyTagType DEF NormalRouting, Detoured

LEMMA TreeInit == Init => TreeInv
  BY NoTree DEF Init, TreeInv

(* A new packet leaves without a detour.                                   *)
LEMMA TreeSend ==
  ASSUME tag' = EmptyTag
  PROVE  TreeInv'
  <1>1. NormalRouting' /\ Detoured' = {}
    BY EmptyTagType DEF NormalRouting, Detoured
  <1> QED
    BY <1>1 DEF TreeInv

(* No other action puts a packet on a link.                                *)
LEMMA OtherStatus ==
  ASSUME [Next]_vars
  PROVE  \/ \E query \in Query : Send(query)
         \/ \E n \in Node : \E in \in Device(n) : IpForward(n, in)
         \/ UNCHANGED <<at, tag>> /\ (status' = "flight" => status = "flight")
  BY DEF Next, Receive, SendAborts, DropAtDownInterface, LocalDeliver, RouteInputError,
         NoRouteFound, Abort, Discard, InterfaceEvent, SetDown, SetUp, AddressChange, packet,
         vars

LEMMA TreeStays ==
  ASSUME TreeInv, UNCHANGED <<at, tag>>, status' = "flight" => status = "flight"
  PROVE  TreeInv'
  <1>1. NormalRouting' = NormalRouting /\ Detoured' = Detoured
    BY DEF NormalRouting, Detoured
  <1>2. \A m \in Detoured : ParentNode(m)' = ParentNode(m)
    BY DEF ParentNode
  <1>3. \A root \in Detoured : Tree(root) => Tree(root)'
    BY <1>1, <1>2 DEF Tree
  <1>4. Detoured = {} \/ \E root \in Detoured : Tree(root)'
    BY <1>3 DEF TreeInv
  <1> QED
    BY <1>1, <1>4 DEF TreeInv

LEMMA TreeNext == TypeInv /\ TreeInv /\ [Next]_vars => TreeInv'
  <1> SUFFICES ASSUME TypeInv, TreeInv, [Next]_vars PROVE TreeInv'
    OBVIOUS
  <1>1. TypeOK
    BY DEF TypeInv, NetType, PacketType, TypeOK
  <1>2. CASE \E query \in Query : Send(query)
    BY <1>1, <1>2, SendResult, TreeSend
  <1>3. CASE \E n \in Node : \E in \in Device(n) : IpForward(n, in)
    BY <1>1, <1>3, TreeForward
  <1>4. CASE UNCHANGED <<at, tag>> /\ (status' = "flight" => status = "flight")
    BY <1>4, TreeStays
  <1> QED
    BY <1>2, <1>3, <1>4, OtherStatus

(* Whichever algorithm routes it, and through whatever interface events,   *)
(* the parents that a detour leaves in the tag of its packet (the parent   *)
(* bytes RouteInputDFS and RouteInputBFS write at a first visit) lead back *)
(* to the node where it began and contain no cycle.                        *)
THEOREM ParentsCorrect == Spec => []ParentsFormTree
  <1>1. TreeInv => ParentsFormTree
    BY DEF TreeInv, Tree, ParentsFormTree
  <1> QED
    BY <1>1, InitTypeInv, NextTypeInv, TreeInit, TreeNext, PTL DEF Spec

LEMMA ParentsKept ==
  ASSUME TypeOK, TreeInv, NEW n \in Node, NEW in \in Device(n), IpForward(n, in)
  PROVE  /\ PacketStart(tag') >= PacketStart(tag)
         /\ \A m \in Node : ParVal(tag, m) # 0 => ParVal(tag', m) = ParVal(tag, m)
  <1>1. PICK r \in RouteInput(n, in) : r.out \in Device(n) /\ tag' = r.tag
    BY ForwardDecision, Zenon
  <1>2. Leaves(n, in, r.out, tag')
    BY <1>1, AnyDecision
  <1>3. PacketStart(tag) \in 0 .. 255
    BY TagBytes, NodeAssumption, RoutingAssumption DEF TypeOK
  <1>4. ASSUME NEW out, Sent(n, out, ParVal(tag, n), PacketStart(tag), tag')
        PROVE  /\ PacketStart(tag') >= PacketStart(tag)
               /\ \A m \in Node : ParVal(tag, m) # 0 => ParVal(tag', m) = ParVal(tag, m)
    BY <1>3, <1>4 DEF Sent
  <1>5. ASSUME NEW out, NormalRouting, Sent(n, out, 1, 1, tag')
        PROVE  /\ PacketStart(tag') >= PacketStart(tag)
               /\ \A m \in Node : ParVal(tag, m) # 0 => ParVal(tag', m) = ParVal(tag, m)
    <2>1. \A m \in Node : ParVal(tag, m) = 0
      BY <1>5 DEF TreeInv, Detoured
    <2>2. PacketStart(tag') = 1 /\ PacketStart(tag) = 0
      BY <1>5 DEF Sent, NormalRouting
    <2> QED
      BY <2>1, <2>2
  <1>6. ASSUME NEW out, CurrVal(tag, n) = 0, Sent(n, out, in, PacketStart(tag), tag')
        PROVE  /\ PacketStart(tag') >= PacketStart(tag)
               /\ \A m \in Node : ParVal(tag, m) # 0 => ParVal(tag', m) = ParVal(tag, m)
    <2>1. ParVal(tag, n) = 0
      BY <1>6 DEF TreeInv, Detoured
    <2> QED
      BY <1>3, <1>6, <2>1 DEF Sent
  <1>7. tag' = tag => /\ PacketStart(tag') >= PacketStart(tag)
                      /\ \A m \in Node : ParVal(tag, m) # 0 => ParVal(tag', m) = ParVal(tag, m)
    BY <1>3
  <1> QED
    BY <1>2, <1>4, <1>5, <1>6, <1>7 DEF Leaves

(* Whichever algorithm routes it, a packet under way never forgets the     *)
(* port through which a detour first entered a node, and never goes back   *)
(* to plain routing: the curr byte of a node whose parent is set is never  *)
(* 0 again, so no node takes the first visit branch of RouteInputDFS or    *)
(* RouteInputBFS twice.                                                    *)
THEOREM ParentFixedCorrect == Spec => ParentFixed
  <1>1. TypeInv /\ TreeInv /\ [Next]_vars =>
          [status = "flight" =>
             /\ PacketStart(tag') >= PacketStart(tag)
             /\ \A n \in Node : ParVal(tag, n) # 0 => ParVal(tag', n) = ParVal(tag, n)]_vars
    <2> SUFFICES ASSUME TypeInv, TreeInv, [Next]_vars, status = "flight"
                 PROVE  /\ PacketStart(tag') >= PacketStart(tag)
                        /\ \A n \in Node :
                             ParVal(tag, n) # 0 => ParVal(tag', n) = ParVal(tag, n)
      OBVIOUS
    <2>0. TypeOK
      BY DEF TypeInv, NetType, PacketType, TypeOK
    <2>1. ASSUME NEW query \in Query PROVE ~ Send(query)
      BY DEF Send
    <2>2. CASE \E n \in Node : \E in \in Device(n) : IpForward(n, in)
      BY <2>0, <2>2, ParentsKept
    <2>3. CASE UNCHANGED <<at, ttl, tagged, tag>>
      <3>1. PacketStart(tag) \in 0 .. 255
        BY <2>0, TagBytes, NodeAssumption, RoutingAssumption DEF TypeOK
      <3> QED
        BY <2>3, <3>1
    <2> QED
      BY <2>1, <2>2, <2>3, OtherActions
  <1> QED
    BY <1>1, InitTypeInv, NextTypeInv, TreeInit, TreeNext, PTL DEF Spec, ParentFixed

(***************************************************************************)
(* When a breadth first detour aborts.  A node's curr byte is only written *)
(* together with its parent byte, because RouteInputBFS forwards no packet *)
(* by plain routing, and a packet without a tag is never detoured.         *)
(***************************************************************************)
BfsInv ==
    /\ ~ NormalRouting => tagged
    /\ \A n \in Node : /\ CurrVal(tag, n) # 0 => ParVal(tag, n) # 0
                       /\ CurrVal(tag, n) \in {0} \cup Device(n)

LEMMA BfsSendFields ==
  ASSUME NEW n \in Node, NEW c, NEW t
  PROVE  /\ BFSPacketSend(n, c, t).out = IF c \in Device(n) THEN c + 1 ELSE Null
         /\ c \in Device(n) => BFSPacketSend(n, c, t) = ActualSend(n, c + 1, t)
  BY DEF BFSPacketSend, ActualSend, Decision

(* The device that a breadth first detour leaves on does not exist only if *)
(* the loopback device, the last one, has been used.                       *)
LEMMA BfsStepsOff ==
  ASSUME LoopbackIsLast, NEW n \in Node, NEW curr \in {0} \cup Device(n), NEW par \in Device(n),
         NEW c, c = Scan(n, curr + 1, par),
         c \notin Device(n) \/ c + 1 \notin Device(n)
  PROVE  Loopback[n] \in {curr, par}
  <1>1. NDevices[n] \in Nat /\ Loopback[n] = NDevices[n]
    BY NodeAssumption DEF LoopbackIsLast
  <1>2. curr \in 0 .. NDevices[n] /\ par \in 1 .. NDevices[n]
    BY <1>1 DEF Device
  <1>3. \/ curr + 1 > NDevices[n]
        \/ c = par
        \/ c \in Usable(n, curr + 1, par)
    BY <1>2, ScanResult
  <1>4. CASE curr + 1 > NDevices[n]
    BY <1>1, <1>2, <1>4
  <1>5. CASE c = par
    BY <1>1, <1>2, <1>5 DEF Device
  <1>6. CASE c \in Usable(n, curr + 1, par)
    BY <1>1, <1>2, <1>6 DEF Usable, Device
  <1> QED
    BY <1>3, <1>4, <1>5, <1>6

(* The byte of a detoured packet that leaves n.                            *)
BfsLeaves(n, out, t) == tagged /\ \E par \in Device(n) : \E start : Sent(n, out, par, start, t)

LEMMA BfsDecision ==
  ASSUME Algorithm = "bfs", TypeOK, TreeInv, BfsInv,
         NEW n \in Node, NEW in \in Device(n), NEW r \in RouteInput(n, in)
  PROVE  /\ r.out \in Device(n) => r.tag = tag \/ BfsLeaves(n, r.out, r.tag)
         /\ LoopbackIsLast /\ ~ NormalRouting /\ r.out \notin Device(n) =>
              Loopback[n] \in {in, CurrVal(tag, n), ParVal(tag, n)}
  <1>0. tag \in Tag
    BY DEF TypeOK
  <1>1. CASE LookupStatic(n) # {}
    <2>1. PICK d \in LookupStatic(n) : r = Decision(d, tag)
      BY <1>1 DEF RouteInput
    <2>2. r.out = d /\ r.tag = tag /\ d \in Device(n)
      BY <2>1, DecisionFields DEF LookupStatic
    <2> QED
      BY <2>2
  <1>2. CASE LookupStatic(n) = {} /\ NormalRouting
    <2>1. r \in RouteInputBFS(n, in)
      BY <1>2 DEF RouteInput
    <2>2. CASE r = Decision(Null, tag)
      BY <1>2, <2>2, DecisionFields
    <2>3. CASE r # Decision(Null, tag)
      <3>1. tagged /\ r = BFSPacketSend(n, Scan(n, 1, 1), StartDetour(n))
        BY <1>2, <2>1, <2>3 DEF RouteInputBFS, BfsNormal
      <3> DEFINE c == Scan(n, 1, 1)
      <3>2. r = BFSPacketSend(n, c, StartDetour(n))
        BY <3>1
      <3> HIDE DEF c
      <3>3. CASE c \in Device(n) /\ c + 1 \in Device(n)
        <4>1. r = ActualSend(n, c + 1, StartDetour(n)) /\ r.out = c + 1
          BY <3>2, <3>3, BfsSendFields
        <4>2. Sent(n, r.out, 1, 1, r.tag)
          BY <1>0, <3>3, <4>1, SentStart
        <4>3. 1 \in Device(n)
          BY NodeAssumption DEF Device
        <4> QED
          BY <1>2, <3>1, <4>2, <4>3 DEF BfsLeaves
      <3>4. CASE c \notin Device(n) \/ c + 1 \notin Device(n)
        <4>1. r.out \notin Device(n)
          BY <3>2, <3>4, BfsSendFields, PortType DEF Null
        <4> QED
          BY <1>2, <4>1
      <3> QED
        BY <3>3, <3>4
    <2> QED
      BY <2>2, <2>3
  <1>3. CASE LookupStatic(n) = {} /\ ~ NormalRouting
    <2> DEFINE curr == CurrVal(tag, n)
               par  == ParVal(tag, n)
    <2>1. tagged /\ r \in BfsCustom(n, in)
      BY <1>3 DEF RouteInput, RouteInputBFS, BfsInv
    <2>2. curr \in {0} \cup Device(n) /\ (curr # 0 => par # 0) /\ (par # 0 => par \in Device(n))
      BY DEF BfsInv, TreeInv, Detoured
    <2>3. \/ curr = 0 /\ par = 0 /\ r = BFSPacketSend(n, in, SetParentValue(tag, n, in))
          \/ par # 0 /\ r = BFSPacketSend(n, in, tag)
          \/ par # 0 /\ r = BFSPacketSend(n, Scan(n, curr + 1, par), tag)
      BY <2>1, <2>2 DEF BfsCustom
    <2> HIDE DEF curr, par
    <2>4. ASSUME in + 1 \notin Device(n), LoopbackIsLast PROVE Loopback[n] = in
      BY <2>4, NodeAssumption DEF Device, LoopbackIsLast
    <2>5. CASE curr = 0 /\ par = 0 /\ r = BFSPacketSend(n, in, SetParentValue(tag, n, in))
      <3>1. r = ActualSend(n, in + 1, SetParentValue(tag, n, in)) /\ r.out = in + 1
        BY <2>5, BfsSendFields
      <3>2. in + 1 \in Device(n) => Sent(n, r.out, in, PacketStart(tag), r.tag)
        BY <1>0, <3>1, SentAdopted
      <3> QED
        BY <2>1, <2>4, <3>1, <3>2 DEF BfsLeaves
    <2>6. ASSUME par # 0, NEW c, r = BFSPacketSend(n, c, tag)
          PROVE  /\ r.out \in Device(n) => BfsLeaves(n, r.out, r.tag)
                 /\ r.out \notin Device(n) => c \notin Device(n) \/ c + 1 \notin Device(n)
      <3>1. CASE c \in Device(n)
        <4>1. r = ActualSend(n, c + 1, tag) /\ r.out = c + 1
          BY <2>6, <3>1, BfsSendFields
        <4>2. c + 1 \in Device(n) => Sent(n, r.out, par, PacketStart(tag), r.tag)
          BY <1>0, <4>1, SentSame DEF par
        <4> QED
          BY <2>1, <2>2, <2>6, <4>1, <4>2 DEF BfsLeaves
      <3>2. CASE c \notin Device(n)
        <4>1. r.out \notin Device(n)
          BY <2>6, <3>2, BfsSendFields, PortType DEF Null
        <4> QED
          BY <3>2, <4>1
      <3> QED
        BY <3>1, <3>2
    <2>7. CASE par # 0 /\ r = BFSPacketSend(n, in, tag)
      BY <2>4, <2>6, <2>7
    <2>8. CASE par # 0 /\ r = BFSPacketSend(n, Scan(n, curr + 1, par), tag)
      <3> DEFINE c == Scan(n, curr + 1, par)
      <3>1. /\ r.out \in Device(n) => BfsLeaves(n, r.out, r.tag)
            /\ r.out \notin Device(n) => c \notin Device(n) \/ c + 1 \notin Device(n)
        BY <2>6, <2>8
      <3>2. LoopbackIsLast /\ (c \notin Device(n) \/ c + 1 \notin Device(n)) =>
              Loopback[n] \in {curr, par}
        BY <2>2, <2>8, BfsStepsOff
      <3> HIDE DEF c
      <3> QED
        BY <3>1, <3>2 DEF curr, par
    <2> QED
      BY <2>3, <2>5, <2>7, <2>8 DEF curr, par
  <1> QED
    BY <1>1, <1>2, <1>3

LEMMA BfsInit == Init => BfsInv
  <1> SUFFICES ASSUME Init PROVE BfsInv
    OBVIOUS
  <1>1. NormalRouting /\ \A n \in Node : CurrVal(tag, n) = 0
    BY NoTree, EmptyTagType DEF Init
  <1> QED
    BY <1>1 DEF BfsInv

LEMMA BfsNext ==
  ASSUME Algorithm = "bfs", TypeOK, TreeInv, BfsInv, [Next]_vars
  PROVE  BfsInv'
  <1>1. ASSUME NEW query \in Query, Send(query) PROVE BfsInv'
    <2>1. tag' = EmptyTag
      BY <1>1 DEF Send
    <2>2. NormalRouting' /\ \A n \in Node : CurrVal(tag', n) = 0
      BY <2>1, EmptyTagType DEF NormalRouting
    <2> QED
      BY <2>2 DEF BfsInv
  <1>2. ASSUME NEW n \in Node, NEW in \in Device(n), IpForward(n, in) PROVE BfsInv'
    <2>1. PICK r \in RouteInput(n, in) : r.out \in Device(n) /\ tag' = r.tag
      BY <1>2, ForwardDecision, Zenon
    <2>2. tagged => tagged'
      BY <1>2 DEF IpForward
    <2>3. r.tag = tag \/ BfsLeaves(n, r.out, r.tag)
      BY <2>1, BfsDecision
    <2>4. CASE tag' = tag
      BY <2>2, <2>4 DEF BfsInv, NormalRouting
    <2>5. CASE BfsLeaves(n, r.out, tag')
      <3>1. PICK par \in Device(n) : \E start : Sent(n, r.out, par, start, tag')
        BY <2>5 DEF BfsLeaves
      <3>2. par # 0 /\ tagged'
        BY <2>2, <2>5, PortType DEF BfsLeaves
      <3>3. \A m \in Node : /\ CurrVal(tag', m) = IF m = n THEN r.out ELSE CurrVal(tag, m)
                            /\ ParVal(tag', m) = IF m = n THEN par ELSE ParVal(tag, m)
        BY <3>1 DEF Sent
      <3> QED
        BY <2>1, <3>2, <3>3 DEF BfsInv
    <2> QED
      BY <2>1, <2>3, <2>4, <2>5
  <1>3. CASE UNCHANGED <<at, ttl, tagged, tag>>
    BY <1>3 DEF BfsInv, NormalRouting
  <1> QED
    BY <1>1, <1>2, <1>3, OtherActions

(* Only Abort takes a packet from its link and ends the program.           *)
LEMMA FlightAborts ==
  ASSUME [Next]_vars, status = "flight", status' = "aborted"
  PROVE  \E n \in Node : \E in \in Device(n) : Abort(n, in)
  <1>1. \A query \in Query : ~ Send(query) /\ ~ SendAborts(query)
    BY DEF Send, SendAborts
  <1>2. ~ DropAtDownInterface /\ ~ LocalDeliver
    BY DEF DropAtDownInterface, LocalDeliver, Discard
  <1>3. \A n \in Node : \A in \in Device(n) :
          ~ RouteInputError(n, in) /\ ~ NoRouteFound(n, in)
    BY DEF RouteInputError, NoRouteFound, Discard
  <1>4. ASSUME NEW n \in Node, NEW in \in Device(n), IpForward(n, in) PROVE FALSE
    <2>1. PICK r \in RouteInput(n, in) : status' = "ttlExpired" \/ SendRealOut(n, r.out)
      BY <1>4, ForwardDecision, Zenon
    <2> QED
      BY <2>1 DEF SendRealOut
  <1>5. ~ InterfaceEvent /\ ~ UNCHANGED vars
    BY DEF InterfaceEvent, SetDown, SetUp, AddressChange, packet, vars
  <1> QED
    BY <1>1, <1>2, <1>3, <1>4, <1>5 DEF Next, Receive

BfsAbortReason ==
    LoopbackIsLast /\ status = "flight" /\ status' = "aborted" /\ ~ NormalRouting =>
        Loopback[at[1]] \in {at[2], CurrVal(tag, at[1]), ParVal(tag, at[1])}

(* A breadth first detour ends the program only at a node where the packet *)
(* has been on the loopback device: the index that RouteInputBFS hands to  *)
(* BFSPacketSend is one short of the last device unless the packet came    *)
(* in on the loopback device or the tag names it.                          *)
THEOREM BfsAborts ==
  ASSUME Algorithm = "bfs"
  PROVE  Spec => BfsDetourAbortsOnlyAfterLoopback
  <1> DEFINE IInv == TypeInv /\ TreeInv /\ BfsInv
  <1>0. TypeInv => TypeOK
    BY DEF TypeInv, NetType, PacketType, TypeOK
  <1>1. Init => IInv
    BY InitTypeInv, TreeInit, BfsInit
  <1>2. IInv /\ [Next]_vars => IInv'
    BY <1>0, NextTypeInv, TreeNext, BfsNext
  <1>3. IInv /\ [Next]_vars => [BfsAbortReason]_vars
    <2> SUFFICES ASSUME IInv, [Next]_vars, LoopbackIsLast, status = "flight",
                        status' = "aborted", ~ NormalRouting
                 PROVE  Loopback[at[1]] \in {at[2], CurrVal(tag, at[1]), ParVal(tag, at[1])}
      BY DEF BfsAbortReason
    <2>1. PICK n \in Node : \E in \in Device(n) : Abort(n, in)
      BY FlightAborts
    <2>2. PICK in \in Device(n) : Abort(n, in)
      BY <2>1
    <2>3. at = <<n, in>>
      BY <2>2 DEF Abort, Routes, Arrives
    <2>4. PICK r \in RouteInput(n, in) : r.out \notin Device(n)
      BY <2>2 DEF Abort
    <2> QED
      BY <1>0, <2>3, <2>4, BfsDecision
  <1>4. [BfsAbortReason]_vars
          => [LoopbackIsLast /\ status = "flight" /\ status' = "aborted" /\ ~ NormalRouting =>
                Loopback[at[1]] \in {at[2], CurrVal(tag, at[1]), ParVal(tag, at[1])}]_vars
    BY DEF BfsAbortReason
  <1> QED
    BY <1>1, <1>2, <1>3, <1>4, PTL DEF Spec, BfsDetourAbortsOnlyAfterLoopback

=============================================================================
