-------------------------- MODULE DfsDetour_proofs --------------------------
(***************************************************************************)
(* The detour of the depth first failover is a search that misses nothing: *)
(* proofs about DfsDetour, for every network.                              *)
(*                                                                         *)
(* A detour that begins at the first router is a traversal in the manner   *)
(* of Tarry: from every node the packet takes each port at most once, and  *)
(* the port through which it first came last of all.  As it comes to a     *)
(* node as often as it leaves it, it can run out of ports only at the node *)
(* where the detour began; and then it has crossed every link that can be  *)
(* reached, in both directions.                                            *)
(***************************************************************************)
EXTENDS DfsDetour, Ipv4GlobalRouting_proofs, FiniteSetTheorems

(* The ports of n that work.                                               *)
Working(n) == {d \in Physical(n) : <<n, d>> \in ifaceUp}

(* The ports through which the detour has left n: those up to curr, apart  *)
(* from the parent, through which it leaves last.  Port 1 of the origin is *)
(* no parent.                                                              *)
Used(n) ==
    IF n \notin Detoured THEN {}
    ELSE IF n # origin /\ CurrVal(tag, n) = ParVal(tag, n) THEN Working(n)
    ELSE {d \in Working(n) : d <= CurrVal(tag, n) /\ (n = origin \/ d # ParVal(tag, n))}

(* The ports through which it has come to n.                               *)
Heard(n) == {d \in Working(n) : Link[<<n, d>>][2] \in Used(Link[<<n, d>>][1])}

Crossings == {p \in PhysicalPort : p[2] \in Used(p[1])}

One(P) == IF P THEN 1 ELSE 0

(* The packet has left every node as often as it has come to it, apart     *)
(* from the node where it is and the origin.                               *)
Balanced ==
    \A n \in Node :
        Cardinality(Heard(n)) + One(n = origin) = Cardinality(Used(n)) + One(n = at[1])

LeadsToOrigin ==
    \A S \in SUBSET (Detoured \ {origin}) : S # {} => \E n \in S : ParentNode(n) \notin S

SearchInv ==
    /\ origin \in Detoured /\ ParVal(tag, origin) = 1 /\ Dst \notin Detoured
    /\ \A n \in Detoured \ {origin} : ParVal(tag, n) \in Heard(n)
    /\ at[2] \in Heard(at[1])
    /\ Balanced
    /\ LeadsToOrigin
    /\ ttl + Cardinality(Crossings) = InitialTtl

(* Before the detour a packet that has been forwarded has crossed a node.  *)
FirstHop ==
    status = "flight" /\ NormalRouting =>
        \/ ttl = InitialTtl \/ at[1] = Dst
        \/ \E m \in Node \ {at[1]} : CurrVal(tag, m) # 0

DetourInv ==
    SearchesFromFirstRouter =>
        \/ CutOff(origin)
        \/ status = "delivered"
        \/ status = "flight" /\ at[1] = Dst /\ at \in ifaceUp
        \/ status = "flight" /\ at[1] # Dst /\ SearchInv

(***************************************************************************)
(* The ports of a node and the scan for the next one, in a network whose   *)
(* links have failed as links.                                             *)
(***************************************************************************)
Calm == LoopbackIsLast /\ LinksFailed /\ DownRecorded /\ TypeOK

LEMMA WorkingLinks ==
  ASSUME Calm, NEW n \in Node, NEW d \in Working(n)
  PROVE  /\ <<n, d>> \in PhysicalPort /\ <<n, d>> \in ifaceUp
         /\ d \in Nat /\ 1 <= d /\ d < NDevices[n] /\ d \in Device(n)
         /\ Link[<<n, d>>] \in PhysicalPort
         /\ Link[<<n, d>>] = <<Link[<<n, d>>][1], Link[<<n, d>>][2]>>
         /\ Link[<<n, d>>][1] \in Node \ {n}
         /\ Link[<<n, d>>][2] \in Working(Link[<<n, d>>][1])
         /\ Link[Link[<<n, d>>]] = <<n, d>>
  <1> DEFINE q == Link[<<n, d>>]
  <1>1. d \in Physical(n) /\ <<n, d>> \in ifaceUp
    BY DEF Working
  <1>2. <<n, d>> \in PhysicalPort /\ q \in PhysicalPort
    BY <1>1, LinkPhysical
  <1>3. q \in ifaceUp
    BY <1>1, <1>2 DEF Calm, LinksFailed
  <1>4. q \in Port /\ q[1] \in Node /\ q[2] \in Device(q[1]) /\ q = <<q[1], q[2]>>
    BY <1>2, PortType
  <1>5. q[1] # n /\ Link[q] = <<n, d>>
    <2>1. <<n, d>> \in Port /\ <<n, d>>[1] = n
      BY <1>2, PortType
    <2> QED
      BY <1>2, <2>1, LinkAssumption
  <1>6. q[2] \in Physical(q[1])
    BY <1>2, <1>4 DEF PhysicalPort, Physical
  <1>7. q[2] \in Working(q[1])
    BY <1>3, <1>4, <1>6 DEF Working
  <1>8. d \in Nat /\ 1 <= d /\ d < NDevices[n] /\ d \in Device(n)
    BY <1>1, PhysicalBeforeLoopback DEF Calm, Physical
  <1> QED
    BY <1>1, <1>2, <1>4, <1>5, <1>7, <1>8

LEMMA BytesFinite == IsFiniteSet(1 .. 254)
  <1>1. 1 \in Int /\ 254 \in Int
    OBVIOUS
  <1> QED
    BY <1>1, FS_Interval, Zenon

LEMMA WorkingFinite ==
  ASSUME NEW n \in Node
  PROVE  IsFiniteSet(Working(n)) /\ Cardinality(Working(n)) \in Nat
  <1>1. Working(n) \in SUBSET (1 .. 254)
    BY PortType DEF Working, Physical
  <1>2. IsFiniteSet(Working(n))
    BY <1>1, BytesFinite, FS_Subset
  <1> QED
    BY <1>2, FS_CardinalityType

LEMMA PortsFinite ==
  IsFiniteSet(PhysicalPort) /\ Cardinality(PhysicalPort) \in Nat
  <1>1. PhysicalPort \in SUBSET (Node \X (1 .. 254))
    BY PortType
  <1>2. IsFiniteSet(1 .. 254)
    BY BytesFinite
  <1>3. IsFiniteSet(Node \X (1 .. 254))
    BY <1>2, FS_Product, NodeAssumption
  <1>4. IsFiniteSet(PhysicalPort)
    BY <1>1, <1>3, FS_Subset
  <1> QED
    BY <1>4, FS_CardinalityType

LEMMA UsableWorks ==
  ASSUME Calm, NEW n \in Node, NEW first \in Nat \ {0}, NEW parent
  PROVE  Usable(n, first, parent) = {d \in Working(n) : first <= d /\ d # parent}
  <1>1. NDevices[n] \in Nat
    BY PhysicalBeforeLoopback DEF Calm
  <1>2. ASSUME NEW d \in Physical(n) PROVE NotWorking(n, d) <=> <<n, d>> \notin ifaceUp
    <2>1. <<n, d>> \in PhysicalPort /\ d \in Device(n)
      BY LinkPhysical DEF Physical
    <2>2. <<n, d>>[1] = n /\ <<n, d>>[2] = d
      OBVIOUS
    <2>3. <<n, d>> \in ifaceUp => ~ NotWorking(n, d)
      BY <2>1, <2>2 DEF Calm, LinksFailed
    <2>4. <<n, d>> \notin ifaceUp => NotWorking(n, d)
      BY <2>1 DEF Calm, DownRecorded, NotWorking
    <2> QED
      BY <2>3, <2>4
  <1>3. ASSUME NEW d \in Usable(n, first, parent)
        PROVE  d \in Working(n) /\ first <= d /\ d # parent
    <2>1. /\ d \in Nat /\ first <= d /\ d <= NDevices[n] - 1
          /\ ~ NotWorking(n, d) /\ d # parent
      BY <1>1, <1>3 DEF Usable
    <2>2. d \in Nat \ {0} /\ d < NDevices[n]
      BY <1>1, <2>1
    <2>3. d \in Physical(n)
      BY <2>2, PhysicalBeforeLoopback DEF Calm
    <2> QED
      BY <1>2, <2>1, <2>3 DEF Working
  <1>4. ASSUME NEW d \in Working(n), first <= d, d # parent
        PROVE  d \in Usable(n, first, parent)
    <2>1. d \in Physical(n) /\ <<n, d>> \in ifaceUp
      BY DEF Working
    <2>2. d \in Nat /\ d < NDevices[n]
      BY WorkingLinks
    <2>3. d \in first .. NDevices[n] - 1
      BY <1>1, <1>4, <2>2
    <2> QED
      BY <1>2, <1>4, <2>1, <2>3 DEF Usable
  <1> QED
    BY <1>3, <1>4

(* The scan settles on the first port that works, from first on, and is    *)
(* not the parent, and on the parent if there is none.                     *)
LEMMA ScanFinds ==
  ASSUME Calm, NEW n \in Node, NEW first \in Nat \ {0}, first <= NDevices[n], NEW parent,
         NEW out, out = Scan(n, first, parent)
  PROVE  \/ /\ out \in Working(n) /\ first <= out /\ out # parent
            /\ \A d \in Working(n) : first <= d /\ d # parent => out <= d
         \/ /\ out = parent
            /\ \A d \in Working(n) : d < first \/ d = parent
  <1> DEFINE U == Usable(n, first, parent)
  <1>1. U = {d \in Working(n) : first <= d /\ d # parent}
    BY UsableWorks
  <1>2. U \in SUBSET Nat
    BY <1>1, WorkingLinks
  <1>3. NDevices[n] \in Nat
    BY PhysicalBeforeLoopback DEF Calm
  <1>4. out = IF U = {} THEN parent ELSE Smallest(U)
    BY <1>3 DEF Scan
  <1>5. CASE U = {}
    <2>1. out = parent
      BY <1>4, <1>5
    <2>2. ASSUME NEW d \in Working(n), d # parent PROVE d < first
      <3>1. d \notin U /\ d \in Nat
        BY <1>5, WorkingLinks
      <3> HIDE DEF U
      <3> QED
        BY <1>1, <2>2, <3>1
    <2> QED
      BY <2>1, <2>2
  <1>6. CASE U # {}
    <2> HIDE DEF U
    <2>1. out = Smallest(U)
      BY <1>4, <1>6
    <2>2. Smallest(U) \in U /\ \A d \in U : Smallest(U) <= d
      BY <1>2, <1>6, SmallestIn
    <2> QED
      BY <1>1, <2>1, <2>2
  <1> QED
    BY <1>5, <1>6

(***************************************************************************)
(* The ports that have been used.                                          *)
(***************************************************************************)
LEMMA UsedFinite ==
  ASSUME NEW n \in Node
  PROVE  /\ Used(n) \subseteq Working(n) /\ Heard(n) \subseteq Working(n)
         /\ IsFiniteSet(Used(n)) /\ Cardinality(Used(n)) \in Nat
         /\ IsFiniteSet(Heard(n)) /\ Cardinality(Heard(n)) \in Nat
  <1>1. Used(n) \in SUBSET Working(n) /\ Heard(n) \in SUBSET Working(n)
    BY DEF Used, Heard
  <1>2. IsFiniteSet(Used(n)) /\ IsFiniteSet(Heard(n))
    BY <1>1, WorkingFinite, FS_Subset
  <1> QED
    BY <1>1, <1>2, FS_CardinalityType

LEMMA CrossingsFinite ==
  IsFiniteSet(Crossings) /\ Cardinality(Crossings) \in Nat
  <1>1. Crossings \in SUBSET PhysicalPort
    BY DEF Crossings
  <1>2. IsFiniteSet(Crossings)
    BY <1>1, PortsFinite, FS_Subset
  <1> QED
    BY <1>2, FS_CardinalityType

LEMMA OneIs == \A P \in BOOLEAN : One(P) \in {0, 1} /\ (One(P) = 1 <=> P)
  BY DEF One

(* What is assumed of a packet that IpForward takes from n.                *)
Searching(n, in) ==
    /\ Calm /\ DfsInv /\ SearchInv
    /\ ~ NormalRouting
    /\ \A m \in Node : ~ CrossedBefore(m)
    /\ n \in Node /\ in \in Device(n) /\ at = <<n, in>>

LEMMA NodeBytes ==
  ASSUME Calm, DfsInv, \A m \in Node : ~ CrossedBefore(m), NEW m \in Node
  PROVE  /\ CurrVal(tag, m) \in Nat /\ CurrVal(tag, m) < NDevices[m]
         /\ m \in Detoured <=> CurrVal(tag, m) # 0
         /\ m \in Detoured <=> ParVal(tag, m) # 0
         /\ NDevices[m] \in 2 .. 254
         /\ m \in Detoured => ParVal(tag, m) \in Physical(m)
  <1>1. /\ \A d \in Physical(m) : d \in Nat /\ 1 <= d /\ d < NDevices[m]
        /\ NDevices[m] \in 2 .. 254
    BY PhysicalBeforeLoopback DEF Calm
  <1>2. CurrVal(tag, m) \in {0} \cup Physical(m) /\ ParVal(tag, m) \in {0} \cup Physical(m)
    BY DEF DfsInv, PortsNamed
  <1>3. ParVal(tag, m) # 0 => CurrVal(tag, m) # 0
    BY DEF DfsInv, ParentsOfDetour
  <1>4. CurrVal(tag, m) # 0 => ParVal(tag, m) # 0
    BY DEF CrossedBefore
  <1>5. m \in Detoured <=> ParVal(tag, m) # 0
    BY DEF Detoured
  <1> QED
    BY <1>1, <1>2, <1>3, <1>4, <1>5

(* A node other than the origin to which the packet has come has been      *)
(* entered once more than it has been left.                                *)
LEMMA EnteredOnceMore ==
  ASSUME NEW n, NEW in, Searching(n, in), n # origin
  PROVE  /\ Used(n) # Working(n)
         /\ n \in Detoured => CurrVal(tag, n) # ParVal(tag, n)
  <1>0. n \in Node /\ at[1] = n
    BY DEF Searching
  <1>1. Cardinality(Heard(n)) + One(FALSE) = Cardinality(Used(n)) + One(TRUE)
    <2>1. Cardinality(Heard(n)) + One(n = origin) = Cardinality(Used(n)) + One(n = at[1])
      BY <1>0 DEF Searching, SearchInv, Balanced
    <2>2. (n = origin) = FALSE /\ (n = at[1]) = TRUE
      BY <1>0
    <2> QED
      BY <2>1, <2>2
  <1>2. Cardinality(Heard(n)) = Cardinality(Used(n)) + 1
    BY <1>0, <1>1, UsedFinite DEF One
  <1>3. Cardinality(Heard(n)) <= Cardinality(Working(n))
    BY <1>0, UsedFinite, WorkingFinite, FS_Subset
  <1>4. Used(n) # Working(n)
    BY <1>0, <1>2, <1>3, WorkingFinite, UsedFinite
  <1> QED
    BY <1>4 DEF Used

(* What RouteInputDFS makes of the packet.                                 *)
LEMMA SearchDecision ==
  ASSUME Algorithm = "dfs", NEW n, NEW in, Searching(n, in), LookupStatic(n) = {},
         NEW r \in RouteInput(n, in)
  PROVE  \E par :
           /\ par = (IF n \in Detoured THEN ParVal(tag, n) ELSE in)
           /\ par \in Physical(n)
           /\ r.out = Scan(n, CurrVal(tag, n) + 1, par)
           /\ r.out \in Device(n)
           /\ Sent(n, r.out, par, PacketStart(tag), r.tag)
  <1> DEFINE t   == DfsTag(n, in)
             par == IF n \in Detoured THEN ParVal(tag, n) ELSE in
             out == Scan(n, CurrVal(t, n) + 1, ParVal(t, n))
  <1>1. r = ActualSend(n, out, t)
    BY DEF RouteInput, RouteInputDFS, DfsCustom, Searching
  <1>2. tag \in Tag /\ n \in Node /\ in \in Device(n)
    BY DEF Searching, Calm, TypeOK
  <1>3. /\ t \in Tag
        /\ PacketStart(t) = PacketStart(tag)
        /\ \A m \in Node :
             /\ CurrVal(t, m) = CurrVal(tag, m)
             /\ ParVal(t, m) = IF m = n /\ CurrVal(tag, n) = 0 THEN in ELSE ParVal(tag, m)
    BY <1>2, DfsTagBytes
  <1>4. /\ CurrVal(tag, n) \in Nat /\ CurrVal(tag, n) < NDevices[n]
        /\ n \in Detoured <=> CurrVal(tag, n) # 0
        /\ NDevices[n] \in 2 .. 254
        /\ n \in Detoured => ParVal(tag, n) \in Physical(n)
    BY <1>2, NodeBytes DEF Searching
  <1>5. ParVal(t, n) = par /\ CurrVal(t, n) = CurrVal(tag, n)
    BY <1>2, <1>3, <1>4
  <1>6. par \in Physical(n)
    <2>1. in \in Physical(n)
      BY <1>2 DEF Searching, DfsInv, PhysicalPort, Physical
    <2> QED
      BY <1>4, <2>1
  <1> HIDE DEF t, par
  <1>7. r.out = out
    BY <1>1, <1>2, <1>3, ActualSendType
  <1>8. out = Scan(n, CurrVal(tag, n) + 1, par)
    BY <1>5
  <1> HIDE DEF out
  <1>9. out \in Device(n)
    <2>1. CurrVal(tag, n) + 1 \in Nat \ {0} /\ CurrVal(tag, n) + 1 <= NDevices[n]
      BY <1>4
    <2>2. out \in Working(n) \/ out = par
      BY <1>2, <1>8, <2>1, ScanFinds DEF Searching
    <2> QED
      BY <1>6, <2>2 DEF Working, Physical
  <1>10. Sent(n, out, par, PacketStart(tag), r.tag)
    <2>1. /\ PacketStart(r.tag) = PacketStart(t)
          /\ \A m \in Node :
               /\ CurrVal(r.tag, m) = IF m = n THEN out ELSE CurrVal(t, m)
               /\ ParVal(r.tag, m) = ParVal(t, m)
      BY <1>1, <1>2, <1>3, <1>9, SentTag
    <2>2. \A m \in Node : m # n => ParVal(t, m) = ParVal(tag, m)
      BY <1>3
    <2> QED
      BY <1>2, <1>3, <1>5, <2>1, <2>2 DEF Sent
  <1> QED
    BY <1>6, <1>7, <1>8, <1>9, <1>10 DEF par

(* The ports used after the packet has left n through out: one more, or    *)
(* none because the search is over.                                        *)
NextPort(n, out) ==
    /\ out \in Working(n) \ Used(n)
    /\ Used(n)' = Used(n) \cup {out}
    /\ \A m \in Node \ {n} : Used(m)' = Used(m)

LEMMA FirstVisit ==
  ASSUME NEW n, NEW in, Searching(n, in), n \notin Detoured, NEW out, UNCHANGED <<ifaceUp, origin>>,
         out = Scan(n, CurrVal(tag, n) + 1, in), out \in Device(n),
         Sent(n, out, in, PacketStart(tag), tag')
  PROVE  NextPort(n, out)
  <1>0. n \in Node /\ at = <<n, in>> /\ Calm
    BY DEF Searching
  <1>1. CurrVal(tag, n) = 0 /\ NDevices[n] \in 2 .. 254
    BY <1>0, NodeBytes DEF Searching
  <1>2. in \in Working(n) /\ n # origin
    <2>1. at[2] \in Heard(at[1]) /\ origin \in Detoured
      BY DEF Searching, SearchInv
    <2> QED
      BY <1>0, <2>1 DEF Heard
  <1>3. \/ /\ out \in Working(n) /\ 1 <= out /\ out # in
           /\ \A d \in Working(n) : 1 <= d /\ d # in => out <= d
        \/ /\ out = in
           /\ \A d \in Working(n) : d < 1 \/ d = in
    <2>1. 1 \in Nat \ {0} /\ 1 <= NDevices[n] /\ CurrVal(tag, n) + 1 = 1
      BY <1>1
    <2> QED
      BY <1>0, <2>1, ScanFinds
  <1>4. \A d \in Working(n) : d \in Nat /\ 1 <= d
    BY <1>0, WorkingLinks
  <1>5. in # 0 /\ out # 0
    BY <1>0, PortType DEF Searching
  <1>6. /\ \A m \in Node : /\ CurrVal(tag', m) = IF m = n THEN out ELSE CurrVal(tag, m)
                           /\ ParVal(tag', m) = IF m = n THEN in ELSE ParVal(tag, m)
    BY DEF Sent
  <1>7. Detoured' = Detoured \cup {n} /\ \A m \in Node : Working(m)' = Working(m)
    BY <1>0, <1>5, <1>6 DEF Detoured, Working
  <1>8. Used(n) = {}
    BY DEF Used
  <1>9. Used(n)' = IF out = in THEN Working(n) ELSE {d \in Working(n) : d <= out /\ d # in}
    BY <1>0, <1>2, <1>6, <1>7 DEF Used
  <1>10. Used(n)' = {out} /\ out \in Working(n)
    <2>1. CASE out = in
      BY <1>2, <1>3, <1>4, <1>9, <2>1
    <2>2. CASE out # in
      <3>1. \A d \in Working(n) : d # in /\ d <= out => d = out
        BY <1>3, <1>4, <2>2
      <3>2. out <= out
        BY <1>3, <1>4, <2>2
      <3> QED
        BY <1>3, <1>9, <2>2, <3>1, <3>2
    <2> QED
      BY <2>1, <2>2
  <1>11. ASSUME NEW m \in Node \ {n} PROVE Used(m)' = Used(m)
    BY <1>6, <1>7 DEF Used
  <1> QED
    BY <1>8, <1>10, <1>11 DEF NextPort

LEMMA LaterVisit ==
  ASSUME NEW n, NEW in, Searching(n, in), n \in Detoured, n # origin, NEW out,
         UNCHANGED <<ifaceUp, origin>>,
         out = Scan(n, CurrVal(tag, n) + 1, ParVal(tag, n)), out \in Device(n),
         Sent(n, out, ParVal(tag, n), PacketStart(tag), tag')
  PROVE  NextPort(n, out)
  <1> DEFINE par  == ParVal(tag, n)
             curr == CurrVal(tag, n)
  <1>0. n \in Node /\ at = <<n, in>> /\ Calm
    BY DEF Searching
  <1>1. curr \in Nat /\ curr < NDevices[n] /\ par # 0 /\ NDevices[n] \in 2 .. 254
    BY <1>0, NodeBytes DEF Searching
  <1>2. par \in Working(n)
    BY DEF Searching, SearchInv, Heard
  <1>3. curr # par
    BY EnteredOnceMore
  <1>4. Used(n) = {d \in Working(n) : d <= curr /\ d # par}
    BY <1>3 DEF Used
  <1>6. /\ \A m \in Node : /\ CurrVal(tag', m) = IF m = n THEN out ELSE CurrVal(tag, m)
                           /\ ParVal(tag', m) = ParVal(tag, m)
    BY DEF Sent
  <1>7. Detoured' = Detoured /\ \A m \in Node : Working(m)' = Working(m)
    BY <1>0, <1>6 DEF Detoured, Working
  <1>9. Used(n)' = IF out = par THEN Working(n) ELSE {d \in Working(n) : d <= out /\ d # par}
    BY <1>0, <1>6, <1>7 DEF Used
  <1> HIDE DEF par, curr
  <1>8. \/ /\ out \in Working(n) /\ curr + 1 <= out /\ out # par
           /\ \A d \in Working(n) : curr + 1 <= d /\ d # par => out <= d
        \/ /\ out = par
           /\ \A d \in Working(n) : d < curr + 1 \/ d = par
    <2>1. curr + 1 \in Nat \ {0} /\ curr + 1 <= NDevices[n]
      BY <1>1
    <2>2. out = Scan(n, curr + 1, par)
      BY DEF par, curr
    <2> QED
      BY <1>0, <2>1, <2>2, ScanFinds
  <1>5. \A d \in Working(n) : d \in Nat /\ 1 <= d
    BY <1>0, WorkingLinks
  <1>10. out \in Working(n) \ Used(n) /\ Used(n)' = Used(n) \cup {out}
    <2>1. CASE out = par
      <3>1. \A d \in Working(n) : d <= curr \/ d = par
        <4>1. \A d \in Working(n) : d < curr + 1 \/ d = par
          BY <1>8, <2>1
        <4> QED
          BY <1>1, <1>5, <4>1
      <3> QED
        BY <1>2, <1>4, <1>9, <2>1, <3>1
    <2>2. CASE out # par
      <3>1. out \in Working(n) /\ curr + 1 <= out
        BY <1>8, <2>2
      <3>2. ASSUME NEW d \in Working(n), d # par PROVE d <= out <=> d <= curr \/ d = out
        <4>1. curr + 1 <= d => out <= d
          BY <1>8, <2>2, <3>2
        <4>2. d \in Nat /\ out \in Nat
          BY <1>5, <3>1
        <4> QED
          BY <1>1, <3>1, <4>1, <4>2
      <3>3. out \notin Used(n)
        BY <1>1, <1>4, <1>5, <3>1
      <3> QED
        BY <1>4, <1>9, <2>2, <3>1, <3>2, <3>3
    <2> QED
      BY <2>1, <2>2
  <1>11. ASSUME NEW m \in Node \ {n} PROVE Used(m)' = Used(m)
    BY <1>6, <1>7 DEF Used
  <1> QED
    BY <1>10, <1>11 DEF NextPort

LEMMA BackAtOrigin ==
  ASSUME NEW n, NEW in, Searching(n, in), n = origin, NEW out,
         UNCHANGED <<ifaceUp, origin>>,
         out = Scan(n, CurrVal(tag, n) + 1, 1), out \in Device(n),
         Sent(n, out, 1, PacketStart(tag), tag')
  PROVE  Used(n) = Working(n) \/ NextPort(n, out)
  <1> DEFINE curr == CurrVal(tag, n)
  <1>0. n \in Node /\ at = <<n, in>> /\ Calm /\ n \in Detoured /\ ParVal(tag, n) = 1
    BY DEF Searching, SearchInv
  <1>1. curr \in Nat /\ curr < NDevices[n] /\ curr # 0 /\ NDevices[n] \in 2 .. 254
    BY <1>0, NodeBytes DEF Searching
  <1>4. Used(n) = {d \in Working(n) : d <= curr}
    BY <1>0 DEF Used
  <1>6. /\ \A m \in Node : /\ CurrVal(tag', m) = IF m = n THEN out ELSE CurrVal(tag, m)
                           /\ ParVal(tag', m) = ParVal(tag, m)
    BY <1>0 DEF Sent
  <1>7. Detoured' = Detoured /\ \A m \in Node : Working(m)' = Working(m)
    BY <1>0, <1>6 DEF Detoured, Working
  <1>9. Used(n)' = {d \in Working(n) : d <= out}
    BY <1>0, <1>6, <1>7 DEF Used
  <1> HIDE DEF curr
  <1>8. \/ /\ out \in Working(n) /\ curr + 1 <= out
           /\ \A d \in Working(n) : curr + 1 <= d /\ d # 1 => out <= d
        \/ \A d \in Working(n) : d < curr + 1 \/ d = 1
    <2>1. curr + 1 \in Nat \ {0} /\ curr + 1 <= NDevices[n]
      BY <1>1
    <2>2. out = Scan(n, curr + 1, 1)
      BY DEF curr
    <2> QED
      BY <1>0, <2>1, <2>2, ScanFinds
  <1>5. \A d \in Working(n) : d \in Nat /\ 1 <= d
    BY <1>0, WorkingLinks
  <1>2. CASE \A d \in Working(n) : d < curr + 1 \/ d = 1
    <2>1. \A d \in Working(n) : d <= curr
      BY <1>1, <1>2, <1>5
    <2> QED
      BY <1>4, <2>1
  <1>3. CASE /\ out \in Working(n) /\ curr + 1 <= out
             /\ \A d \in Working(n) : curr + 1 <= d /\ d # 1 => out <= d
    <2>1. ASSUME NEW d \in Working(n) PROVE d <= out <=> d <= curr \/ d = out
      BY <1>1, <1>3, <1>5
    <2>2. out \notin Used(n)
      BY <1>1, <1>3, <1>4, <1>5
    <2>3. ASSUME NEW m \in Node \ {n} PROVE Used(m)' = Used(m)
      BY <1>6, <1>7 DEF Used
    <2>4. Used(n)' = Used(n) \cup {out}
      BY <1>3, <1>4, <1>9, <2>1
    <2> QED
      BY <1>3, <2>2, <2>3, <2>4 DEF NextPort
  <1> QED
    BY <1>2, <1>3, <1>8

(***************************************************************************)
(* The packet crosses a link.                                              *)
(***************************************************************************)
LEMMA HeardNext ==
  ASSUME NEW n, NEW in, Searching(n, in), NEW out, NextPort(n, out), UNCHANGED <<ifaceUp, origin>>,
         NEW q, q = Link[<<n, out>>]
  PROVE  /\ q[1] \in Node \ {n} /\ q[2] \in Working(q[1]) \ Heard(q[1])
         /\ Heard(q[1])' = Heard(q[1]) \cup {q[2]}
         /\ \A m \in Node \ {q[1]} : Heard(m)' = Heard(m)
  <1>0. n \in Node /\ Calm /\ out \in Working(n) /\ out \notin Used(n)
    BY DEF Searching, NextPort
  <1>1. /\ q[1] \in Node \ {n} /\ q[2] \in Working(q[1])
        /\ q = <<q[1], q[2]>> /\ Link[q] = <<n, out>>
    BY <1>0, WorkingLinks
  <1>2. q[2] \notin Heard(q[1])
    BY <1>0, <1>1 DEF Heard
  <1>3. ASSUME NEW m \in Node, NEW d \in Working(m), <<m, d>> # q
        PROVE  d \in Heard(m)' <=> d \in Heard(m)
    <2> DEFINE p == Link[<<m, d>>]
    <2>1. p[1] \in Node /\ p = <<p[1], p[2]>> /\ Link[p] = <<m, d>>
      BY <1>0, WorkingLinks
    <2>2. p # <<n, out>>
      BY <1>3, <2>1
    <2>3. p[2] \in Used(p[1])' <=> p[2] \in Used(p[1])
      <3>1. CASE p[1] = n
        <4>1. p[2] # out
          BY <2>1, <2>2, <3>1
        <4>2. p[2] \in Used(n)' <=> p[2] \in Used(n)
          BY <4>1 DEF NextPort
        <4>3. p[2] \in Used(p[1])' <=> p[2] \in Used(n)'
          BY <3>1
        <4> QED
          BY <3>1, <4>2, <4>3
      <3>2. CASE p[1] # n
        <4>1. Used(p[1])' = Used(p[1])
          BY <2>1, <3>2 DEF NextPort
        <4> QED
          BY <4>1
      <3> QED
        BY <3>1, <3>2
    <2>4. d \in Working(m)'
      BY DEF Working
    <2> QED
      BY <2>3, <2>4 DEF Heard
  <1>4. \A m \in Node : Working(m)' = Working(m)
    BY DEF Working
  <1>5. \A m \in Node : Heard(m)' \subseteq Working(m) /\ Heard(m) \subseteq Working(m)
    BY <1>4 DEF Heard
  <1>6. q[2] \in Heard(q[1])'
    <2>1. Link[<<q[1], q[2]>>][1] = n /\ Link[<<q[1], q[2]>>][2] = out
      BY <1>1
    <2>2. out \in Used(n)'
      BY DEF NextPort
    <2> QED
      BY <1>1, <1>4, <2>1, <2>2 DEF Heard
  <1>7. Heard(q[1])' = Heard(q[1]) \cup {q[2]}
    <2>1. ASSUME NEW d \in Working(q[1]), d # q[2]
          PROVE  d \in Heard(q[1])' <=> d \in Heard(q[1])
      <3>1. <<q[1], d>> # q
        BY <1>1, <2>1
      <3> QED
        BY <1>1, <1>3, <3>1
    <2>2. q[1] \in Node
      BY <1>1
    <2> HIDE DEF Searching
    <2> QED
      BY <1>1, <1>5, <1>6, <2>1, <2>2
  <1>8. ASSUME NEW m \in Node \ {q[1]} PROVE Heard(m)' = Heard(m)
    <2>1. \A d \in Working(m) : <<m, d>> # q
      BY <1>1
    <2>2. \A d \in Working(m) : d \in Heard(m)' <=> d \in Heard(m)
      BY <1>3, <2>1
    <2>3. Heard(m)' \subseteq Working(m) /\ Heard(m) \subseteq Working(m)
      BY <1>5
    <2> QED
      BY <2>2, <2>3
  <1> QED
    BY <1>1, <1>2, <1>7, <1>8

LEMMA BalanceNext ==
  ASSUME NEW n, NEW in, Searching(n, in), NEW out, NextPort(n, out), UNCHANGED <<ifaceUp, origin>>,
         at' = Link[<<n, out>>]
  PROVE  Balanced'
  <1> DEFINE q == Link[<<n, out>>]
  <1>0. n \in Node /\ at[1] = n /\ out \notin Used(n) /\ Balanced
    BY DEF Searching, SearchInv, NextPort
  <1>1. /\ q[1] \in Node \ {n} /\ q[2] \in Working(q[1]) \ Heard(q[1])
        /\ Heard(q[1])' = Heard(q[1]) \cup {q[2]}
        /\ \A m \in Node \ {q[1]} : Heard(m)' = Heard(m)
    BY HeardNext
  <1>2. ASSUME NEW m \in Node
        PROVE  Cardinality(Heard(m)') = Cardinality(Heard(m)) + One(m = q[1])
    <2>1. CASE m = q[1]
      <3>1. Heard(m)' = Heard(m) \cup {q[2]} /\ q[2] \notin Heard(m)
        BY <1>1, <2>1
      <3>2. Cardinality(Heard(m)') = Cardinality(Heard(m)) + 1
        BY <3>1, UsedFinite, FS_AddElement
      <3> QED
        BY <2>1, <3>2 DEF One
    <2>2. CASE m # q[1]
      BY <1>1, <2>2, UsedFinite DEF One
    <2> QED
      BY <2>1, <2>2
  <1>3. ASSUME NEW m \in Node
        PROVE  Cardinality(Used(m)') = Cardinality(Used(m)) + One(m = n)
    <2>1. CASE m = n
      <3>1. Used(m)' = Used(m) \cup {out} /\ out \notin Used(m)
        BY <1>0, <2>1 DEF NextPort
      <3>2. Cardinality(Used(m)') = Cardinality(Used(m)) + 1
        BY <3>1, UsedFinite, FS_AddElement
      <3> QED
        BY <2>1, <3>2 DEF One
    <2>2. CASE m # n
      <3>1. Used(m)' = Used(m)
        BY <2>2 DEF NextPort
      <3> QED
        BY <2>2, <3>1, UsedFinite DEF One
    <2> QED
      BY <2>1, <2>2
  <1>4. at'[1] = q[1]
    OBVIOUS
  <1>5. ASSUME NEW m \in Node
        PROVE  Cardinality(Heard(m)') + One(m = origin') = Cardinality(Used(m)') + One(m = at'[1])
    <2> DEFINE h == Cardinality(Heard(m))
               u == Cardinality(Used(m))
    <2>1. h + One(m = origin) = u + One(m = n)
      BY <1>0 DEF Balanced
    <2>2. h \in Nat /\ u \in Nat
      BY UsedFinite
    <2>3. /\ One(m = origin) \in Nat /\ One(m = n) \in Nat /\ One(m = q[1]) \in Nat
      BY DEF One
    <2>4. Cardinality(Heard(m)') = h + One(m = q[1]) /\ Cardinality(Used(m)') = u + One(m = n)
      BY <1>2, <1>3
    <2>5. origin' = origin
      OBVIOUS
    <2> HIDE DEF h, u
    <2> QED
      BY <1>4, <2>1, <2>2, <2>3, <2>4, <2>5
  <1> QED
    BY <1>5 DEF Balanced

LEMMA CrossingsNext ==
  ASSUME NEW n, NEW in, Searching(n, in), NEW out, NextPort(n, out)
  PROVE  Cardinality(Crossings') = Cardinality(Crossings) + 1
  <1>0. n \in Node /\ Calm /\ out \in Working(n)
    BY DEF Searching, NextPort
  <1>1. <<n, out>> \in PhysicalPort /\ <<n, out>> \notin Crossings
    BY <1>0, WorkingLinks DEF NextPort, Crossings
  <1>2. Crossings' = Crossings \cup {<<n, out>>}
    <2>1. ASSUME NEW p \in PhysicalPort
          PROVE  p[2] \in Used(p[1])' <=> p[2] \in Used(p[1]) \/ p = <<n, out>>
      <3>1. p = <<p[1], p[2]>> /\ p[1] \in Node
        BY PortType
      <3>2. CASE p[1] = n
        <4>1. Used(p[1])' = Used(n)' /\ Used(n)' = Used(n) \cup {out}
          BY <3>2 DEF NextPort
        <4> QED
          BY <3>1, <3>2, <4>1
      <3>3. CASE p[1] # n
        <4>1. Used(p[1])' = Used(p[1])
          BY <3>1, <3>3 DEF NextPort
        <4> QED
          BY <3>1, <3>3, <4>1
      <3> QED
        BY <3>2, <3>3
    <2> QED
      BY <1>1, <2>1 DEF Crossings
  <1> QED
    BY <1>1, <1>2, CrossingsFinite, FS_AddElement

(* No more ports are crossed than there are, the one of Dst left out.      *)
LEMMA CrossingsBound ==
  ASSUME Dst \notin Detoured
  PROVE  Cardinality(Crossings) < Cardinality(PhysicalPort)
  <1>1. Crossings \in SUBSET PhysicalPort /\ Crossings # PhysicalPort
    <2>1. DstPort \notin Crossings /\ DstPort \in PhysicalPort
      BY RoutingAssumption DEF Crossings, Used
    <2> QED
      BY <2>1 DEF Crossings
  <1> QED
    BY <1>1, PortsFinite, CrossingsFinite, FS_Subset

(***************************************************************************)
(* The search is over when the origin has no port left.                    *)
(***************************************************************************)
(* A node whose every working port has been used has heard from them all.  *)
LEMMA AllHeard ==
  ASSUME NEW n, NEW in, Searching(n, in), NEW m \in Node, Used(m) = Working(m),
         m = origin => m = n, m = n => m = origin
  PROVE  Heard(m) = Working(m)
  <1>1. Cardinality(Heard(m)) + One(m = origin) = Cardinality(Used(m)) + One(m = at[1])
    BY DEF Searching, SearchInv, Balanced
  <1>2. (m = origin) = (m = at[1])
    BY DEF Searching
  <1>3. Cardinality(Heard(m)) = Cardinality(Working(m))
    <2>1. One(m = origin) \in Nat /\ Cardinality(Heard(m)) \in Nat /\ Cardinality(Working(m)) \in Nat
      BY UsedFinite, WorkingFinite DEF One
    <2>2. One(m = origin) = One(m = at[1])
      BY <1>2
    <2> QED
      BY <1>1, <2>1, <2>2
  <1> QED
    BY <1>3, UsedFinite, WorkingFinite, FS_Subset

LEMMA OverWhenExhausted ==
  ASSUME NEW n, NEW in, Searching(n, in), n = origin, Used(n) = Working(n)
  PROVE  CutOff(origin)
  <1>0. n \in Node /\ Calm /\ at[1] = n /\ origin \in Detoured /\ Dst \notin Detoured
    BY DEF Searching, SearchInv
  <1>1. Detoured \subseteq Node
    BY DEF Detoured
  <1> DEFINE Open == {m \in Detoured \ {origin} : CurrVal(tag, m) # ParVal(tag, m)}
  <1>2. ASSUME NEW m \in Detoured \ Open PROVE Used(m) = Working(m) /\ Heard(m) = Working(m)
    <2>1. Used(m) = Working(m)
      BY <1>2 DEF Used
    <2> QED
      BY <1>0, <1>1, <2>1, AllHeard
  <1>3. Open = {}
    <2> SUFFICES ASSUME Open # {} PROVE FALSE
      OBVIOUS
    <2>1. PICK m \in Open : ParentNode(m) \notin Open
      BY DEF Searching, SearchInv, LeadsToOrigin
    <2> DEFINE par == ParVal(tag, m)
               q   == Link[<<m, par>>]
    <2>2. m \in Node /\ m \in Detoured /\ m # origin /\ CurrVal(tag, m) # par
      BY <1>1, <2>1
    <2>3. par \in Heard(m)
      BY <2>2 DEF Searching, SearchInv
    <2>4. par \in Working(m) /\ q[2] \in Used(q[1])
      BY <2>3 DEF Heard
    <2>5. q[1] \in Node /\ q = <<q[1], q[2]>> /\ q[2] \in Working(q[1]) /\ Link[q] = <<m, par>>
      BY <1>0, <2>2, <2>4, WorkingLinks
    <2>6. q[1] \in Detoured \ Open
      <3>1. q[1] \in Detoured
        BY <2>4 DEF Used
      <3> QED
        BY <2>1, <3>1 DEF ParentNode
    <2>7. q[2] \in Heard(q[1])
      BY <1>2, <2>5, <2>6
    <2>8. par \in Used(m)
      <3>1. Link[<<q[1], q[2]>>][1] = m /\ Link[<<q[1], q[2]>>][2] = par
        BY <2>5
      <3> QED
        BY <2>7, <3>1 DEF Heard
    <2> QED
      BY <2>2, <2>8 DEF Used
  <1>4. ASSUME NEW p \in PhysicalPort, p[1] \in Detoured, p \in ifaceUp
        PROVE  Link[p][1] \in Detoured
    <2>1. p = <<p[1], p[2]>> /\ p[1] \in Node /\ p[2] \in Working(p[1])
      <3>1. p = <<p[1], p[2]>> /\ p[1] \in Node /\ p[2] \in Device(p[1])
        BY PortType
      <3>2. p[2] \in Physical(p[1])
        BY <3>1, <1>4 DEF PhysicalPort, Physical
      <3> QED
        BY <3>1, <3>2, <1>4 DEF Working
    <2>2. p[2] \in Heard(p[1])
      BY <1>2, <1>3, <1>4, <2>1
    <2>3. Link[<<p[1], p[2]>>][2] \in Used(Link[<<p[1], p[2]>>][1])
      BY <2>2 DEF Heard
    <2> QED
      BY <2>1, <2>3 DEF Used
  <1> QED
    BY <1>0, <1>1, <1>4 DEF CutOff

(***************************************************************************)
(* One step of the detour.                                                 *)
(***************************************************************************)
LEMMA LeadsNext ==
  ASSUME NEW n, NEW in, Searching(n, in), UNCHANGED origin, NEW out, out # 0,
         NEW par, par = (IF n \in Detoured THEN ParVal(tag, n) ELSE in), par # 0,
         Sent(n, out, par, PacketStart(tag), tag')
  PROVE  /\ Detoured' = Detoured \cup {n}
         /\ \A m \in Detoured : ParVal(tag', m) = ParVal(tag, m)
         /\ n \notin Detoured => ParVal(tag', n) = in
         /\ LeadsToOrigin'
  <1>0. n \in Node /\ Calm /\ at = <<n, in>> /\ in \in Heard(n) /\ LeadsToOrigin
    BY DEF Searching, SearchInv
  <1>1. \A m \in Node : ParVal(tag', m) = IF m = n THEN par ELSE ParVal(tag, m)
    BY DEF Sent
  <1>2. Detoured' = Detoured \cup {n}
    BY <1>0, <1>1 DEF Detoured
  <1>3. \A m \in Detoured : m \in Node /\ ParVal(tag', m) = ParVal(tag, m)
    BY <1>1 DEF Detoured
  <1>4. \A m \in Detoured : ParentNode(m)' = ParentNode(m)
    BY <1>3 DEF ParentNode
  <1>5. CASE n \in Detoured
    <2>1. Detoured' = Detoured
      BY <1>2, <1>5
    <2>2. ASSUME NEW S \in SUBSET (Detoured \ {origin}), S # {}
          PROVE  \E m \in S : ParentNode(m)' \notin S
      BY <1>0, <1>4, <2>2 DEF LeadsToOrigin
    <2> QED
      BY <1>2, <1>3, <1>5, <2>1, <2>2 DEF LeadsToOrigin
  <1>6. CASE n \notin Detoured
    <2>1. ParVal(tag', n) = in
      BY <1>0, <1>1, <1>6
    <2>2. /\ ParentNode(n)' \in Node \ {n} /\ ParentNode(n)' = Link[<<n, in>>][1]
      BY <1>0, <2>1, WorkingLinks DEF Heard, ParentNode
    <2>3. \A m \in Detoured \ {origin} : ParentNode(m) # n
      <3>1. ASSUME NEW m \in Detoured \ {origin} PROVE ParentNode(m) \in Detoured
        BY DEF Searching, SearchInv, Heard, Used, ParentNode
      <3> QED
        BY <1>6, <3>1
    <2>4. ASSUME NEW S \in SUBSET (Detoured' \ {origin}), S # {}
          PROVE  \E m \in S : ParentNode(m)' \notin S
      <3>1. S \ {n} \in SUBSET (Detoured \ {origin})
        BY <1>2
      <3>2. CASE S \ {n} = {}
        <4>1. S = {n}
          BY <2>4, <3>2
        <4> QED
          BY <2>2, <4>1
      <3>3. CASE S \ {n} # {}
        <4>1. PICK m \in S \ {n} : ParentNode(m) \notin S \ {n}
          BY <1>0, <3>1, <3>3 DEF LeadsToOrigin
        <4>2. m \in Detoured \ {origin}
          BY <3>1, <4>1
        <4>3. ParentNode(m)' \notin S
          BY <1>4, <2>3, <4>1, <4>2
        <4> QED
          BY <4>1, <4>3
      <3> QED
        BY <3>2, <3>3
    <2>5. LeadsToOrigin'
      BY <2>4 DEF LeadsToOrigin
    <2> QED
      BY <1>2, <1>3, <2>1, <2>5
  <1> QED
    BY <1>5, <1>6

(* What IpForward does with a packet that is to leave n through out.       *)
Carried(n, out) ==
    \/ ttl' = 0 /\ status' = "ttlExpired" /\ at' = at
    \/ ttl' # 0 /\ SendRealOut(n, out)

LEMMA CarriedOver ==
  ASSUME NEW n, NEW out, Carried(n, out), ttl' # 0, <<n, out>> \in ifaceUp
  PROVE  status' = "flight" /\ at' = Link[<<n, out>>]
  BY DEF Carried, SendRealOut

(* The TTL outlasts the search.                                            *)
LEMMA TtlLeft ==
  ASSUME SearchInv, InitialTtl > Cardinality(PhysicalPort), ttl \in Nat
  PROVE  ttl - 1 # 0
  <1>1. Cardinality(Crossings) < Cardinality(PhysicalPort)
    BY CrossingsBound DEF SearchInv
  <1>2. ttl + Cardinality(Crossings) = InitialTtl
    BY DEF SearchInv
  <1>3. InitialTtl \in Nat
    BY RoutingAssumption
  <1> QED
    BY <1>1, <1>2, <1>3, CrossingsFinite, PortsFinite

LEMMA SearchMoves ==
  ASSUME NEW n, NEW in, Searching(n, in), UNCHANGED <<ifaceUp, origin>>, n # Dst,
         InitialTtl > Cardinality(PhysicalPort), NEW out, NextPort(n, out),
         NEW par, par = (IF n \in Detoured THEN ParVal(tag, n) ELSE in), par # 0,
         Sent(n, out, par, PacketStart(tag), tag'), ttl' = ttl - 1, Carried(n, out)
  PROVE  status' = "flight" /\ at' \in ifaceUp /\ SearchInv'
  <1> DEFINE q == Link[<<n, out>>]
  <1>0. Calm /\ SearchInv /\ n \in Node /\ at = <<n, in>> /\ ttl \in Nat
    BY RoutingAssumption DEF Searching, Calm, TypeOK
  <1>1. /\ out \in Working(n) /\ out # 0 /\ <<n, out>> \in ifaceUp
        /\ q = <<q[1], q[2]>> /\ q[1] \in Node \ {n} /\ q[2] \in Working(q[1])
    BY <1>0, WorkingLinks DEF NextPort
  <1>2. /\ Heard(q[1])' = Heard(q[1]) \cup {q[2]}
        /\ \A m \in Node \ {q[1]} : Heard(m)' = Heard(m)
    BY HeardNext
  <1>3. /\ Detoured' = Detoured \cup {n}
        /\ \A m \in Detoured : ParVal(tag', m) = ParVal(tag, m)
        /\ n \notin Detoured => ParVal(tag', n) = in
        /\ LeadsToOrigin'
    BY <1>1, LeadsNext
  <1>4. ttl' # 0
    BY <1>0, TtlLeft
  <1>5. status' = "flight" /\ at' = q
    BY <1>1, <1>4, CarriedOver
  <1>6. at' \in ifaceUp
    BY <1>1, <1>5 DEF Working
  <1>7. ttl' + Cardinality(Crossings') = InitialTtl
    <2>1. Cardinality(Crossings') = Cardinality(Crossings) + 1
      BY CrossingsNext
    <2>2. ttl + Cardinality(Crossings) = InitialTtl
      BY <1>0 DEF SearchInv
    <2> QED
      BY <1>0, <2>1, <2>2, CrossingsFinite
  <1>8. Balanced'
    BY <1>5, BalanceNext
  <1> HIDE DEF q
  <1>9. ASSUME NEW m \in Detoured' \ {origin} PROVE ParVal(tag', m) \in Heard(m)'
    <2>1. m \in Node /\ Heard(m) \subseteq Heard(m)'
      BY <1>2 DEF Detoured
    <2>2. CASE m \in Detoured
      BY <1>0, <1>3, <2>1, <2>2 DEF SearchInv
    <2>3. CASE m \notin Detoured
      <3>1. m = n /\ ParVal(tag', m) = in
        BY <1>3, <2>3
      <3>2. in \in Heard(n)
        BY <1>0 DEF SearchInv
      <3> QED
        BY <2>1, <3>1, <3>2
    <2> QED
      BY <2>2, <2>3
  <1>10. (at[2] \in Heard(at[1]))'
    <2>1. q[1] \in Node /\ q[2] \in Heard(q[1])'
      BY <1>1, <1>2
    <2>2. at'[1] = q[1] /\ at'[2] = q[2]
      BY <1>5
    <2> QED
      BY <2>1, <2>2
  <1>11. origin \in Detoured' /\ ParVal(tag', origin) = 1 /\ Dst \notin Detoured'
    BY <1>0, <1>3 DEF SearchInv
  <1> QED
    BY <1>3, <1>5, <1>6, <1>7, <1>8, <1>9, <1>10, <1>11 DEF SearchInv

LEMMA CutOffStays == ASSUME CutOff(origin), UNCHANGED <<ifaceUp, origin>> PROVE CutOff(origin)'
  BY DEF CutOff

(* The packet reaches the next node, or the search is over.                *)
LEMMA SearchStep ==
  ASSUME Algorithm = "dfs", InitialTtl > Cardinality(PhysicalPort),
         NEW n, NEW in, Searching(n, in), IpForward(n, in), UNCHANGED origin
  PROVE  \/ CutOff(origin)'
         \/ status' = "flight" /\ at' \in ifaceUp' /\ (at'[1] = Dst \/ SearchInv')
  <1>0. Calm /\ SearchInv /\ n \in Node /\ in \in Device(n) /\ ttl \in Nat
    BY RoutingAssumption DEF Searching, Calm, TypeOK
  <1>1. /\ at = <<n, in>> /\ n # Dst /\ UNCHANGED <<ifaceUp, origin>>
        /\ \E r \in RouteInput(n, in) :
             /\ r.out \in Device(n) /\ ttl' = ttl - 1 /\ tag' = r.tag
             /\ Carried(n, r.out)
    BY <1>0, ForwardDecision DEF net, Carried
  <1>2. PICK r \in RouteInput(n, in) :
             /\ r.out \in Device(n) /\ ttl' = ttl - 1 /\ tag' = r.tag
             /\ Carried(n, r.out)
    BY <1>1
  <1>3. CASE LookupStatic(n) # {}
    <2>1. PICK d \in LookupStatic(n) : r = Decision(d, tag)
      BY <1>3 DEF RouteInput
    <2>2. r.out \in Physical(n) /\ <<n, r.out>> \in ifaceUp /\ Link[<<n, r.out>>] = DstPort
      BY <1>0, <2>1, DecisionFields, StaticPhysical DEF LookupStatic
    <2>3. <<n, r.out>> \in PhysicalPort
      BY <1>0, <2>2, LinkPhysical
    <2>4. DstPort \in ifaceUp
      BY <1>0, <2>2, <2>3 DEF Calm, LinksFailed
    <2>5. status' = "flight" /\ at' = DstPort
      BY <1>0, <1>2, <2>2, TtlLeft, CarriedOver
    <2> QED
      BY <1>1, <2>4, <2>5, RoutingAssumption
  <1>4. CASE LookupStatic(n) = {}
    <2>1. PICK par :
             /\ par = (IF n \in Detoured THEN ParVal(tag, n) ELSE in)
             /\ par \in Physical(n)
             /\ r.out = Scan(n, CurrVal(tag, n) + 1, par)
             /\ r.out \in Device(n)
             /\ Sent(n, r.out, par, PacketStart(tag), r.tag)
      BY <1>4, SearchDecision
    <2> DEFINE out == r.out
    <2>2. out = Scan(n, CurrVal(tag, n) + 1, par) /\ out \in Device(n)
      BY <2>1
    <2>3. Sent(n, out, par, PacketStart(tag), tag') /\ ttl' = ttl - 1 /\ Carried(n, out)
      BY <1>2, <2>1
    <2> HIDE DEF out
    <2>4. par # 0
      BY <1>0, <2>1, PhysicalBeforeLoopback DEF Calm
    <2>5. NextPort(n, out) \/ (n = origin /\ Used(n) = Working(n))
      <3>1. CASE n \notin Detoured
        BY <1>1, <2>1, <2>2, <2>3, <3>1, FirstVisit
      <3>2. CASE n \in Detoured /\ n # origin
        BY <1>1, <2>1, <2>2, <2>3, <3>2, LaterVisit
      <3>3. CASE n = origin
        <4>1. n \in Detoured /\ ParVal(tag, n) = 1
          BY <1>0, <3>3 DEF SearchInv
        <4>2. par = 1
          BY <2>1, <4>1
        <4> QED
          BY <1>1, <2>2, <2>3, <3>3, <4>2, BackAtOrigin
      <3> QED
        BY <3>1, <3>2, <3>3
    <2>6. CASE NextPort(n, out)
      BY <1>1, <2>1, <2>3, <2>4, <2>6, SearchMoves
    <2>7. CASE n = origin /\ Used(n) = Working(n)
      BY <1>1, <2>7, OverWhenExhausted, CutOffStays
    <2> QED
      BY <2>5, <2>6, <2>7
  <1> QED
    BY <1>3, <1>4

(***************************************************************************)
(* The first step of a detour.  A packet that no node has forwarded before *)
(* has crossed no node, and only such a packet is one whose detour begins  *)
(* at the first router.                                                    *)
(***************************************************************************)
LEMMA BeginsDecision ==
  ASSUME Algorithm = "dfs", TypeOK, NormalRouting, ~ NormalRouting',
         NEW n \in Node, NEW in \in Device(n), NEW r \in RouteInput(n, in),
         r.out \in Device(n), tag' = r.tag, 1 \in Device(n)
  PROVE  r.out = 1 /\ Sent(n, 1, 1, 1, tag')
  <1>0. tag \in Tag /\ PacketStart(tag) = 0 /\ PacketStart(r.tag) # 0
    BY DEF TypeOK, NormalRouting
  <1>1. LookupStatic(n) = {}
    <2>1. LookupStatic(n) # {} => \E d \in LookupStatic(n) : r = Decision(d, tag)
      BY DEF RouteInput
    <2> QED
      BY <1>0, <2>1, DecisionFields
  <1>2. r \in DfsNormal(n)
    BY <1>1 DEF RouteInput, RouteInputDFS
  <1>3. r # Decision(Null, tag)
    BY <1>0, DecisionFields
  <1>4. PICK d \in LookupGlobal(n) :
          r = ActualSend(n, 1, StartDetour(n)) \/ r = ActualSend(n, d, tag)
    BY <1>2, <1>3 DEF DfsNormal
  <1>5. CASE r = ActualSend(n, d, tag)
    <2>1. d \in Device(n)
      BY LookupsInRange
    <2>2. PacketStart(r.tag) = PacketStart(tag)
      BY <1>0, <1>5, <2>1, SentTag
    <2> QED
      BY <1>0, <2>2
  <1>6. CASE r = ActualSend(n, 1, StartDetour(n))
    <2>1. r.out = 1
      BY <1>6, DecisionFields DEF ActualSend
    <2> QED
      BY <1>0, <1>6, <2>1, SentStart
  <1> QED
    BY <1>4, <1>5, <1>6

(* The ports used after the first step: one.                               *)
LEMMA FirstPorts ==
  ASSUME Calm, NEW n \in Node, 1 \in Working(n), UNCHANGED ifaceUp, origin' = n,
         Detoured' = {n}, CurrVal(tag', n) = 1, NEW q, q = Link[<<n, 1>>]
  PROVE  /\ Used(n)' = {1} /\ \A m \in Node \ {n} : Used(m)' = {}
         /\ q[1] \in Node \ {n} /\ q[2] \in Working(q[1])
         /\ Heard(q[1])' = {q[2]} /\ \A m \in Node \ {q[1]} : Heard(m)' = {}
         /\ Crossings' = {<<n, 1>>}
  <1>1. \A m \in Node : \A d \in Working(m) : d \in Nat /\ 1 <= d
    BY WorkingLinks
  <1>2. \A m \in Node : Working(m)' = Working(m)
    BY DEF Working
  <1>3. Used(n)' = {1}
    <2>1. Used(n)' = {d \in Working(n) : d <= 1}
      BY <1>2 DEF Used
    <2> QED
      BY <1>1, <2>1
  <1>4. \A m \in Node \ {n} : Used(m)' = {}
    BY DEF Used
  <1>5. /\ q[1] \in Node \ {n} /\ q[2] \in Working(q[1])
        /\ q = <<q[1], q[2]>> /\ Link[q] = <<n, 1>>
    BY WorkingLinks
  <1>6. ASSUME NEW m \in Node, NEW d \in Working(m)
        PROVE  d \in Heard(m)' <=> <<m, d>> = q
    <2>1. /\ Link[<<m, d>>] = <<Link[<<m, d>>][1], Link[<<m, d>>][2]>>
          /\ Link[<<m, d>>][1] \in Node /\ Link[Link[<<m, d>>]] = <<m, d>>
      BY WorkingLinks
    <2>2. d \in Heard(m)' <=> Link[<<m, d>>][2] \in Used(Link[<<m, d>>][1])'
      BY <1>2 DEF Heard
    <2>3. d \in Heard(m)' <=> Link[<<m, d>>][1] = n /\ Link[<<m, d>>][2] = 1
      BY <1>3, <1>4, <2>1, <2>2
    <2>4. Link[<<m, d>>] = <<n, 1>> <=> <<m, d>> = q
      BY <1>5, <2>1
    <2> QED
      BY <2>1, <2>3, <2>4
  <1>7. \A m \in Node : Heard(m)' \subseteq Working(m)
    BY <1>2 DEF Heard
  <1>8. Heard(q[1])' = {q[2]}
    <2>1. \A d \in Working(q[1]) : d \in Heard(q[1])' <=> d = q[2]
      BY <1>5, <1>6
    <2> QED
      BY <1>5, <1>7, <2>1
  <1>9. ASSUME NEW m \in Node \ {q[1]} PROVE Heard(m)' = {}
    <2>1. \A d \in Working(m) : <<m, d>> # q
      BY <1>5
    <2> QED
      BY <1>6, <1>7, <2>1
  <1>10. Crossings' = {<<n, 1>>}
    <2>1. <<n, 1>> \in PhysicalPort
      BY WorkingLinks
    <2>2. ASSUME NEW p \in PhysicalPort PROVE p[2] \in Used(p[1])' <=> p = <<n, 1>>
      <3>1. p[1] \in Node /\ p = <<p[1], p[2]>>
        BY PortType
      <3>2. p[2] \in Used(p[1])' <=> p[1] = n /\ p[2] = 1
        BY <1>3, <1>4, <3>1
      <3> QED
        BY <3>1, <3>2
    <2> QED
      BY <2>1, <2>2 DEF Crossings
  <1> QED
    BY <1>3, <1>4, <1>5, <1>8, <1>9, <1>10

LEMMA DetourBegins ==
  ASSUME Algorithm = "dfs", InitialTtl > Cardinality(PhysicalPort),
         Calm, TreeInv, FirstHop, NormalRouting, ~ NormalRouting',
         NEW n \in Node, NEW in \in Device(n), IpForward(n, in), origin' = n,
         \A m \in Node : ~ CrossedBefore(m)', <<n, 1>> \in ifaceUp
  PROVE  status' = "flight" /\ at' \in ifaceUp' /\ SearchInv'
  <1> DEFINE q == Link[<<n, 1>>]
  <1>0. TypeOK /\ 1 \in Physical(n) /\ 1 \in Device(n)
    BY PhysicalBeforeLoopback DEF Calm, Physical
  <1>1. /\ at = <<n, in>> /\ n # Dst /\ UNCHANGED ifaceUp /\ status = "flight"
        /\ \E r \in RouteInput(n, in) :
             /\ r.out \in Device(n) /\ ttl' = ttl - 1 /\ tag' = r.tag
             /\ Carried(n, r.out)
    BY ForwardDecision DEF net, Carried
  <1>2. Sent(n, 1, 1, 1, tag') /\ ttl' = ttl - 1 /\ Carried(n, 1)
    <2>1. PICK r \in RouteInput(n, in) :
             /\ r.out \in Device(n) /\ ttl' = ttl - 1 /\ tag' = r.tag
             /\ Carried(n, r.out)
      BY <1>1
    <2>2. r.out = 1 /\ Sent(n, 1, 1, 1, tag')
      BY <1>0, <2>1, BeginsDecision
    <2> QED
      BY <2>1, <2>2
  <1>3. 1 \in Working(n)
    BY <1>0 DEF Working
  <1>4. Detoured = {} /\ Detoured' = {n}
    <2>1. Detoured = {}
      BY DEF TreeInv
    <2> QED
      BY <1>2, <2>1 DEF Sent, Detoured
  <1>5. ttl = InitialTtl
    <2>1. ASSUME NEW m \in Node \ {n} PROVE CurrVal(tag, m) = 0
      <3>1. CurrVal(tag', m) = CurrVal(tag, m) /\ ParVal(tag', m) = 0
        BY <1>2, <1>4 DEF Sent, Detoured
      <3> QED
        BY <3>1 DEF CrossedBefore
    <2> QED
      BY <1>1, <2>1 DEF FirstHop
  <1>6. /\ Used(n)' = {1} /\ \A m \in Node \ {n} : Used(m)' = {}
        /\ q[1] \in Node \ {n} /\ q[2] \in Working(q[1])
        /\ Heard(q[1])' = {q[2]} /\ \A m \in Node \ {q[1]} : Heard(m)' = {}
        /\ Crossings' = {<<n, 1>>}
    <2>1. CurrVal(tag', n) = 1
      BY <1>2 DEF Sent
    <2> QED
      BY <1>1, <1>3, <1>4, <2>1, FirstPorts
  <1>7. ttl' # 0 /\ ttl' = InitialTtl - 1 /\ InitialTtl \in Nat
    <2>1. Cardinality(Crossings) < Cardinality(PhysicalPort)
      BY <1>4, CrossingsBound
    <2> QED
      BY <1>2, <1>5, <2>1, CrossingsFinite, PortsFinite, RoutingAssumption
  <1>8. status' = "flight" /\ at' = q
    BY <1>2, <1>7, <1>3, CarriedOver DEF Working
  <1>9. at' \in ifaceUp'
    <2>1. q = <<q[1], q[2]>>
      BY <1>3, WorkingLinks
    <2> QED
      BY <1>1, <1>6, <1>8, <2>1 DEF Working
  <1> HIDE DEF q
  <1>10. ttl' + Cardinality(Crossings') = InitialTtl
    <2>1. Cardinality({<<n, 1>>}) = 1
      BY FS_Singleton
    <2>2. Cardinality(Crossings') = 1
      BY <1>6, <2>1
    <2> QED
      BY <1>7, <2>2
  <1>11. ASSUME NEW m \in Node
         PROVE  Cardinality(Heard(m)') + One(m = n) = Cardinality(Used(m)') + One(m = q[1])
    <2>1. Cardinality({}) = 0 /\ Cardinality({1}) = 1 /\ Cardinality({q[2]}) = 1
      BY FS_EmptySet, FS_Singleton
    <2>2. CASE m = n
      <3>1. Heard(m)' = {} /\ Used(m)' = {1} /\ m # q[1]
        BY <1>6, <2>2
      <3> QED
        BY <2>1, <2>2, <3>1 DEF One
    <2>3. CASE m = q[1]
      <3>1. Heard(m)' = {q[2]} /\ Used(m)' = {} /\ m # n
        BY <1>6, <2>3
      <3> QED
        BY <2>1, <2>3, <3>1 DEF One
    <2>4. CASE m # n /\ m # q[1]
      <3>1. Heard(m)' = {} /\ Used(m)' = {}
        BY <1>6, <2>4
      <3> QED
        BY <2>1, <2>4, <3>1 DEF One
    <2> QED
      BY <2>2, <2>3, <2>4
  <1>12. Balanced'
    BY <1>8, <1>11 DEF Balanced
  <1>13. (at[2] \in Heard(at[1]))'
    <2>1. at'[1] = q[1] /\ at'[2] = q[2]
      BY <1>8
    <2> QED
      BY <1>6, <2>1
  <1>14. LeadsToOrigin'
    BY <1>4 DEF LeadsToOrigin
  <1>15. origin' \in Detoured' /\ ParVal(tag', origin') = 1 /\ Dst \notin Detoured'
    BY <1>1, <1>2, <1>4 DEF Sent
  <1>16. Detoured' \ {origin'} = {}
    BY <1>4
  <1> QED
    BY <1>8, <1>9, <1>10, <1>12, <1>13, <1>14, <1>15, <1>16 DEF SearchInv

LEMMA FirstHopNext ==
  ASSUME Algorithm = "dfs", LoopbackIsLast, TypeOK, DfsInv, FirstHop, [Next]_vars
  PROVE  FirstHop'
  <1>1. CASE \E query \in Query : Send(query)
    BY <1>1, SendResult DEF FirstHop
  <1>2. ASSUME NEW n \in Node, NEW in \in Device(n), IpForward(n, in) PROVE FirstHop'
    <2>0. tag \in Tag /\ at = <<n, in>> /\ in \in Physical(n)
      BY <1>2, ForwardDecision DEF TypeOK, DfsInv, PhysicalPort, Physical
    <2> SUFFICES ASSUME status' = "flight"
                 PROVE  at'[1] = Dst \/ \E m \in Node \ {at'[1]} : CurrVal(tag', m) # 0
      BY DEF FirstHop
    <2>1. PICK r \in RouteInput(n, in) : /\ r.out \in Device(n) /\ tag' = r.tag
                                         /\ SendRealOut(n, r.out)
      BY <1>2, ForwardDecision
    <2> DEFINE out == r.out
    <2>2. out \in Physical(n) /\ at' = Link[<<n, out>>]
      BY <2>0, <2>1, DfsDecision DEF SendRealOut
    <2>3. Leaves(n, in, out, tag')
      BY <2>1, AnyDecision
    <2> HIDE DEF out
    <2>4. at'[1] # n /\ out # 0
      <3>1. <<n, out>> \in PhysicalPort /\ <<n, out>>[1] = n
        BY <2>2, LinkPhysical
      <3> QED
        BY <2>2, <3>1, LinkAssumption, PhysicalBeforeLoopback
    <2>5. (tag' = tag /\ Link[<<n, out>>] = DstPort) \/ CurrVal(tag', n) = out
      BY <2>3 DEF Leaves, Sent
    <2> QED
      BY <2>2, <2>4, <2>5, RoutingAssumption
  <1>3. CASE UNCHANGED <<at, ttl, tagged, tag>> /\ (status' = "flight" => status = "flight")
    BY <1>3 DEF FirstHop, NormalRouting
  <1> QED
    BY <1>1, <1>2, <1>3, OtherActions, OtherStatus

(***************************************************************************)
(* The invariant is kept by every step.                                    *)
(***************************************************************************)
(* What is assumed of the network and of the sender, and what holds of     *)
(* every packet.                                                           *)
Assumed ==
    /\ Algorithm = "dfs" /\ "null" \notin Query
    /\ LoopbackIsLast /\ Forwarding = Node /\ InitialTtl > Cardinality(PhysicalPort)

Underlying == TypeInv /\ TreeInv /\ DownRecorded /\ DfsInv /\ FirstHop

(* As long as nothing changes in the network nothing disturbs the packet.  *)
LEMMA UndisturbedBefore ==
  ASSUME TypeOK, Observe, UNCHANGED net, status = "flight", SearchesFromFirstRouter'
  PROVE  LinksFailed /\ ~ disturbed /\ UNCHANGED <<ifaceUp, events>>
  <1>1. UNCHANGED <<ifaceUp, downList, events>> /\ LinksFailed' /\ ~ disturbed'
    BY DEF net, SearchesFromFirstRouter
  <1>2. LinksFailed
    BY <1>1 DEF LinksFailed, NotWorking
  <1>3. ~ disturbed
    BY <1>1 DEF Observe
  <1> QED
    BY <1>1, <1>2, <1>3

(* A node that the packet has crossed by plain routing stays one.          *)
LEMMA CrossedStays ==
  ASSUME TypeOK, DfsInv, Algorithm = "dfs", LoopbackIsLast, ~ NormalRouting,
         NEW n \in Node, NEW in \in Device(n), IpForward(n, in),
         NEW m \in Node, CrossedBefore(m)
  PROVE  CrossedBefore(m)'
  <1>1. PICK r \in RouteInput(n, in) : r.out \in Device(n) /\ tag' = r.tag
    BY ForwardDecision, Zenon
  <1> DEFINE out == r.out
  <1>2. Leaves(n, in, out, tag') /\ out \in Device(n)
    BY <1>1, AnyDecision
  <1> HIDE DEF out
  <1>3. out # 0
    BY <1>2, PhysicalBeforeLoopback
  <1> QED
    BY <1>2, <1>3 DEF Leaves, Sent, CrossedBefore

LEMMA NormalStays ==
  ASSUME tag' = EmptyTag PROVE NormalRouting'
  BY EmptyTagType DEF NormalRouting

LEMMA ForwardKeepsInv ==
  ASSUME Assumed, Underlying, DetourInv, Observe,
         NEW n \in Node, NEW in \in Device(n), IpForward(n, in)
  PROVE  DetourInv'
  <1> SUFFICES ASSUME SearchesFromFirstRouter'
               PROVE  \/ CutOff(origin)'
                      \/ status' = "flight" /\ at' \in ifaceUp' /\ (at'[1] = Dst \/ SearchInv')
    BY DEF DetourInv
  <1>1. TypeOK /\ TreeInv /\ DownRecorded /\ DfsInv /\ FirstHop /\ LoopbackIsLast
    BY DEF Underlying, Assumed, TypeInv, NetType, PacketType, TypeOK
  <1>2. /\ at = <<n, in>> /\ at \in ifaceUp /\ n # Dst /\ status = "flight" /\ UNCHANGED net
    BY ForwardDecision
  <1>3. LinksFailed /\ ~ disturbed /\ UNCHANGED <<ifaceUp, events>>
    BY <1>1, <1>2, UndisturbedBefore
  <1>4. Calm
    BY <1>1, <1>3 DEF Calm
  <1>5. /\ ~ NormalRouting' /\ <<origin, 1>>' \in ifaceUp'
        /\ \A m \in Node : ~ CrossedBefore(m)'
    BY DEF SearchesFromFirstRouter
  <1>6. CASE NormalRouting
    <2>1. origin' = n
      BY <1>2, <1>5, <1>6 DEF Observe
    <2>2. <<n, 1>> \in ifaceUp
      BY <1>3, <1>5, <2>1
    <2> QED
      BY <1>1, <1>4, <1>5, <1>6, <2>1, <2>2, DetourBegins DEF Assumed
  <1>7. CASE ~ NormalRouting
    <2>1. origin' = origin
      BY <1>5, <1>7 DEF Observe
    <2>2. \A m \in Node : ~ CrossedBefore(m)
      BY <1>1, <1>5, <1>7, CrossedStays DEF Assumed
    <2>3. SearchesFromFirstRouter
      BY <1>3, <1>5, <1>7, <2>1, <2>2 DEF SearchesFromFirstRouter
    <2>4. CutOff(origin) \/ SearchInv
      BY <1>2, <2>3 DEF DetourInv
    <2>5. CASE CutOff(origin)
      BY <1>3, <2>1, <2>5, CutOffStays
    <2>6. CASE SearchInv
      <3>1. Searching(n, in)
        BY <1>1, <1>2, <1>4, <1>7, <2>2, <2>6 DEF Searching
      <3> QED
        BY <2>1, <3>1, SearchStep DEF Assumed
    <2> QED
      BY <2>4, <2>5, <2>6
  <1> QED
    BY <1>6, <1>7

(* A detour is not discarded: its interface is up, every node forwards,    *)
(* and RouteInputDFS has a port for it.                                    *)
LEMMA DiscardKeepsInv ==
  ASSUME Assumed, Underlying, DetourInv, Observe,
         \/ DropAtDownInterface
         \/ \E n \in Node : \E in \in Device(n) :
              RouteInputError(n, in) \/ NoRouteFound(n, in) \/ Abort(n, in)
  PROVE  DetourInv'
  <1> SUFFICES ASSUME SearchesFromFirstRouter'
               PROVE  CutOff(origin)'
    BY DEF DetourInv
  <1>1. TypeOK /\ DfsInv /\ LoopbackIsLast /\ Algorithm = "dfs" /\ Forwarding = Node
    BY DEF Underlying, Assumed, TypeInv, NetType, PacketType, TypeOK
  <1>2. status = "flight" /\ UNCHANGED net /\ UNCHANGED <<at, tag>>
    BY DEF DropAtDownInterface, RouteInputError, NoRouteFound, Abort, Routes, Arrives, Discard
  <1>3. LinksFailed /\ ~ disturbed /\ UNCHANGED <<ifaceUp, events>>
    BY <1>1, <1>2, UndisturbedBefore
  <1>4. ~ NormalRouting /\ ~ NormalRouting' /\ \A m \in Node : ~ CrossedBefore(m)
    BY <1>2 DEF SearchesFromFirstRouter, NormalRouting, CrossedBefore
  <1>5. origin' = origin
    BY <1>4 DEF Observe
  <1>6. SearchesFromFirstRouter
    BY <1>3, <1>4, <1>5 DEF SearchesFromFirstRouter
  <1>7. \/ CutOff(origin)
        \/ at \in ifaceUp /\ (at[1] = Dst \/ SearchInv)
    <2>1. SearchInv => at \in ifaceUp
      <3>1. at = <<at[1], at[2]>>
        BY <1>1, PortType DEF TypeOK
      <3> QED
        BY <3>1 DEF SearchInv, Heard, Working
    <2> QED
      BY <1>2, <1>6, <2>1 DEF DetourInv
  <1>8. at \notin ifaceUp
    <2>1. ASSUME NEW n \in Node, NEW in \in Device(n),
                 NoRouteFound(n, in) \/ Abort(n, in)
          PROVE  FALSE
      <3>1. at = <<n, in>> /\ \E r \in RouteInput(n, in) : r.out \notin Device(n)
        <4>1. NoRoute \notin Device(n)
          BY PortType DEF NoRoute
        <4> QED
          BY <2>1, <4>1 DEF NoRouteFound, Abort, Routes, Arrives
      <3>2. in \in Physical(n)
        BY <1>1, <3>1 DEF DfsInv, PhysicalPort, Physical
      <3> QED
        BY <1>1, <1>4, <3>1, <3>2, DfsDecision
    <2>2. ASSUME NEW n \in Node, NEW in \in Device(n), RouteInputError(n, in) PROVE FALSE
      BY <1>1, <2>2 DEF RouteInputError
    <2>3. DropAtDownInterface
      BY <2>1, <2>2
    <2> QED
      BY <2>3 DEF DropAtDownInterface
  <1> QED
    BY <1>3, <1>5, <1>7, <1>8, CutOffStays

LEMMA DetourInvNext ==
  ASSUME Assumed, Underlying, DetourInv, Next, Observe
  PROVE  DetourInv'
  <1>1. ASSUME NEW query \in Query, Send(query) \/ SendAborts(query) PROVE DetourInv'
    <2>1. ~ SendAborts(query)
      BY RoutingAssumption DEF SendAborts, OutputAborts, Assumed
    <2>2. NormalRouting'
      BY <1>1, <2>1, NormalStays DEF Send
    <2> QED
      BY <2>2 DEF DetourInv, SearchesFromFirstRouter
  <1>2. CASE InterfaceEvent
    <2>1. events' = events + 1 /\ events \in Nat
      BY <1>2 DEF InterfaceEvent, SetDown, SetUp, AddressChange, Event, Underlying, TypeInv,
                  NetType
    <2>2. events' > events
      BY <2>1
    <2>3. disturbed'
      BY <2>2, Zenon DEF Observe
    <2> QED
      BY <2>3 DEF DetourInv, SearchesFromFirstRouter
  <1>3. CASE LocalDeliver
    BY <1>3 DEF LocalDeliver, Discard, DetourInv
  <1>4. CASE \/ DropAtDownInterface
             \/ \E n \in Node : \E in \in Device(n) :
                  RouteInputError(n, in) \/ NoRouteFound(n, in) \/ Abort(n, in)
    BY <1>4, DiscardKeepsInv
  <1>5. ASSUME NEW n \in Node, NEW in \in Device(n), IpForward(n, in) PROVE DetourInv'
    BY <1>5, ForwardKeepsInv
  <1> QED
    BY <1>1, <1>2, <1>3, <1>4, <1>5 DEF Next, Receive

LEMMA DetourInvStays ==
  ASSUME UNCHANGED <<vars, disturbed, origin>>, DetourInv
  PROVE  DetourInv'
  <1> USE DEF vars
  <1>1. \A m \in Node : Used(m)' = Used(m)
    BY DEF Used, Detoured, Working
  <1>2. \A m \in Node : Heard(m)' = Heard(m)
    BY DEF Heard, Used, Detoured, Working
  <1>3. Crossings' = Crossings /\ Detoured' = Detoured
    BY DEF Crossings, Used, Detoured, Working
  <1>4. Balanced => Balanced'
    BY <1>1, <1>2 DEF Balanced
  <1>5. LeadsToOrigin => LeadsToOrigin'
    BY <1>3 DEF LeadsToOrigin, ParentNode
  <1>6. SearchInv => SearchInv'
    <2>1. \A m \in Detoured : m \in Node
      BY DEF Detoured
    <2>2. at[2] \in Heard(at[1]) => (at[2] \in Heard(at[1]))'
      BY DEF Heard, Used, Detoured, Working
    <2> QED
      BY <1>2, <1>3, <1>4, <1>5, <2>1, <2>2 DEF SearchInv
  <1>7. SearchesFromFirstRouter' => SearchesFromFirstRouter
    BY DEF SearchesFromFirstRouter, LinksFailed, NotWorking, NormalRouting, CrossedBefore
  <1> QED
    BY <1>6, <1>7, CutOffStays DEF DetourInv

(* The depth first search misses nothing.  If the links that have failed   *)
(* have failed as links, nothing changes while the packet is under way and *)
(* the detour has begun at the first router, then the packet is delivered, *)
(* or is still searching, unless no path leads from that router to Dst: no *)
(* packet is dropped, aborts the program or runs out of TTL.  Whatever the *)
(* network; the sockets pass a packet to RouteOutput.                      *)
THEOREM DetourFindsPathCorrect ==
  ASSUME Algorithm = "dfs", "null" \notin Query
  PROVE  ObservedSpec => []DetourFindsPath
  <1> DEFINE IInv == TypeInv /\ TreeInv /\ DownRecorded
                       /\ (LoopbackIsLast => DfsInv /\ FirstHop)
                       /\ (Assumed => DetourInv)
  <1>1. ObservedInit => IInv
    <2>1. Init => TypeInv /\ TreeInv /\ DfsInv
      BY InitTypeInv, TreeInit, DfsInvInit
    <2>2. Init => DownRecorded
      BY PortType DEF Init, DownRecorded
    <2>3. Init => FirstHop /\ NormalRouting
      BY EmptyTagType DEF Init, FirstHop, NormalRouting
    <2> QED
      BY <2>1, <2>2, <2>3 DEF ObservedInit, DetourInv, SearchesFromFirstRouter
  <1>2. IInv /\ [Next /\ Observe]_<<vars, disturbed, origin>> => IInv'
    <2> SUFFICES ASSUME IInv, [Next /\ Observe]_<<vars, disturbed, origin>> PROVE IInv'
      OBVIOUS
    <2>1. TypeOK /\ TypeInv /\ TreeInv /\ DownRecorded /\ [Next]_vars
      BY DEF TypeInv, NetType, PacketType, TypeOK
    <2>2. TypeInv' /\ TreeInv' /\ DownRecorded'
      BY <2>1, NextTypeInv, TreeNext, DownRecordedNext
    <2>3. LoopbackIsLast => DfsInv' /\ FirstHop'
      BY <2>1, DfsInvNext, FirstHopNext
    <2>4. Assumed => DetourInv'
      <3> SUFFICES ASSUME Assumed PROVE DetourInv'
        OBVIOUS
      <3>1. Underlying /\ DetourInv
        BY <2>1 DEF Underlying, Assumed
      <3> QED
        BY <3>1, DetourInvNext, DetourInvStays
    <2>5. (LoopbackIsLast' <=> LoopbackIsLast) /\ (Assumed' <=> Assumed)
      BY DEF LoopbackIsLast, Assumed, PhysicalPort, Port, Device
    <2> QED
      BY <2>2, <2>3, <2>4, <2>5
  <1>3. IInv => DetourFindsPath
    BY DEF Assumed, DetourInv, DetourFindsPath
  <1> QED
    BY <1>1, <1>2, <1>3, PTL DEF ObservedSpec

=============================================================================
