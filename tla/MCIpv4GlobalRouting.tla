------------------------ MODULE MCIpv4GlobalRouting ------------------------
(***************************************************************************)
(* Small networks for Ipv4GlobalRouting.  Switches have the low node ids,  *)
(* the sending and receiving hosts the next two, as in a script that       *)
(* creates the switches first.                                             *)
(***************************************************************************)
EXTENDS Ipv4GlobalRouting

(* The links as a set of unordered pairs of ports, without the loopbacks.  *)
LinkFrom(cables) ==
    [p \in Port |->
        IF \E c \in cables : p \in c
        THEN CHOOSE q \in UNION {c \in cables : p \in c} : q # p
        ELSE p]

(* Diamond: 4 - 0, 0 - {1, 2}, {1, 2} - 3, 3 - 5.                          *)
DiamondNode == 0 .. 5
WithoutTwo == DiamondNode \ {2}
DiamondNDevices == [n \in DiamondNode |-> CASE n \in {0, 3} -> 4 [] n \in {1, 2} -> 3 [] OTHER -> 2]
DiamondCables ==
    { {<<0, 1>>, <<4, 1>>}, {<<0, 2>>, <<1, 1>>}, {<<0, 3>>, <<2, 1>>},
      {<<1, 2>>, <<3, 2>>}, {<<2, 2>>, <<3, 3>>}, {<<3, 1>>, <<5, 1>>} }
DiamondLink == LinkFrom(DiamondCables)
DiamondDstPort == <<5, 1>>

(* Ring: hosts 3, 4, 5 on port 1 of the switches 0, 1, 2, port 3 of each   *)
(* switch cabled to port 2 of the next.                                    *)
RingNode == 0 .. 5
RingNDevices == [n \in RingNode |-> IF n < 3 THEN 4 ELSE 2]
RingCables ==
    {{<<n, 1>>, <<n + 3, 1>>} : n \in 0 .. 2} \cup {{<<n, 3>>, <<(n + 1) % 3, 2>>} : n \in 0 .. 2}
RingLink == LinkFrom(RingCables)
RingDstPort == <<4, 1>>

(* Shortest paths over the links both of whose ends are up: the distance   *)
(* from every node to the nearest other router attached to the network of  *)
(* DstPort.                                                                *)
Targets(up, n) == {p[1] : p \in {q \in {DstPort, Link[DstPort]} : q \in up}} \ {n}

Neighbours(up, n) ==
    {Link[p][1] : p \in {q \in PhysicalPort : q[1] = n /\ q \in up /\ Link[q] \in up}}

Reach(up, goals) ==
    LET ball[k \in 0 .. Cardinality(Node)] ==
            IF k = 0 THEN goals
            ELSE LET inner == ball[k - 1]
                 IN  inner \cup {n \in Node : Neighbours(up, n) \cap inner # {}}
    IN  ball

ShortestNextHops(up, n) ==
    LET goals == Targets(up, n)
        ball  == Reach(up, goals)
        near  == {k \in 0 .. Cardinality(Node) : n \in ball[k]}
    IN  IF near = {} THEN {}
        ELSE {d \in Physical(n) :
                /\ <<n, d>> \in up /\ Link[<<n, d>>] \in up
                /\ Link[<<n, d>>][1] \in ball[Smallest(near) - 1]}

=============================================================================
