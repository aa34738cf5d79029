------------------------------ MODULE DfsDetour ------------------------------
(***************************************************************************)
(* The depth first failover of Ipv4GlobalRouting as a search: what the     *)
(* detour of a packet finds in a network that stays as it is while the     *)
(* packet is under way.  Two history variables tell such packets from      *)
(* others, and where a detour began.                                       *)
(***************************************************************************)
EXTENDS Ipv4GlobalRouting

VARIABLES
    disturbed,  \* whether an interface or an address has changed since the
                \* packet was sent
    origin      \* the node at which its detour began, Src before that

Observe ==
    /\ disturbed' = (events' > events \/ (status = "flight" /\ disturbed))
    /\ origin' = IF NormalRouting' THEN Src ELSE IF NormalRouting THEN at[1] ELSE origin

ObservedInit == Init /\ disturbed = FALSE /\ origin = Src

ObservedSpec == ObservedInit /\ [][Next /\ Observe]_<<vars, disturbed, origin>>

ObservedFairSpec == ObservedSpec /\ Fairness

(* Links have failed as links: both ends or none, and no interface that    *)
(* was down has come up again.                                             *)
LinksFailed ==
    \A p \in PhysicalPort :
        /\ p \in ifaceUp <=> Link[p] \in ifaceUp
        /\ p \in ifaceUp => ~ NotWorking(p[1], p[2])

(* Dst cannot be reached from n: some set of nodes that no link leaves     *)
(* holds n and not Dst.                                                    *)
CutOff(n) ==
    \E S \in SUBSET Node :
        /\ n \in S /\ Dst \notin S
        /\ \A p \in PhysicalPort : p[1] \in S /\ p \in ifaceUp => Link[p][1] \in S

(* A packet that nothing disturbs, whose detour began at the first router, *)
(* so that plain routing had it cross no other node before, and not with a *)
(* step onto a broken port 1, which is not checked.                        *)
SearchesFromFirstRouter ==
    /\ LinksFailed /\ ~ disturbed /\ ~ NormalRouting
    /\ \A n \in Node : ~ CrossedBefore(n)
    /\ <<origin, 1>> \in ifaceUp

(* Such a detour delivers its packet unless there is no path to Dst: no    *)
(* port is tried twice before all that can be reached has been searched,   *)
(* the scan never runs out of ports at a node that has no parent, and the  *)
(* packet crosses each link at most once in each direction, so that a TTL  *)
(* above the number of ports is enough.                                    *)
DetourFindsPath ==
    /\ LoopbackIsLast /\ Forwarding = Node /\ InitialTtl > Cardinality(PhysicalPort)
    /\ SearchesFromFirstRouter
    => status \in {"flight", "delivered"} \/ CutOff(origin)

=============================================================================
