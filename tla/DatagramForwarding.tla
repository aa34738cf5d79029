------------------------- MODULE DatagramForwarding -------------------------
(***************************************************************************)
(* Best-effort forwarding of one datagram, what the forwarding plane of    *)
(* src/model/ipv4-l3-protocol.cc promises whatever routing protocol makes  *)
(* the decisions: the datagram moves over links whose sending interface is *)
(* up, is taken in only by interfaces that are up, pays one unit of TTL    *)
(* for every node that forwards it, reaches the socket at its destination  *)
(* only, and is discarded only for a reason.                               *)
(***************************************************************************)
EXTENDS Ipv4Topology

CONSTANTS
    Src, Dst, Forwarding, InitialTtl,
    MayAbort    \* whether the routing protocol may end the program

VARIABLES
    ifaceUp,    \* the ports whose interface is up
    status,     \* what has become of the datagram
    at,         \* the port at which it arrives next
    ttl         \* how many more nodes may forward it

datagram == <<status, at, ttl>>
vars     == <<ifaceUp, status, at, ttl>>

InFlight == status = "flight"

Init ==
    /\ ifaceUp = Port
    /\ status = "none"
    /\ at \in Port
    /\ ttl = 0

(* The datagram leaves node n through one of its interfaces that are up,   *)
(* or is discarded there because the interface is down.                    *)
Leave(n) ==
    \/ \E d \in Device(n) : /\ <<n, d>> \in ifaceUp
                            /\ status' = "flight"
                            /\ at' = Link[<<n, d>>]
    \/ \E d \in Device(n) : /\ <<n, d>> \notin ifaceUp
                            /\ status' = "ifaceDown"
                            /\ at' = at

Originate ==
    /\ ~ InFlight /\ status # "aborted"
    /\ ttl' = InitialTtl
    /\ \/ Leave(Src)
       \/ status' = "noRoute" /\ at' = at
    /\ UNCHANGED ifaceUp

Forward ==
    /\ InFlight /\ at \in ifaceUp
    /\ at[1] # Dst /\ at[1] \in Forwarding
    /\ ttl' = ttl - 1
    /\ IF ttl' = 0 THEN status' = "ttlExpired" /\ at' = at ELSE Leave(at[1])
    /\ UNCHANGED ifaceUp

Deliver ==
    /\ InFlight /\ at \in ifaceUp
    /\ at[1] = Dst
    /\ status' = "delivered"
    /\ UNCHANGED <<ifaceUp, at, ttl>>

(* The node refuses to forward, or its routing protocol finds no route.    *)
Refuse ==
    /\ InFlight /\ at \in ifaceUp
    /\ at[1] # Dst
    /\ status' = IF at[1] \in Forwarding THEN "noRoute" ELSE "routeError"
    /\ UNCHANGED <<ifaceUp, at, ttl>>

Miss ==
    /\ InFlight /\ at \notin ifaceUp
    /\ status' = "ifaceDown"
    /\ UNCHANGED <<ifaceUp, at, ttl>>

(* The program ends while it routes a datagram.                            *)
Crash ==
    /\ MayAbort
    /\ ~ (InFlight /\ at \notin ifaceUp)
    /\ at[1] # Dst \/ ~ InFlight
    /\ status' = "aborted"
    /\ UNCHANGED <<ifaceUp, at, ttl>>

Toggle ==
    /\ \E p \in Port : ifaceUp' \in {ifaceUp \cup {p}, ifaceUp \ {p}}
    /\ UNCHANGED datagram

Next == Originate \/ Forward \/ Deliver \/ Refuse \/ Miss \/ Crash \/ Toggle

Spec == Init /\ [][Next]_vars

=============================================================================
