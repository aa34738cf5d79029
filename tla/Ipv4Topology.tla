---------------------------- MODULE Ipv4Topology ----------------------------
(***************************************************************************)
(* Nodes, their net devices and the point-to-point links between them, as  *)
(* the routing code in src/model/ipv4-global-routing.cc sees them.         *)
(*                                                                         *)
(* A node is named by its id (Node::GetId), a natural number.  Its devices *)
(* are numbered from 1, the numbering of IndexOfNetDeviceInNode and        *)
(* GetDevicePlusOne.  One of them is the loopback device that              *)
(* Ipv4L3Protocol::SetupLoopback adds when the internet stack is           *)
(* installed: the last one if the stack is installed after the other       *)
(* devices, the first one if it is installed before them (the repository's *)
(* own global routing test does the latter).                               *)
(***************************************************************************)
EXTENDS Integers, FiniteSets

CONSTANTS
    Node,        \* the ids of the nodes
    NDevices,    \* NDevices[n]: Node::GetNDevices of node n
    Loopback,    \* Loopback[n]: index of the loopback device of n
    Link         \* Link[<<n, d>>]: the <<node, device>> at the other end

Device(n) == 1 .. NDevices[n]

Physical(n) == Device(n) \ {Loopback[n]}

(* Every device of every node. *)
Port == UNION {{n} \X Device(n) : n \in Node}

PhysicalPort == {p \in Port : p[2] # Loopback[p[1]]}

(* IndexOfNetDeviceInNode returns a uint8_t, so a node has at most 254     *)
(* devices (255 is its "not found").  A node has its loopback device and   *)
(* at least one other.                                                     *)
ASSUME NodeAssumption ==
    /\ Node \subseteq Nat
    /\ IsFiniteSet(Node)
    /\ NDevices \in [Node -> 2 .. 254]
    /\ \A n \in Node : Loopback[n] \in 1 .. NDevices[n]

(* Links are bidirectional; what is sent on the loopback device comes back *)
(* to the same device.                                                     *)
ASSUME LinkAssumption ==
    /\ Link \in [Port -> Port]
    /\ \A p \in Port : Link[Link[p]] = p
    /\ \A n \in Node : Link[<<n, Loopback[n]>>] = <<n, Loopback[n]>>
    /\ \A p \in PhysicalPort : Link[p] \in PhysicalPort /\ Link[p][1] # p[1]

=============================================================================
