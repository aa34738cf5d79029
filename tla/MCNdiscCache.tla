---------------------------- MODULE MCNdiscCache ----------------------------
(***************************************************************************)
(* A small instance of NdiscCache: two hosts that send packets to each     *)
(* other, the even ones from b.                                            *)
(***************************************************************************)
EXTENDS NdiscCache

Source == [p \in Packet |-> IF p % 2 = 0 THEN "b" ELSE "a"]

Destination == [p \in Packet |-> IF p % 2 = 0 THEN "a" ELSE "b"]

=============================================================================
