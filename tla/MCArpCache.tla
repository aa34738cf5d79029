----------------------------- MODULE MCArpCache -----------------------------
(***************************************************************************)
(* Small instances of ArpCache: a few packets to one or two neighbours.    *)
(***************************************************************************)
EXTENDS ArpCache

OneNeighbour == [p \in Packet |-> "a"]

TwoNeighbours == [p \in Packet |-> IF p = 2 THEN "b" ELSE "a"]

=============================================================================
