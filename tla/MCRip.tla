------------------------------- MODULE MCRip -------------------------------
(***************************************************************************)
(* Small instances of Rip.  On the line, A and C are attached to Dst, B is *)
(* between them; in the pair, only A is.                                   *)
(***************************************************************************)
EXTENDS Rip

Line == [n \in Net |-> CASE n = "dst" -> {"A", "C"}
                         [] n = "AB" -> {"A", "B"}
                         [] n = "BC" -> {"B", "C"}]

Pair == [n \in Net |-> IF n = "dst" THEN {"A"} ELSE {"A", "B"}]

UnitMetric == [r \in Router |-> [n \in Net |-> 1]]

InterfacesOfA == {"A"} \X {"dst", "AB"}

=============================================================================
