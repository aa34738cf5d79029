--------------------------- MODULE MCTcpTransfer ---------------------------
(***************************************************************************)
(* A small instance of TcpTransfer.  Single bytes are written and become   *)
(* small segments, which a retransmission covers with a larger one; with   *)
(* the defaults of the source, and with the opposite settings.             *)
(***************************************************************************)
EXTENDS TcpTransfer

SingleBytes == <<1, 1, 1, 1>>

AllOrNone == {[limitedTx |-> on, noDelay |-> on] : on \in BOOLEAN}

=============================================================================
