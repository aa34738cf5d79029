----------------------------- MODULE ByteStream -----------------------------
(***************************************************************************)
(* What the TCP sockets of src/model/tcp-socket-base.cc promise the two    *)
(* applications of a connection, whatever the network loses, repeats or    *)
(* reorders: a stream of bytes, read once and in order.  The bytes that    *)
(* the sending socket no longer keeps have reached the other end.  A       *)
(* connection that is given up keeps all that it has, and what has not     *)
(* been sent by then never arrives, though the socket goes on to take      *)
(* bytes from its application as long as there is room for them.           *)
(***************************************************************************)
EXTENDS Integers, Sequences

CONSTANT Capacity    \* how many bytes the sending socket keeps

VARIABLES
    written,    \* how many bytes the sending application has written
    sent,       \* how many of them have been sent at least once
    released,   \* how many the sending socket no longer keeps
    accepted,   \* how many the receiving socket has taken in without a gap
    read,       \* the bytes that the receiving application has read
    open        \* the sender has not given up

vars == <<written, sent, released, accepted, read, open>>

(* A byte is its position in the stream.                                   *)
Prefix(n) == [i \in 1 .. n |-> i]

Init ==
    /\ written = 0 /\ sent = 0 /\ released = 0 /\ accepted = 0
    /\ read = << >>
    /\ open = TRUE

Write ==
    /\ UNCHANGED <<sent, released, accepted, read, open>>
    /\ written' \in written + 1 .. released + Capacity

Transmit ==
    /\ open
    /\ UNCHANGED <<written, released, accepted, read, open>>
    /\ sent' \in sent + 1 .. written

Accept ==
    /\ UNCHANGED <<written, sent, released, read, open>>
    /\ accepted' \in accepted + 1 .. sent

(* More may be sent along with it.                                         *)
Release ==
    /\ open
    /\ UNCHANGED <<written, accepted, read, open>>
    /\ released' \in released + 1 .. accepted
    /\ sent' \in sent .. written

Read ==
    /\ UNCHANGED <<written, sent, released, accepted, open>>
    /\ \E n \in Len(read) + 1 .. accepted : read' = Prefix(n)

GiveUp ==
    /\ UNCHANGED <<written, sent, released, accepted, read>>
    /\ open /\ open' = FALSE

Next == Write \/ Transmit \/ Accept \/ Release \/ Read \/ GiveUp

Spec == Init /\ [][Next]_vars

=============================================================================
