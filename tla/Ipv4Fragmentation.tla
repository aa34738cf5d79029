------------------------- MODULE Ipv4Fragmentation -------------------------
(***************************************************************************)
(* Fragmentation and reassembly in src/model/ipv4-l3-protocol.cc.          *)
(*                                                                         *)
(* Datagrams of one source, destination and protocol travel over a chain   *)
(* of links.  The node before each link fragments what does not fit; the   *)
(* destination collects fragments by identification, which the source      *)
(* counts in 16 bits.  Links lose, delay and reorder fragments and may     *)
(* deliver one twice; the timer of a reassembly may expire at any moment.  *)
(*                                                                         *)
(* A fragment carries bytes from .. from + size - 1 of its datagram (what  *)
(* Packet::CreateFragment cut out), offset is what its header says.        *)
(***************************************************************************)
EXTENDS Integers, SequencesExt

CONSTANTS
    Size,             \* Size[d]: payload of the d-th datagram, in bytes
    Room,             \* Room[k]: MTU of link k less the 20 bytes of a header
    Align,            \* what offsets are multiples of: 8
    IdModulus,        \* 2^16
    MaxDuplicates     \* bound on the fragments that arrive twice

Datagram == DOMAIN Size

Links == DOMAIN Room

ASSUME FragmentationAssumption ==
    /\ Size \in Seq(Nat \ {0})
    /\ Align \in Nat \ {0} /\ IdModulus \in Nat \ {0} /\ MaxDuplicates \in Nat
    /\ Room \in Seq(Nat) /\ Room # << >>
    /\ \A k \in Links : Room[k] >= Align

VARIABLES
    sent,         \* datagrams sent so far: m_identification, not yet wrapped
    network,      \* pairs <<f, k>>: fragment f is on link k
    fragments,    \* fragments[i]: m_fragments of identification i, in order
    moreFragment, \* moreFragment[i]: its m_moreFragment
    timers,       \* identifications with a running m_fragmentsTimers
    delivered,    \* pairs <<i, bytes>>: what went up to the transport protocol
    lost,         \* history: datagrams with a fragment lost or timed out
    displaced,    \* history: datagrams with a fragment whose header is wrong
    duplicates    \* fragments that arrived twice so far

reassembly == <<fragments, moreFragment, timers>>
vars == <<sent, network, fragments, moreFragment, timers, delivered, lost, displaced, duplicates>>

Fragment == [dg : Datagram, from : Nat, size : Nat \ {0}, offset : Nat, more : BOOLEAN]

Id == 0 .. IdModulus - 1

Identification(d) == (d - 1) % IdModulus

Byte == Datagram \X Nat

TypeOK ==
    /\ sent \in 0 .. Len(Size)
    /\ network \subseteq Fragment \X Links
    /\ fragments \in [Id -> Seq(Fragment)]
    /\ moreFragment \in [Id -> BOOLEAN]
    /\ timers \subseteq Id
    /\ delivered \subseteq Id \X Seq(Byte)
    /\ lost \subseteq Datagram /\ displaced \subseteq Datagram
    /\ duplicates \in 0 .. MaxDuplicates

Init ==
    /\ sent = 0
    /\ network = {}
    /\ fragments = [i \in Id |-> << >>]
    /\ moreFragment = [i \in Id |-> FALSE]
    /\ timers = {}
    /\ delivered = {}
    /\ lost = {}
    /\ displaced = {}
    /\ duplicates = 0

-----------------------------------------------------------------------------
(* DoFragmentation.                                                        *)

FragmentSize(room) == (room \div Align) * Align

(* Mutation of Piece: the end of a fragment passes for the end of the      *)
(* datagram.                                                               *)
PieceEndsAll(f, start, length) ==
    [dg |-> f.dg, from |-> f.from + start, size |-> length,
     offset |-> (IF f.more THEN f.offset ELSE 0) + start,
     more |-> start + length < f.size]

(* The original offset is kept only if more fragments follow f.            *)
Piece(f, start, length) ==
    [dg |-> f.dg, from |-> f.from + start, size |-> length,
     offset |-> (IF f.more THEN f.offset ELSE 0) + start,
     more |-> start + length < f.size \/ f.more]

(* Mutation of DoFragmentation: the loop goes on while the packet is not   *)
(* longer than what was cut off.                                           *)
DoFragmentationOneMore(f, room) ==
    LET full == FragmentSize(room)
    IN  {Piece(f, start, IF f.size > start + full THEN full ELSE f.size - start) :
            start \in {s \in 0 .. f.size : s % full = 0}}

(* The loop over the pieces; the last one takes what is left.              *)
DoFragmentation(f, room) ==
    LET full == FragmentSize(room)
    IN  {Piece(f, start, IF f.size > start + full THEN full ELSE f.size - start) :
            start \in {s \in 0 .. f.size - 1 : s % full = 0}}

(* Mutation of SendRealOut: the packet is sent besides its fragments.      *)
SendRealOutBoth(f, k) == IF f.size > Room[k] THEN {f} \cup DoFragmentation(f, Room[k]) ELSE {f}

(* What SendRealOut puts on link k for f.                                  *)
SendRealOut(f, k) == IF f.size > Room[k] THEN DoFragmentation(f, Room[k]) ELSE {f}

Displaced(S) == {f.dg : f \in {g \in S : g.offset # g.from}}

-----------------------------------------------------------------------------
(* Fragments: the list of one datagram under reassembly.                   *)

End(f) == f.offset + f.size

(* AddFragment goes behind every fragment that does not begin later.       *)
Place(q, f) == Cardinality({j \in DOMAIN q : q[j].offset <= f.offset})

AddFragment(q, f) == InsertAt(q, Place(q, f) + 1, f)

(* Mutation of MoreAfter: the fragment that came last decides.             *)
MoreAfterLatest(q, more, f) == f.more

(* m_moreFragment is that of the fragment at the end of the list.          *)
MoreAfter(q, more, f) == IF Place(q, f) = Len(q) THEN f.more ELSE more

(* Mutation of IsEntire: holes are not looked for.                         *)
IsEntireUnchecked(q, more) == ~ more /\ q # << >>

IsEntire(q, more) ==
    /\ ~ more /\ q # << >>
    /\ \A j \in DOMAIN q : q[j].offset = 0 \/ \E i \in 1 .. j - 1 : End(q[i]) >= q[j].offset

Bytes(f) == [b \in 1 .. f.size |-> <<f.dg, f.from + b - 1>>]

(* The bytes of f that come after the first n of the datagram.             *)
After(f, n) == SubSeq(Bytes(f), (IF n > f.offset THEN n - f.offset ELSE 0) + 1, f.size)

GetPacket(q) == FoldLeft(LAMBDA p, f : p \o After(f, Len(p)), << >>, q)

(* GetPartialPacket skips a fragment behind a hole but goes on.            *)
PartialLength(q) == FoldLeft(LAMBDA n, f : IF f.offset > n THEN n ELSE End(f), 0, q)

-----------------------------------------------------------------------------
(* BuildHeader and Send.                                                   *)
Send ==
    /\ sent < Len(Size)
    /\ sent' = sent + 1
    /\ LET whole  == [dg |-> sent', from |-> 0, size |-> Size[sent'], offset |-> 0, more |-> FALSE]
           pieces == SendRealOut(whole, 1)
       IN  /\ network' = network \cup (pieces \X {1})
           /\ displaced' = displaced \cup Displaced(pieces)
    /\ UNCHANGED <<reassembly, delivered, lost, duplicates>>

(* The node behind link k, not the last one, forwards.                     *)
Forward(f, k) ==
    /\ <<f, k>> \in network /\ k + 1 \in Links
    /\ LET pieces == SendRealOut(f, k + 1)
       IN  /\ network' = (network \ {<<f, k>>}) \cup (pieces \X {k + 1})
           /\ displaced' = displaced \cup Displaced(pieces)
    /\ UNCHANGED <<sent, reassembly, delivered, lost, duplicates>>

Lose(f, k) ==
    /\ <<f, k>> \in network
    /\ network' = network \ {<<f, k>>}
    /\ lost' = lost \cup {f.dg}
    /\ UNCHANGED <<sent, reassembly, delivered, displaced, duplicates>>

(* A fragment comes off the last link; it may come once more.              *)
Arrives(f) ==
    /\ <<f, Len(Room)>> \in network
    /\ \/ network' = network \ {<<f, Len(Room)>>} /\ UNCHANGED duplicates
       \/ /\ duplicates < MaxDuplicates
          /\ duplicates' = duplicates + 1
          /\ UNCHANGED network

(* LocalDeliver of a datagram that is not a fragment.                      *)
DeliverWhole(f) ==
    /\ Arrives(f)
    /\ ~ f.more /\ f.offset = 0
    /\ delivered' = delivered \cup {<<Identification(f.dg), Bytes(f)>>}
    /\ UNCHANGED <<sent, reassembly, lost, displaced>>

(* Mutation of StartTimer: only the first fragment starts it.              *)
StartTimerAtFirst(i, f) == IF f.offset = 0 THEN timers \cup {i} ELSE timers

(* The timer starts with the first fragment that arrives.                  *)
StartTimer(i, f) == timers \cup {i}

(* LocalDeliver and ProcessFragment of a fragment.                         *)
ProcessFragment(f) ==
    /\ Arrives(f)
    /\ f.more \/ f.offset # 0
    /\ LET i    == Identification(f.dg)
           q    == AddFragment(fragments[i], f)
           more == MoreAfter(fragments[i], moreFragment[i], f)
       IN  IF IsEntire(q, more)
           THEN /\ delivered' = delivered \cup {<<i, GetPacket(q)>>}
                /\ fragments' = [fragments EXCEPT ![i] = << >>]
                /\ moreFragment' = [moreFragment EXCEPT ![i] = FALSE]
                /\ timers' = timers \ {i}
           ELSE /\ fragments' = [fragments EXCEPT ![i] = q]
                /\ moreFragment' = [moreFragment EXCEPT ![i] = more]
                /\ timers' = StartTimer(i, f)
                /\ UNCHANGED delivered
    /\ UNCHANGED <<sent, lost, displaced>>

HandleFragmentsTimeout(i) ==
    /\ i \in timers
    /\ fragments' = [fragments EXCEPT ![i] = << >>]
    /\ moreFragment' = [moreFragment EXCEPT ![i] = FALSE]
    /\ timers' = timers \ {i}
    /\ lost' = lost \cup {fragments[i][j].dg : j \in DOMAIN fragments[i]}
    /\ UNCHANGED <<sent, network, delivered, displaced, duplicates>>

Next ==
    \/ Send
    \/ \E pair \in network : \E f \in {pair[1]} :
         \/ Forward(f, pair[2])
         \/ Lose(f, pair[2])
         \/ DeliverWhole(f)
         \/ ProcessFragment(f)
    \/ \E i \in Id : HandleFragmentsTimeout(i)

(* Every timer that is set expires.                                        *)
Fairness == \A i \in Id : WF_vars(HandleFragmentsTimeout(i))

Spec == Init /\ [][Next]_vars

FairSpec == Spec /\ Fairness

-----------------------------------------------------------------------------
(* Properties.                                                             *)

(* The datagrams sent under identification i.                              *)
SentAs(i) == {d \in 1 .. sent : Identification(d) = i}

Alone(d) == SentAs(Identification(d)) = {d} /\ d \notin displaced

Whole(d) == [b \in 1 .. Size[d] |-> <<d, b - 1>>]

(* Wherever a fragment is, its header says which bytes of its datagram it  *)
(* carries and whether there are more, however often it was fragmented     *)
(* itself; the headers of a datagram marked as displaced do not.           *)
InPlace(f) ==
    /\ f.offset = f.from
    /\ f.more <=> f.from + f.size < Size[f.dg]

FragmentsInPlace ==
    /\ \A pair \in network : pair[1].dg \in displaced \/ InPlace(pair[1])
    /\ \A i \in Id : \A j \in DOMAIN fragments[i] :
         fragments[i][j].dg \in displaced \/ InPlace(fragments[i][j])

(* A packet that is handed up is an entire datagram, whatever the order,   *)
(* the losses and the duplicates among its fragments, unless its           *)
(* identification is in use again or a header is wrong.                    *)
DeliveredEntire ==
    \A pair \in delivered : \A d \in SentAs(pair[1]) : Alone(d) => pair[2] = Whole(d)

(* Even if two datagrams with one identification are mixed, every byte of  *)
(* the packet is at the place it had in its own datagram.                  *)
BytesInPlace ==
    \A pair \in delivered :
        SentAs(pair[1]) \cap displaced = {} =>
            \A b \in DOMAIN pair[2] : pair[2][b][2] = b - 1

(* A packet that is handed up consists of the datagram sent, entire and    *)
(* with every byte in its place, however its fragments arrived.            *)
DeliveredIntact == DeliveredEntire /\ BytesInPlace

(* A datagram of which nothing was lost and nothing is under way has been  *)
(* handed up: in no order of arrival is it held back.                      *)
NothingHeldBack ==
    \A d \in 1 .. sent :
        Alone(d) /\ d \notin lost /\ (\A pair \in network : pair[1].dg # d) =>
            <<Identification(d), Whole(d)>> \in delivered

(* GetPartialPacket takes from a fragment that overlaps what it has put    *)
(* together a part of the size End(fragment) - PartialLength, without      *)
(* asking whether any is left, as GetPacket does.                          *)
SizeWraps(q) ==
    \E j \in DOMAIN q : End(q[j]) < PartialLength(SubSeq(q, 1, j - 1))

(* When the timer expires, that size does wrap around in two cases: if     *)
(* fragments of two datagrams are in the list, or one whose header gives a *)
(* wrong offset.  It wraps in no other, whatever is lost, repeated or      *)
(* reordered, and whatever else was sent under the identification.         *)
SizeWrapsOnlyIfMixed ==
    \A i \in Id : SizeWraps(fragments[i]) =>
        \/ \E j, k \in DOMAIN fragments[i] : fragments[i][j].dg # fragments[i][k].dg
        \/ \E j \in DOMAIN fragments[i] : fragments[i][j].offset # fragments[i][j].from

(* A reassembly has a timer, and a timer that expires has a reassembly to  *)
(* dereference.                                                            *)
TimerPerReassembly == timers = {i \in Id : fragments[i] # << >>}

(* No reassembly is kept for ever: it is completed or times out.           *)
ReassemblyEnds == \A i \in Id : fragments[i] # << >> ~> fragments[i] = << >>

-----------------------------------------------------------------------------
(* "Get the entire packet", ipv4-l3-protocol.h has of GetPacket: what is   *)
(* handed up under an identification used once is the entire datagram.     *)
GetsEntirePacket ==
    \A pair \in delivered : \A d \in SentAs(pair[1]) :
        SentAs(pair[1]) = {d} => pair[2] = Whole(d)

=============================================================================
