---------------------- MODULE Ipv4Fragmentation_proofs ----------------------
(***************************************************************************)
(* Proofs about Ipv4Fragmentation, for any datagrams, any chain of links   *)
(* and any bound on the duplicates.                                        *)
(***************************************************************************)
EXTENDS Ipv4Fragmentation, FoldTheorems, FiniteSetTheorems, SequenceTheorems, TLAPS

(* The fragments that carry a part of their datagram and whose header says *)
(* which, or whose datagram is in D.                                       *)
Sound(D) ==
    {f \in Fragment :
        /\ f.from + f.size <= Size[f.dg]
        /\ f.dg \in D \/ InPlace(f)}

(* The inductive invariant.                                                *)
SoundInv ==
    /\ sent \in 0 .. Len(Size)
    /\ network \subseteq Sound(displaced) \X Links
    /\ fragments \in [Id -> Seq(Sound(displaced))]

-----------------------------------------------------------------------------
(* Sequences of fragments.                                                 *)

LEMMA InsertType ==
    ASSUME NEW S, NEW q \in Seq(S), NEW f \in S, NEW i \in 1 .. Len(q) + 1
    PROVE  InsertAt(q, i, f) \in Seq(S) /\ InsertAt(q, i, f) # << >>
<1>1. SubSeq(q, 1, i - 1) \in Seq(S) /\ SubSeq(q, i, Len(q)) \in Seq(S)
  BY SubSeqProperties
<1>2. <<f>> \in Seq(S) /\ Len(<<f>>) = 1
  OBVIOUS
<1>3. QED
  BY <1>1, <1>2, ConcatProperties DEF InsertAt

LEMMA PlaceInList ==
    ASSUME NEW q \in Seq(Fragment), NEW f
    PROVE  Place(q, f) \in 0 .. Len(q)
<1>1. IsFiniteSet(1 .. Len(q)) /\ Cardinality(1 .. Len(q)) = Len(q)
  <2>1. Len(q) \in Nat
    BY LenProperties
  <2>2. IsFiniteSet(1 .. Len(q)) /\ Cardinality(1 .. Len(q)) = IF 1 > Len(q) THEN 0 ELSE Len(q) - 1 + 1
    BY <2>1, FS_Interval
  <2>3. QED
    BY <2>1, <2>2
<1>2. {j \in DOMAIN q : q[j].offset <= f.offset} \subseteq 1 .. Len(q)
  BY LenProperties
<1>3. QED
  BY <1>1, <1>2, FS_Subset, FS_CardinalityType DEF Place

LEMMA AddType ==
    ASSUME NEW S \in SUBSET Fragment, NEW q \in Seq(S), NEW f \in S
    PROVE  AddFragment(q, f) \in Seq(S) /\ AddFragment(q, f) # << >>
<1>1. Place(q, f) + 1 \in 1 .. Len(q) + 1
  BY PlaceInList, SeqMonotonic
<1>2. QED
  BY <1>1, InsertType DEF AddFragment

-----------------------------------------------------------------------------
(* Fragmentation.                                                          *)

LEMMA SizeType == ASSUME NEW d \in Datagram PROVE Size[d] \in Nat \ {0} /\ d \in 1 .. Len(Size)
  BY FragmentationAssumption, LenProperties, ElementOfSeq DEF Datagram

LEMMA FullIsPositive ==
    ASSUME NEW k \in Links
    PROVE  FragmentSize(Room[k]) \in Nat \ {0}
<1>1. Room[k] \in Nat /\ Room[k] >= Align /\ Align \in Nat \ {0}
  BY FragmentationAssumption DEF Links
<1>2. Room[k] \div Align \in Nat \ {0}
  BY <1>1
<1>3. QED
  BY <1>1, <1>2 DEF FragmentSize

LEMMA Remainder == ASSUME NEW a \in Nat, NEW m \in Nat \ {0} PROVE a % m \in 0 .. m - 1
  OBVIOUS

LEMMA IdType == ASSUME NEW d \in Datagram PROVE Identification(d) \in Id
<1>1. d - 1 \in Nat /\ IdModulus \in Nat \ {0}
  BY SizeType, FragmentationAssumption
<1>2. QED
  BY <1>1, Remainder DEF Identification, Id

LEMMA SoundGrows == ASSUME NEW D, NEW E, D \subseteq E PROVE Sound(D) \subseteq Sound(E)
  BY DEF Sound

(* A piece of a fragment lies within it and says where, or its datagram is *)
(* among those that SendRealOut displaces.                                 *)
LEMMA PieceSound ==
    ASSUME NEW D, NEW f \in Sound(D), NEW k \in Links, NEW g \in SendRealOut(f, k)
    PROVE  g \in Sound(D \cup Displaced(SendRealOut(f, k)))
<1> DEFINE E == D \cup Displaced(SendRealOut(f, k))
           full == FragmentSize(Room[k])
<1>1. CASE g = f
  BY <1>1, SoundGrows
<1>2. CASE g # f
  <2>1. g \in DoFragmentation(f, Room[k])
    BY <1>2 DEF SendRealOut
  <2>2. PICK start \in 0 .. f.size - 1 :
             g = Piece(f, start, IF f.size > start + full THEN full ELSE f.size - start)
    BY <2>1 DEF DoFragmentation
  <2> DEFINE length == IF f.size > start + full THEN full ELSE f.size - start
  <2>3. f \in Fragment /\ f.from + f.size <= Size[f.dg] /\ (f.dg \in D \/ InPlace(f))
    BY DEF Sound
  <2>4. f.dg \in Datagram /\ f.from \in Nat /\ f.size \in Nat \ {0} /\ f.offset \in Nat /\ f.more \in BOOLEAN
    BY <2>3 DEF Fragment
  <2>5. full \in Nat \ {0} /\ Size[f.dg] \in Nat
    BY <2>4, FullIsPositive, SizeType
  <2>6. length \in Nat \ {0} /\ start + length <= f.size
    BY <2>4, <2>5
  <2> HIDE DEF length, full
  <2>7. /\ g.dg = f.dg /\ g.from = f.from + start /\ g.size = length
        /\ g.offset = (IF f.more THEN f.offset ELSE 0) + start
        /\ g.more = (start + length < f.size \/ f.more)
    BY <2>2 DEF Piece, length
  <2>8. g \in Fragment
    BY <2>2, <2>4, <2>6 DEF Piece, Fragment, length
  <2>9. g.from + g.size <= Size[g.dg]
    BY <2>3, <2>4, <2>5, <2>6, <2>7
  <2>10. g.dg \in E \/ InPlace(g)
    <3>1. CASE f.dg \in D
      BY <3>1, <2>7
    <3>2. CASE g.offset # g.from
      BY <3>2 DEF Displaced
    <3>3. CASE InPlace(f) /\ g.offset = g.from
      <4>1. g.more <=> g.from + g.size < Size[g.dg]
        <5>1. f.more <=> f.from + f.size < Size[f.dg]
          BY <3>3 DEF InPlace
        <5>2. CASE start + length < f.size
          <6>1. g.from + g.size < Size[g.dg]
            BY <5>2, <2>3, <2>4, <2>5, <2>6, <2>7
          <6>2. QED
            BY <5>2, <6>1, <2>7
        <5>3. CASE ~ (start + length < f.size)
          <6>1. g.from + g.size = f.from + f.size /\ g.dg = f.dg
            BY <5>3, <2>4, <2>6, <2>7
          <6>2. g.more = f.more
            BY <5>3, <2>4, <2>7
          <6>3. QED
            BY <5>1, <6>1, <6>2
        <5>4. QED
          BY <5>2, <5>3
      <4>2. QED
        BY <3>3, <4>1 DEF InPlace
    <3>4. QED
      BY <3>1, <3>2, <3>3, <2>3
  <2>11. QED
    BY <2>8, <2>9, <2>10 DEF Sound
<1>3. QED
  BY <1>1, <1>2

-----------------------------------------------------------------------------
(* The invariant.                                                          *)

LEMMA SoundInitial == Init => SoundInv
<1>1. SUFFICES ASSUME Init PROVE SoundInv
  OBVIOUS
<1>2. << >> \in Seq(Sound(displaced))
  BY EmptySeq
<1>3. Len(Size) \in Nat
  BY FragmentationAssumption, LenProperties
<1>4. QED
  BY <1>1, <1>2, <1>3 DEF Init, SoundInv

LEMMA ListsKeep ==
    ASSUME SoundInv, displaced \subseteq displaced'
    PROVE  /\ fragments \in [Id -> Seq(Sound(displaced'))]
           /\ network \subseteq Sound(displaced') \X Links
<1>1. Sound(displaced) \subseteq Sound(displaced')
  BY SoundGrows
<1>2. ASSUME NEW i \in Id PROVE fragments[i] \in Seq(Sound(displaced'))
  BY <1>1, SeqMonotonic DEF SoundInv
<1>3. QED
  BY <1>1, <1>2 DEF SoundInv

LEMMA SoundInductive == ASSUME SoundInv, [Next]_vars PROVE SoundInv'
<1> USE DEF SoundInv
<1>1. CASE UNCHANGED vars
  BY <1>1 DEF vars
<1>2. ASSUME Send PROVE SoundInv'
  <2> DEFINE whole == [dg |-> sent', from |-> 0, size |-> Size[sent'], offset |-> 0, more |-> FALSE]
             pieces == SendRealOut(whole, 1)
  <2>1. Len(Size) \in Nat /\ Size \in Seq(Nat \ {0}) /\ 1 \in Links
    BY FragmentationAssumption, LenProperties, EmptySeq DEF Links
  <2>2. sent' \in 0 .. Len(Size) /\ sent' \in Datagram
    BY <1>2, <2>1 DEF Send, Datagram
  <2>3. Size[sent'] \in Nat \ {0}
    BY <2>2, SizeType
  <2>4. whole \in Sound(displaced)
    BY <2>2, <2>3 DEF Sound, Fragment, InPlace
  <2>5. displaced' = displaced \cup Displaced(pieces) /\ network' = network \cup (pieces \X {1})
        /\ UNCHANGED fragments
    BY <1>2 DEF Send, reassembly
  <2> HIDE DEF pieces
  <2>6. pieces \subseteq Sound(displaced')
    BY <2>1, <2>4, <2>5, PieceSound DEF pieces
  <2>7. QED
    BY <2>1, <2>2, <2>5, <2>6, ListsKeep
<1>3. ASSUME NEW pair \in network, NEW f, f = pair[1], NEW k, k = pair[2], Forward(f, k) PROVE SoundInv'
  <2> DEFINE pieces == SendRealOut(f, k + 1)
  <2>1. f \in Sound(displaced) /\ k + 1 \in Links
    BY <1>3 DEF Forward
  <2>2. displaced' = displaced \cup Displaced(pieces)
        /\ network' = (network \ {<<f, k>>}) \cup (pieces \X {k + 1}) /\ UNCHANGED <<sent, fragments>>
    BY <1>3 DEF Forward, reassembly
  <2> HIDE DEF pieces
  <2>3. pieces \subseteq Sound(displaced')
    BY <2>1, <2>2, PieceSound DEF pieces
  <2>4. QED
    BY <2>1, <2>2, <2>3, ListsKeep
<1>4. ASSUME NEW f, NEW k, Lose(f, k) PROVE SoundInv'
  BY <1>4 DEF Lose, reassembly
<1>5. ASSUME NEW f, DeliverWhole(f) PROVE SoundInv'
  BY <1>5 DEF DeliverWhole, Arrives, reassembly
<1>6. ASSUME NEW pair \in network, NEW f, f = pair[1], ProcessFragment(f) PROVE SoundInv'
  <2> DEFINE i == Identification(f.dg)
             q == AddFragment(fragments[i], f)
  <2>1. f \in Sound(displaced) /\ Sound(displaced) \subseteq Fragment
    BY <1>6 DEF Sound
  <2>2. i \in Id
    BY <2>1, IdType DEF Fragment
  <2>3. q \in Seq(Sound(displaced))
    BY <2>1, <2>2, AddType
  <2>4. UNCHANGED <<sent, displaced>> /\ network' \subseteq network
    BY <1>6 DEF ProcessFragment, Arrives
  <2>5. fragments' = [fragments EXCEPT ![i] = << >>] \/ fragments' = [fragments EXCEPT ![i] = q]
    BY <1>6 DEF ProcessFragment
  <2> HIDE DEF i, q
  <2>6. << >> \in Seq(Sound(displaced))
    BY EmptySeq
  <2>7. QED
    BY <2>2, <2>3, <2>4, <2>5, <2>6
<1>7. ASSUME NEW i \in Id, HandleFragmentsTimeout(i) PROVE SoundInv'
  <2>1. << >> \in Seq(Sound(displaced))
    BY EmptySeq
  <2>2. QED
    BY <1>7, <2>1 DEF HandleFragmentsTimeout
<1>8. QED
  BY <1>1, <1>2, <1>3, <1>4, <1>5, <1>6, <1>7 DEF Next

(* However often a datagram is fragmented, on whatever links, every        *)
(* fragment under way or collected says in its header which bytes it       *)
(* carries and whether others follow, or its datagram is one whose last    *)
(* fragment DoFragmentation has cut again and marked as displaced.         *)
THEOREM InPlaceCorrect == Spec => []FragmentsInPlace
<1>1. SoundInv => FragmentsInPlace
  <2>1. SUFFICES ASSUME SoundInv PROVE FragmentsInPlace
    OBVIOUS
  <2>2. ASSUME NEW pair \in network PROVE pair[1].dg \in displaced \/ InPlace(pair[1])
    BY <2>1 DEF SoundInv, Sound
  <2>3. ASSUME NEW i \in Id, NEW j \in DOMAIN fragments[i]
        PROVE  fragments[i][j].dg \in displaced \/ InPlace(fragments[i][j])
    <3>1. fragments[i][j] \in Sound(displaced)
      BY <2>1, <2>3, ElementOfSeq, LenProperties DEF SoundInv
    <3>2. QED
      BY <3>1 DEF Sound
  <2>4. QED
    BY <2>2, <2>3 DEF FragmentsInPlace
<1>2. QED
  BY <1>1, SoundInitial, SoundInductive, PTL DEF Spec

-----------------------------------------------------------------------------
(* Timers.                                                                 *)

LEMMA TimersInductive ==
    ASSUME SoundInv, TimerPerReassembly, [Next]_vars
    PROVE  TimerPerReassembly'
<1> USE DEF TimerPerReassembly
<1>1. CASE UNCHANGED vars
  BY <1>1 DEF vars
<1>2. CASE Send
  BY <1>2 DEF Send, reassembly
<1>3. ASSUME NEW f, NEW k, Forward(f, k) \/ Lose(f, k) PROVE TimerPerReassembly'
  BY <1>3 DEF Forward, Lose, reassembly
<1>4. ASSUME NEW f, DeliverWhole(f) PROVE TimerPerReassembly'
  BY <1>4 DEF DeliverWhole, reassembly
<1>5. ASSUME NEW pair \in network, NEW f, f = pair[1], ProcessFragment(f) PROVE TimerPerReassembly'
  <2> DEFINE i == Identification(f.dg)
             q == AddFragment(fragments[i], f)
  <2>1. f \in Sound(displaced) /\ Sound(displaced) \subseteq Fragment
    BY <1>5 DEF Sound, SoundInv
  <2>2. i \in Id
    BY <2>1, IdType DEF Fragment
  <2>3. q # << >>
    BY <2>1, <2>2, AddType DEF SoundInv
  <2>4. \/ fragments' = [fragments EXCEPT ![i] = << >>] /\ timers' = timers \ {i}
        \/ fragments' = [fragments EXCEPT ![i] = q] /\ timers' = timers \cup {i}
    BY <1>5 DEF ProcessFragment, StartTimer
  <2> HIDE DEF i, q
  <2>5. QED
    BY <2>2, <2>3, <2>4 DEF SoundInv
<1>6. ASSUME NEW i \in Id, HandleFragmentsTimeout(i) PROVE TimerPerReassembly'
  BY <1>6 DEF HandleFragmentsTimeout, SoundInv
<1>7. QED
  BY <1>1, <1>2, <1>3, <1>4, <1>5, <1>6 DEF Next

(* HandleFragmentsTimeout always finds the reassembly of its key, and no   *)
(* reassembly is without a timer, for any number of identifications.       *)
THEOREM TimersCorrect == Spec => []TimerPerReassembly
<1>1. Init => TimerPerReassembly
  BY DEF Init, TimerPerReassembly
<1>2. SoundInv /\ TimerPerReassembly /\ [Next]_vars => TimerPerReassembly'
  BY TimersInductive
<1>3. QED
  BY <1>1, <1>2, SoundInitial, SoundInductive, PTL DEF Spec

-----------------------------------------------------------------------------
(* Lists of fragments.                                                     *)

LEMMA ListType ==
    ASSUME NEW q \in Seq(Fragment)
    PROVE  /\ Len(q) \in Nat /\ DOMAIN q = 1 .. Len(q)
           /\ \A j \in 1 .. Len(q) :
                /\ q[j] \in Fragment
                /\ q[j].dg \in Datagram /\ q[j].from \in Nat /\ q[j].offset \in Nat
                /\ q[j].size \in Nat \ {0} /\ q[j].more \in BOOLEAN
                /\ End(q[j]) \in Nat \ {0}
<1>1. Len(q) \in Nat /\ DOMAIN q = 1 .. Len(q)
  BY LenProperties
<1>2. ASSUME NEW j \in 1 .. Len(q) PROVE q[j] \in Fragment
  BY ElementOfSeq
<1>3. QED
  BY <1>1, <1>2 DEF Fragment, End

-----------------------------------------------------------------------------
(* What GetPacket and GetPartialPacket compute.                            *)

LEMMA Shift ==
    ASSUME NEW a \in Nat, NEW n \in Nat, NEW i \in 1 .. n - (a + 1) + 1
    PROVE  a + 1 + i - 1 \in 1 .. n /\ i \in Int
  OBVIOUS

(* The bytes of a fragment from the n-th of the datagram on.               *)
LEMMA AfterIs ==
    ASSUME NEW f \in Fragment, NEW n \in Nat, NEW a \in Nat, a = IF n > f.offset THEN n - f.offset ELSE 0
    PROVE  /\ After(f, n) \in Seq(Byte)
           /\ Len(After(f, n)) = IF a < f.size THEN f.size - a ELSE 0
           /\ \A i \in 1 .. Len(After(f, n)) : After(f, n)[i] = <<f.dg, f.from + a + i - 1>>
<1>1. f.dg \in Datagram /\ f.from \in Nat /\ f.size \in Nat \ {0} /\ f.offset \in Nat /\ a \in Nat
  BY DEF Fragment
<1>2. \A b \in 1 .. f.size : Bytes(f)[b] = <<f.dg, f.from + b - 1>>
  BY DEF Bytes
<1>3. ASSUME NEW b \in a + 1 .. f.size PROVE Bytes(f)[b] \in Byte
  <2>1. b \in 1 .. f.size /\ f.from + b - 1 \in Nat
    BY <1>1
  <2>2. Bytes(f)[b] = <<f.dg, f.from + b - 1>>
    BY <1>2, <2>1
  <2>3. <<f.dg, f.from + b - 1>> \in Datagram \X Nat
    BY <1>1, <2>1
  <2>4. QED
    BY <2>2, <2>3 DEF Byte
<1>4. After(f, n) = SubSeq(Bytes(f), a + 1, f.size)
  BY DEF After
<1>5. /\ After(f, n) \in Seq(Byte)
      /\ Len(After(f, n)) = IF a + 1 <= f.size THEN f.size - (a + 1) + 1 ELSE 0
      /\ \A i \in 1 .. f.size - (a + 1) + 1 : After(f, n)[i] = Bytes(f)[a + 1 + i - 1]
  <2>1. a + 1 \in Int /\ f.size \in Int
    BY <1>1
  <2>2. \A b \in a + 1 .. f.size : Bytes(f)[b] \in Byte
    BY <1>3
  <2> HIDE DEF Byte
  <2>3. QED
    BY <1>4, <2>1, <2>2, SubSeqProperties
<1>6. ASSUME NEW i \in 1 .. Len(After(f, n)) PROVE After(f, n)[i] = <<f.dg, f.from + a + i - 1>>
  <2>1. i \in 1 .. f.size - (a + 1) + 1 /\ a + 1 + i - 1 \in 1 .. f.size
    <3>1. Len(After(f, n)) = IF a + 1 <= f.size THEN f.size - (a + 1) + 1 ELSE 0
      BY <1>5
    <3>2. CASE a + 1 <= f.size
      <4>1. Len(After(f, n)) = f.size - (a + 1) + 1
        BY <3>1, <3>2
      <4>2. i \in 1 .. f.size - (a + 1) + 1
        BY <4>1
      <4>3. a + 1 + i - 1 \in 1 .. f.size
        BY <1>1, <4>2, Shift
      <4>4. QED
        BY <4>2, <4>3
    <3>3. CASE ~ (a + 1 <= f.size)
      BY <3>1, <3>3
    <3>4. QED
      BY <3>2, <3>3
  <2>2. After(f, n)[i] = <<f.dg, f.from + (a + 1 + i - 1) - 1>>
    BY <1>2, <1>5, <2>1
  <2>3. f.from + (a + 1 + i - 1) - 1 = f.from + a + i - 1
    <3>1. f.from \in Int /\ a \in Int /\ i \in Int
      BY <1>1, <2>1, Shift
    <3>2. \A x, y, z \in Int : x + (y + 1 + z - 1) - 1 = x + y + z - 1
      OBVIOUS
    <3>3. QED
      BY <3>1, <3>2
  <2>4. QED
    BY <2>2, <2>3
<1>7. Len(After(f, n)) = IF a < f.size THEN f.size - a ELSE 0
  <2>1. Len(After(f, n)) = IF a + 1 <= f.size THEN f.size - (a + 1) + 1 ELSE 0
    BY <1>5
  <2>2. a \in Int /\ f.size \in Int
    BY <1>1
  <2>3. \A x, y \in Int : (x + 1 <= y <=> x < y) /\ y - (x + 1) + 1 = y - x
    OBVIOUS
  <2>4. QED
    BY <2>1, <2>2, <2>3
<1>8. QED
  BY <1>5, <1>6, <1>7

LEMMA AfterType ==
    ASSUME NEW f \in Fragment, NEW n \in Nat
    PROVE  After(f, n) \in Seq(Byte)
<1> DEFINE a == IF n > f.offset THEN n - f.offset ELSE 0
<1>1. a \in Nat
  BY DEF Fragment
<1> HIDE DEF a
<1>2. QED
  BY <1>1, AfterIs DEF a

(* The steps of the two folds.                                             *)
PacketStep(p, f) == p \o After(f, Len(p))

PartialStep(n, f) == IF f.offset > n THEN n ELSE End(f)

(* GetPacket appends the fragments one after the other.                    *)
LEMMA PacketTrace ==
    ASSUME NEW q \in Seq(Fragment)
    PROVE  \E t \in [0 .. Len(q) -> Seq(Byte)] :
               /\ t[0] = << >>
               /\ t[Len(q)] = GetPacket(q)
               /\ \A k \in 1 .. Len(q) : t[k] = PacketStep(t[k - 1], q[k])
<1> DEFINE N == Len(q)
           Value(iter, s) == IF s = {} THEN << >> ELSE PacketStep(iter[s \ {Max(s)}], q[Max(s)])
           P(iter) == iter = [s \in SUBSET (1 .. N) |-> Value(iter, s)]
           it == CHOOSE iter : P(iter)
           step == [i \in 1 .. N |-> [p \in Seq(Byte) |-> PacketStep(p, q[i])]]
<1>1. N \in Nat /\ DOMAIN q = 1 .. N /\ << >> \in Seq(Byte)
  BY ListType, EmptySeq
<1>2. GetPacket(q) = it[1 .. N]
  BY <1>1, Zenon DEF GetPacket, PacketStep, FoldLeft, MapThenFoldSet
<1>3. step \in [1 .. N -> [Seq(Byte) -> Seq(Byte)]]
  <2>1. ASSUME NEW i \in 1 .. N, NEW p \in Seq(Byte) PROVE PacketStep(p, q[i]) \in Seq(Byte)
    <3>1. q[i] \in Fragment /\ Len(p) \in Nat
      BY ListType, LenProperties
    <3>2. After(q[i], Len(p)) \in Seq(Byte)
      BY <3>1, AfterType
    <3>3. QED
      BY <3>2, ConcatProperties DEF PacketStep
  <2>2. QED
    BY <2>1
<1>4. PICK iter : IsIter(iter, N, Seq(Byte), << >>, step)
  <2> HIDE DEF N, step
  <2>1. QED
    BY <1>1, <1>3, IterExists
<1>5. P(iter)
  <2>1. ASSUME NEW s \in SUBSET (1 .. N) PROVE iter[s] = Value(iter, s)
    <3>1. CASE s = {}
      BY <3>1, <1>4 DEF IsIter
    <3>2. CASE s # {}
      <4>1. iter[s \ {Max(s)}] \in Seq(Byte) /\ iter[s] = step[Max(s)][iter[s \ {Max(s)}]]
        <5> HIDE DEF step, N
        <5>1. QED
          BY <3>2, <1>4 DEF IsIter
      <4>2. Max(s) \in 1 .. N
        BY <1>1, <3>2, MaxInSet
      <4>3. QED
        BY <4>1, <4>2, <3>2
    <3>3. QED
      BY <3>1, <3>2
  <2>2. iter = [s \in SUBSET (1 .. N) |-> iter[s]]
    BY <1>4 DEF IsIter
  <2>3. QED
    BY <2>1, <2>2
<1>6. P(it)
  BY <1>5, Zenon
<1>7. Folds(it, N, Seq(Byte), << >>, step)
  <2>1. ASSUME NEW s \in SUBSET (1 .. N) PROVE it[s] = Value(it, s)
    <3> HIDE DEF it
    <3>1. QED
      BY <1>6
  <2> HIDE DEF it
  <2>2. ASSUME NEW s \in SUBSET (1 .. N), s # {}, it[s \ {Max(s)}] \in Seq(Byte)
        PROVE  it[s] = step[Max(s)][it[s \ {Max(s)}]]
    <3>1. Max(s) \in 1 .. N
      BY <1>1, <2>2, MaxInSet
    <3>2. QED
      BY <2>1, <2>2, <3>1
  <2>3. it[{}] = << >>
    BY <2>1
  <2> HIDE DEF step, N
  <2>4. QED
    BY <2>2, <2>3 DEF Folds
<1>8. \E t : IsTrace(t, N, Seq(Byte), << >>, step) /\ t[N] = it[1 .. N]
  <2> DEFINE base == << >>
             S == Seq(Byte)
  <2>1. N \in Nat /\ base \in S
    BY <1>1
  <2>2. step \in [1 .. N -> [S -> S]]
    BY <1>3
  <2>3. Folds(it, N, S, base, step)
    BY <1>7
  <2> HIDE DEF N, it, step, base, S
  <2>4. \E t : IsTrace(t, N, S, base, step) /\ t[N] = it[1 .. N]
    BY <2>1, <2>2, <2>3, FoldTrace
  <2>5. QED
    BY <2>4 DEF base, S
<1> HIDE DEF it
<1>9. PICK t : IsTrace(t, N, Seq(Byte), << >>, step) /\ t[N] = it[1 .. N]
  BY <1>8, Zenon
<1>10. t \in [0 .. N -> Seq(Byte)] /\ t[0] = << >>
  <2> HIDE DEF step
  <2>1. QED
    BY <1>9 DEF IsTrace
<1>11. ASSUME NEW k \in 1 .. N PROVE t[k] = PacketStep(t[k - 1], q[k])
  <2>1. k - 1 \in 0 .. N
    BY <1>1
  <2>2. t[k - 1] \in Seq(Byte) /\ t[k] = step[k][t[k - 1]]
    <3> HIDE DEF step
    <3>1. QED
      BY <1>9, <1>10, <2>1 DEF IsTrace
  <2>3. QED
    BY <2>2
<1>12. QED
  <2> HIDE DEF it
  <2>1. QED
    BY <1>2, <1>9, <1>10, <1>11

(* So does GetPartialPacket compute the size.                               *)
LEMMA PartialTrace ==
    ASSUME NEW q \in Seq(Fragment)
    PROVE  \E t \in [0 .. Len(q) -> Nat] :
               /\ t[0] = 0
               /\ t[Len(q)] = PartialLength(q)
               /\ \A k \in 1 .. Len(q) : t[k] = PartialStep(t[k - 1], q[k])
<1> DEFINE N == Len(q)
           Value(iter, s) == IF s = {} THEN 0 ELSE PartialStep(iter[s \ {Max(s)}], q[Max(s)])
           P(iter) == iter = [s \in SUBSET (1 .. N) |-> Value(iter, s)]
           it == CHOOSE iter : P(iter)
           step == [i \in 1 .. N |-> [p \in Nat |-> PartialStep(p, q[i])]]
<1>1. N \in Nat /\ DOMAIN q = 1 .. N /\ 0 \in Nat
  BY ListType
<1>2. PartialLength(q) = it[1 .. N]
  BY <1>1, Zenon DEF PartialLength, PartialStep, FoldLeft, MapThenFoldSet
<1>3. step \in [1 .. N -> [Nat -> Nat]]
  <2>1. ASSUME NEW i \in 1 .. N, NEW p \in Nat PROVE PartialStep(p, q[i]) \in Nat
    BY ListType DEF PartialStep
  <2>2. QED
    BY <2>1
<1>4. PICK iter : IsIter(iter, N, Nat, 0, step)
  <2> HIDE DEF N, step
  <2>1. QED
    BY <1>1, <1>3, IterExists
<1>5. P(iter)
  <2>1. ASSUME NEW s \in SUBSET (1 .. N) PROVE iter[s] = Value(iter, s)
    <3>1. CASE s = {}
      BY <3>1, <1>4 DEF IsIter
    <3>2. CASE s # {}
      <4>1. iter[s \ {Max(s)}] \in Nat /\ iter[s] = step[Max(s)][iter[s \ {Max(s)}]]
        <5> HIDE DEF step, N
        <5>1. QED
          BY <3>2, <1>4 DEF IsIter
      <4>2. Max(s) \in 1 .. N
        BY <1>1, <3>2, MaxInSet
      <4>3. QED
        BY <4>1, <4>2, <3>2
    <3>3. QED
      BY <3>1, <3>2
  <2>2. iter = [s \in SUBSET (1 .. N) |-> iter[s]]
    BY <1>4 DEF IsIter
  <2>3. QED
    BY <2>1, <2>2
<1>6. P(it)
  BY <1>5, Zenon
<1>7. Folds(it, N, Nat, 0, step)
  <2>1. ASSUME NEW s \in SUBSET (1 .. N) PROVE it[s] = Value(it, s)
    <3> HIDE DEF it
    <3>1. QED
      BY <1>6
  <2> HIDE DEF it
  <2>2. ASSUME NEW s \in SUBSET (1 .. N), s # {}, it[s \ {Max(s)}] \in Nat
        PROVE  it[s] = step[Max(s)][it[s \ {Max(s)}]]
    <3>1. Max(s) \in 1 .. N
      BY <1>1, <2>2, MaxInSet
    <3>2. QED
      BY <2>1, <2>2, <3>1
  <2>3. it[{}] = 0
    BY <2>1
  <2> HIDE DEF step, N
  <2>4. QED
    BY <2>2, <2>3 DEF Folds
<1>8. \E t : IsTrace(t, N, Nat, 0, step) /\ t[N] = it[1 .. N]
  <2> DEFINE base == 0
             S == Nat
  <2>1. N \in Nat /\ base \in S
    BY <1>1
  <2>2. step \in [1 .. N -> [S -> S]]
    BY <1>3
  <2>3. Folds(it, N, S, base, step)
    BY <1>7
  <2> HIDE DEF N, it, step, base, S
  <2>4. \E t : IsTrace(t, N, S, base, step) /\ t[N] = it[1 .. N]
    BY <2>1, <2>2, <2>3, FoldTrace
  <2>5. QED
    BY <2>4 DEF base, S
<1> HIDE DEF it
<1>9. PICK t : IsTrace(t, N, Nat, 0, step) /\ t[N] = it[1 .. N]
  BY <1>8, Zenon
<1>10. t \in [0 .. N -> Nat] /\ t[0] = 0
  <2> HIDE DEF step
  <2>1. QED
    BY <1>9 DEF IsTrace
<1>11. ASSUME NEW k \in 1 .. N PROVE t[k] = PartialStep(t[k - 1], q[k])
  <2>1. k - 1 \in 0 .. N
    BY <1>1
  <2>2. t[k - 1] \in Nat /\ t[k] = step[k][t[k - 1]]
    <3> HIDE DEF step
    <3>1. QED
      BY <1>9, <1>10, <2>1 DEF IsTrace
  <2>3. QED
    BY <2>2
<1>12. QED
  <2> HIDE DEF it
  <2>1. QED
    BY <1>2, <1>9, <1>10, <1>11

(* Every fragment begins, at the latest, where one before it ends: there   *)
(* is no hole.                                                             *)
NoHole(q) == \A j \in DOMAIN q : q[j].offset = 0 \/ \E i \in 1 .. j - 1 : End(q[i]) >= q[j].offset

(* A packet put together without a hole has every byte where it belongs    *)
(* and ends with the fragment that reaches furthest.                       *)
LEMMA PacketInPlace ==
    ASSUME NEW q \in Seq(Fragment), NoHole(q), \A j \in DOMAIN q : q[j].offset = q[j].from
    PROVE  /\ GetPacket(q) \in Seq(Byte)
           /\ \A b \in 1 .. Len(GetPacket(q)) :
                \E j \in 1 .. Len(q) : GetPacket(q)[b] = <<q[j].dg, b - 1>>
           /\ \A j \in 1 .. Len(q) : End(q[j]) <= Len(GetPacket(q))
           /\ q # << >> => \E j \in 1 .. Len(q) : Len(GetPacket(q)) = End(q[j])
<1> DEFINE N == Len(q)
<1>1. N \in Nat /\ DOMAIN q = 1 .. N
  BY ListType
<1>2. PICK t \in [0 .. N -> Seq(Byte)] :
          /\ t[0] = << >>
          /\ t[N] = GetPacket(q)
          /\ \A k \in 1 .. N : t[k] = PacketStep(t[k - 1], q[k])
  BY PacketTrace
<1> DEFINE Good(k) ==
             /\ \A b \in 1 .. Len(t[k]) : \E j \in 1 .. k : t[k][b] = <<q[j].dg, b - 1>>
             /\ \A j \in 1 .. k : End(q[j]) <= Len(t[k])
             /\ k # 0 => \E j \in 1 .. k : Len(t[k]) = End(q[j])
           T == {k \in Nat : k <= N => Good(k)}
<1>3. 0 \in T
  <2>1. Len(t[0]) = 0
    BY <1>2, EmptySeq
  <2>2. Good(0)
    BY <2>1
  <2> HIDE DEF Good
  <2>3. QED
    BY <2>2
<1>4. ASSUME NEW k \in T PROVE k + 1 \in T
  <2> HIDE DEF Good
  <2> SUFFICES ASSUME k + 1 <= N PROVE Good(k + 1)
    OBVIOUS
  <2> USE DEF Good
  <2> DEFINE f == q[k + 1]
             n == Len(t[k])
             a == n - f.offset
             rest == After(f, n)
  <2>1. k \in Nat /\ k \in 0 .. N /\ k + 1 \in 1 .. N /\ (k + 1) - 1 = k
    BY <1>1
  <2>2. Good(k)
    BY <1>1, <2>1
  <2>3. t[k] \in Seq(Byte) /\ n \in Nat
    <3> HIDE DEF Good
    <3>1. QED
      BY <1>2, <2>1, LenProperties
  <2>4. f \in Fragment /\ f.offset \in Nat /\ f.size \in Nat \ {0} /\ f.from = f.offset /\ f.dg \in Datagram
    BY <1>1, <2>1, ListType
  <2>5. n >= f.offset
    <3>1. CASE f.offset = 0
      BY <3>1, <2>3
    <3>2. ASSUME NEW i \in 1 .. (k + 1) - 1, End(q[i]) >= f.offset PROVE n >= f.offset
      <4>1. i \in 1 .. k /\ i \in 1 .. N
        BY <3>2, <2>1, <1>1
      <4>2. End(q[i]) <= n /\ End(q[i]) \in Nat
        BY <4>1, <2>2, ListType
      <4>3. QED
        BY <4>2, <3>2, <2>3, <2>4
    <3>3. QED
      BY <1>1, <2>1, <3>1, <3>2 DEF NoHole
  <2>6. a \in Nat /\ a = IF n > f.offset THEN n - f.offset ELSE 0
    BY <2>3, <2>4, <2>5
  <2>7. /\ rest \in Seq(Byte)
        /\ Len(rest) = IF a < f.size THEN f.size - a ELSE 0
        /\ \A i \in 1 .. Len(rest) : rest[i] = <<f.dg, f.from + a + i - 1>>
    <3> HIDE DEF f, n, a
    <3>1. QED
      BY <2>3, <2>4, <2>6, AfterIs
  <2>8. t[k + 1] = t[k] \o rest
    BY <1>2, <2>1 DEF PacketStep
  <2> HIDE DEF f, a, rest
  <2>9. /\ Len(t[k + 1]) = n + Len(rest)
        /\ \A b \in 1 .. n : t[k + 1][b] = t[k][b]
        /\ \A b \in n + 1 .. n + Len(rest) : t[k + 1][b] = rest[b - n]
    BY <2>3, <2>7, <2>8, ConcatProperties
  <2>10. Len(rest) \in Nat
    BY <2>7, LenProperties
  <2>11. ASSUME NEW b \in 1 .. Len(t[k + 1]) PROVE \E j \in 1 .. k + 1 : t[k + 1][b] = <<q[j].dg, b - 1>>
    <3>1. CASE b <= n
      <4>1. b \in 1 .. n
        BY <3>1, <2>3, <2>9, <2>10
      <4>2. PICK j \in 1 .. k : t[k][b] = <<q[j].dg, b - 1>>
        BY <4>1, <2>2
      <4>3. j \in 1 .. k + 1 /\ t[k + 1][b] = t[k][b]
        BY <4>1, <2>1, <2>9
      <4>4. QED
        BY <4>2, <4>3
    <3>2. CASE b > n
      <4>1. b \in n + 1 .. n + Len(rest) /\ b - n \in 1 .. Len(rest)
        BY <3>2, <2>3, <2>9, <2>10
      <4>2. t[k + 1][b] = <<f.dg, f.from + a + (b - n) - 1>>
        BY <4>1, <2>7, <2>9
      <4>3. f.from + a + (b - n) - 1 = b - 1
        BY <4>1, <2>3, <2>4 DEF a
      <4>4. t[k + 1][b] = <<q[k + 1].dg, b - 1>> /\ k + 1 \in 1 .. k + 1
        BY <4>2, <4>3, <2>1 DEF f
      <4>5. QED
        BY <4>4
    <3>3. QED
      BY <3>1, <3>2, <2>3, <2>9, <2>10
  <2>12. End(f) = f.offset + f.size /\ End(f) \in Nat
    BY <2>4 DEF End
  <2>13. Len(t[k + 1]) = IF n < End(f) THEN End(f) ELSE n
    <3>1. CASE a < f.size
      BY <3>1, <2>3, <2>4, <2>7, <2>9, <2>12 DEF a
    <3>2. CASE ~ (a < f.size)
      BY <3>2, <2>3, <2>4, <2>7, <2>9, <2>12 DEF a
    <3>3. QED
      BY <3>1, <3>2
  <2>14. ASSUME NEW j \in 1 .. k + 1 PROVE End(q[j]) <= Len(t[k + 1])
    <3>1. CASE j = k + 1
      BY <3>1, <2>3, <2>12, <2>13 DEF f
    <3>2. CASE j # k + 1
      <4>1. j \in 1 .. k /\ j \in 1 .. N
        BY <3>2, <2>1, <1>1
      <4>2. End(q[j]) <= n /\ End(q[j]) \in Nat
        BY <4>1, <2>2, ListType
      <4>3. QED
        BY <4>2, <2>3, <2>12, <2>13
    <3>3. QED
      BY <3>1, <3>2
  <2>15. \E j \in 1 .. k + 1 : Len(t[k + 1]) = End(q[j])
    <3>1. CASE n < End(f)
      <4>1. k + 1 \in 1 .. k + 1 /\ Len(t[k + 1]) = End(q[k + 1])
        BY <3>1, <2>1, <2>13 DEF f
      <4>2. QED
        BY <4>1
    <3>2. CASE ~ (n < End(f))
      <4>1. k # 0
        BY <3>2, <2>4, <2>12, <1>2, EmptySeq
      <4>2. PICK j \in 1 .. k : n = End(q[j])
        BY <4>1, <2>2
      <4>3. j \in 1 .. k + 1 /\ Len(t[k + 1]) = End(q[j])
        BY <3>2, <4>2, <2>1, <2>13
      <4>4. QED
        BY <4>3
    <3>3. QED
      BY <3>1, <3>2
  <2>16. QED
    BY <2>11, <2>14, <2>15
<1>5. Good(N)
  <2> HIDE DEF Good
  <2>1. T \in SUBSET Nat
    OBVIOUS
  <2> HIDE DEF T
  <2>2. T = Nat
    BY <1>3, <1>4, <2>1, SetInduction
  <2>3. QED
    BY <2>2, <1>1 DEF T
<1>6. t[N] \in Seq(Byte) /\ (q # << >> => N # 0)
  <2> HIDE DEF Good
  <2>1. QED
    BY <1>1, <1>2, EmptySeq
<1>7. QED
  BY <1>2, <1>5, <1>6

(* A list with its fragments in the order of their offsets.                *)
Sorted(q) == \A a, b \in DOMAIN q : a < b => q[a].offset <= q[b].offset

(* In such a list those that begin no later than f come first.             *)
LEMMA PlaceIs ==
    ASSUME NEW q \in Seq(Fragment), Sorted(q), NEW f \in Fragment
    PROVE  /\ Place(q, f) \in 0 .. Len(q)
           /\ \A j \in 1 .. Len(q) : j <= Place(q, f) <=> q[j].offset <= f.offset
<1> DEFINE N == Len(q)
           J == {j \in DOMAIN q : q[j].offset <= f.offset}
<1>1. N \in Nat /\ DOMAIN q = 1 .. N
  BY ListType
<1>2. J \in SUBSET (1 .. N) /\ Place(q, f) = Cardinality(J)
  BY <1>1 DEF Place
<1>3. CASE J = {}
  <2>1. Cardinality(J) = 0
    BY <1>3, FS_EmptySet
  <2>2. \A j \in 1 .. N : ~ (q[j].offset <= f.offset)
    BY <1>1, <1>3
  <2> HIDE DEF J
  <2>3. Place(q, f) = 0
    BY <1>2, <2>1
  <2>4. \A j \in 1 .. N : ~ (j <= 0)
    BY <1>1
  <2>5. QED
    BY <1>1, <2>2, <2>3, <2>4
<1>4. CASE J # {}
  <2> DEFINE m == Max(J)
  <2>1. m \in J /\ m \in 1 .. N
    <3> HIDE DEF J
    <3>1. QED
      BY <1>1, <1>2, <1>4, MaxInSet
  <2>2. \A j \in J : j <= m
    <3> HIDE DEF J
    <3>1. QED
      BY <1>1, <1>2, <1>4, MaxIsGreatest
  <2> HIDE DEF m
  <2>3. ASSUME NEW j \in 1 .. N, j <= m PROVE q[j].offset <= f.offset
    <3>1. q[j].offset \in Nat /\ q[m].offset \in Nat /\ f.offset \in Nat
      BY <2>1, ListType DEF Fragment
    <3>2. q[j].offset <= q[m].offset
      BY <1>1, <2>1, <2>3, <3>1 DEF Sorted
    <3>3. q[m].offset <= f.offset
      BY <2>1
    <3>4. QED
      BY <3>1, <3>2, <3>3
  <2>4. J = 1 .. m
    <3>1. \A j \in J : j \in 1 .. m
      BY <1>1, <2>1, <2>2
    <3>2. \A j \in 1 .. m : j \in J
      BY <1>1, <2>1, <2>3
    <3> HIDE DEF J
    <3>3. QED
      BY <3>1, <3>2
  <2>5. Cardinality(1 .. m) = m
    BY <2>1, <1>1, FS_Interval
  <2>6. \A j \in 1 .. N : q[j].offset <= f.offset => j <= m
    BY <1>1, <2>2
  <2> HIDE DEF J
  <2>7. QED
    BY <1>2, <2>1, <2>3, <2>4, <2>5, <2>6
<1>5. QED
  BY <1>3, <1>4

(* r is the list q, in order, and f put in its place.                      *)
Added(q, f, r) ==
    /\ r \in Seq(Fragment) /\ Len(r) = Len(q) + 1 /\ Sorted(r)
    /\ {r[j] : j \in DOMAIN r} = {q[j] : j \in DOMAIN q} \cup {f}
    /\ r[Len(r)] = IF Place(q, f) = Len(q) THEN f ELSE q[Len(q)]

(* AddFragment keeps the order.                                            *)
LEMMA AddIs ==
    ASSUME NEW q \in Seq(Fragment), Sorted(q), NEW f \in Fragment
    PROVE  Added(q, f, AddFragment(q, f))
<1> SUFFICES ASSUME NEW r, r = AddFragment(q, f) PROVE Added(q, f, r)
  OBVIOUS
<1> DEFINE N == Len(q)
           p == Place(q, f)
<1>1. N \in Nat /\ DOMAIN q = 1 .. N
  BY ListType
<1>2. p \in 0 .. N /\ \A j \in 1 .. N : j <= p <=> q[j].offset <= f.offset
  BY PlaceIs
<1> HIDE DEF p
<1>3. r = SubSeq(q, 1, p) \o (<<f>> \o SubSeq(q, p + 1, N))
  <2>1. r = SubSeq(q, 1, (p + 1) - 1) \o <<f>> \o SubSeq(q, p + 1, N)
    BY DEF AddFragment, InsertAt, p
  <2>2. (p + 1) - 1 = p
    BY <1>2
  <2>3. SubSeq(q, 1, p) \in Seq(Fragment) /\ SubSeq(q, p + 1, N) \in Seq(Fragment) /\ <<f>> \in Seq(Fragment)
    BY <1>1, <1>2, SubSeqProperties
  <2> DEFINE s1 == SubSeq(q, 1, p)
             s2 == <<f>>
             s3 == SubSeq(q, p + 1, N)
  <2>4. r = (s1 \o s2) \o s3
    BY <2>1, <2>2
  <2>5. s1 \in Seq(Fragment) /\ s2 \in Seq(Fragment) /\ s3 \in Seq(Fragment)
    BY <2>3
  <2> HIDE DEF s1, s2, s3
  <2>6. r = s1 \o (s2 \o s3)
    BY <2>4, <2>5, ConcatAssociative
  <2>7. QED
    BY <2>6 DEF s1, s2, s3
<1> DEFINE front == SubSeq(q, 1, p)
           back == SubSeq(q, p + 1, N)
           tail == <<f>> \o back
<1>4. front \in Seq(Fragment) /\ Len(front) = p /\ \A j \in 1 .. p : front[j] = q[j]
  <2>1. \A j \in 1 .. p : q[j] \in Fragment
    BY <1>1, <1>2, ListType
  <2>2. QED
    BY <2>1, <1>1, <1>2, SubSeqProperties
<1>5. back \in Seq(Fragment) /\ Len(back) = N - p /\ \A j \in 1 .. N - p : back[j] = q[p + j]
  <2>1. \A j \in p + 1 .. N : q[j] \in Fragment
    BY <1>1, <1>2, ListType
  <2>2. p + 1 \in Int /\ N \in Int /\ p \in Int
    BY <1>1, <1>2
  <2>3. /\ back \in Seq(Fragment)
        /\ Len(back) = IF p + 1 <= N THEN N - (p + 1) + 1 ELSE 0
        /\ \A j \in 1 .. N - (p + 1) + 1 : back[j] = q[(p + 1) + j - 1]
    BY <2>1, <2>2, SubSeqProperties
  <2>4. N - (p + 1) + 1 = N - p /\ \A j \in Int : (p + 1) + j - 1 = p + j
    BY <2>2
  <2> HIDE DEF back, N
  <2>5. Len(back) = N - p
    <3>1. p + 1 <= N \/ p = N
      BY <1>1, <1>2
    <3>2. QED
      BY <2>2, <2>3, <3>1
  <2>6. ASSUME NEW j \in 1 .. N - p PROVE back[j] = q[p + j]
    <3>1. j \in 1 .. N - (p + 1) + 1 /\ (p + 1) + j - 1 = p + j
      BY <2>2
    <3>2. QED
      BY <2>3, <3>1
  <2>7. QED
    BY <2>3, <2>5, <2>6
<1> HIDE DEF front, back
<1>6. tail \in Seq(Fragment) /\ Len(tail) = N - p + 1 /\ tail[1] = f /\ \A j \in 2 .. N - p + 1 : tail[j] = back[j - 1]
  <2>1. <<f>> \in Seq(Fragment) /\ Len(<<f>>) = 1 /\ <<f>>[1] = f
    OBVIOUS
  <2>2. QED
    BY <2>1, <1>1, <1>2, <1>5, ConcatProperties
<1> HIDE DEF tail
<1>7. r = front \o tail
  BY <1>3 DEF front, tail, back
<1>8. /\ r \in Seq(Fragment) /\ Len(r) = N + 1
      /\ \A j \in 1 .. p : r[j] = q[j]
      /\ r[p + 1] = f
      /\ \A j \in p + 2 .. N + 1 : r[j] = q[j - 1]
  <2>1. r \in Seq(Fragment) /\ Len(r) = p + Len(tail)
        /\ (\A j \in 1 .. p : r[j] = front[j])
        /\ (\A j \in p + 1 .. p + Len(tail) : r[j] = tail[j - p])
    <3>1. /\ front \o tail \in Seq(Fragment)
          /\ Len(front \o tail) = Len(front) + Len(tail)
          /\ \A j \in 1 .. Len(front) + Len(tail) :
                 (front \o tail)[j] = IF j <= Len(front) THEN front[j] ELSE tail[j - Len(front)]
      BY <1>4, <1>6, ConcatProperties
    <3>2. Len(front) = p /\ p \in Nat /\ Len(tail) \in Nat
      BY <1>2, <1>4, <1>6, LenProperties
    <3>3. /\ r \in Seq(Fragment)
          /\ Len(r) = p + Len(tail)
          /\ \A j \in 1 .. p + Len(tail) : r[j] = IF j <= p THEN front[j] ELSE tail[j - p]
      BY <3>1, <3>2, <1>7
    <3>4. QED
      BY <3>2, <3>3
  <2>2. r[p + 1] = f
    <3>1. p \in Nat /\ Len(tail) \in Nat /\ 1 <= Len(tail) /\ tail[1] = f
      BY <1>1, <1>2, <1>6
    <3>2. p + 1 \in p + 1 .. p + Len(tail) /\ (p + 1) - p = 1
      BY <3>1
    <3>3. r[p + 1] = tail[(p + 1) - p]
      BY <2>1, <3>2
    <3>4. QED
      BY <3>1, <3>2, <3>3
  <2>3. ASSUME NEW j \in p + 2 .. N + 1 PROVE r[j] = q[j - 1]
    <3>1. j \in p + 1 .. p + Len(tail) /\ j - p \in 2 .. N - p + 1 /\ j - p - 1 \in 1 .. N - p /\ p + (j - p - 1) = j - 1
      BY <1>1, <1>2, <1>6
    <3>2. r[j] = tail[j - p] /\ tail[j - p] = back[j - p - 1] /\ back[j - p - 1] = q[p + (j - p - 1)]
      BY <3>1, <2>1, <1>5, <1>6
    <3>3. QED
      BY <3>1, <3>2
  <2>4. QED
    BY <1>1, <1>2, <1>4, <1>6, <2>1, <2>2, <2>3
<1>9. DOMAIN r = 1 .. N + 1
  BY <1>8, <1>1, LenProperties
<1>10. Sorted(r)
  <2>1. ASSUME NEW a \in 1 .. N + 1, NEW b \in 1 .. N + 1, a < b PROVE r[a].offset <= r[b].offset
    <3>1. f.offset \in Nat /\ \A j \in 1 .. N : q[j].offset \in Nat
      BY ListType DEF Fragment
    <3>2. CASE b <= p
      <4>1. r[a] = q[a] /\ r[b] = q[b] /\ a \in 1 .. N /\ b \in 1 .. N
        BY <1>1, <1>2, <1>8, <2>1, <3>2
      <4>2. QED
        BY <4>1, <2>1, <1>1 DEF Sorted
    <3>3. CASE b = p + 1
      <4>1. r[a] = q[a] /\ r[b] = f /\ a \in 1 .. N /\ a <= p
        BY <1>1, <1>2, <1>8, <2>1, <3>3
      <4>2. QED
        BY <4>1, <1>2
    <3>4. CASE b > p + 1 /\ a <= p
      <4>1. r[a] = q[a] /\ r[b] = q[b - 1] /\ a \in 1 .. N /\ b - 1 \in 1 .. N /\ a < b - 1
        BY <1>1, <1>2, <1>8, <2>1, <3>4
      <4>2. QED
        BY <4>1, <1>1 DEF Sorted
    <3>5. CASE b > p + 1 /\ a = p + 1
      <4>1. r[a] = f /\ r[b] = q[b - 1] /\ b - 1 \in 1 .. N /\ ~ (b - 1 <= p)
        BY <1>1, <1>2, <1>8, <2>1, <3>5
      <4>2. ~ (q[b - 1].offset <= f.offset) /\ q[b - 1].offset \in Nat
        BY <4>1, <1>2, <3>1
      <4>3. QED
        BY <4>1, <4>2, <3>1
    <3>6. CASE b > p + 1 /\ a > p + 1
      <4>1. r[a] = q[a - 1] /\ r[b] = q[b - 1] /\ a - 1 \in 1 .. N /\ b - 1 \in 1 .. N /\ a - 1 < b - 1
        BY <1>1, <1>2, <1>8, <2>1, <3>6
      <4>2. QED
        BY <4>1, <1>1 DEF Sorted
    <3>7. QED
      BY <1>1, <1>2, <3>2, <3>3, <3>4, <3>5, <3>6
  <2>2. QED
    BY <2>1, <1>9 DEF Sorted
<1>11. {r[j] : j \in DOMAIN r} = {q[j] : j \in DOMAIN q} \cup {f}
  <2>1. ASSUME NEW j \in 1 .. N + 1 PROVE r[j] = f \/ \E i \in 1 .. N : r[j] = q[i]
    <3>1. CASE j <= p
      BY <3>1, <1>1, <1>2, <1>8
    <3>2. CASE j = p + 1
      BY <3>2, <1>8
    <3>3. CASE j > p + 1
      <4>1. r[j] = q[j - 1] /\ j - 1 \in 1 .. N
        BY <3>3, <1>1, <1>2, <1>8
      <4>2. QED
        BY <4>1
    <3>4. QED
      BY <3>1, <3>2, <3>3, <1>1, <1>2
  <2>2. ASSUME NEW i \in 1 .. N PROVE \E j \in 1 .. N + 1 : q[i] = r[j]
    <3>1. CASE i <= p
      <4>1. r[i] = q[i] /\ i \in 1 .. N + 1
        BY <3>1, <1>1, <1>2, <1>8
      <4>2. QED
        BY <4>1
    <3>2. CASE i > p
      <4>1. i + 1 \in p + 2 .. N + 1 /\ i + 1 \in 1 .. N + 1 /\ (i + 1) - 1 = i
        BY <3>2, <1>1, <1>2
      <4>2. r[i + 1] = q[i]
        BY <4>1, <1>8
      <4>3. QED
        BY <4>1, <4>2
    <3>3. QED
      BY <3>1, <3>2, <1>1, <1>2
  <2>3. p + 1 \in 1 .. N + 1 /\ r[p + 1] = f
    BY <1>1, <1>2, <1>8
  <2>4. {r[j] : j \in 1 .. N + 1} = {q[j] : j \in 1 .. N} \cup {f}
    <3> HIDE DEF N
    <3>1. QED
      BY <2>1, <2>2, <2>3
  <2>5. QED
    BY <2>4, <1>1, <1>9
<1>12. r[Len(r)] = IF p = N THEN f ELSE q[N]
  <2>1. CASE p = N
    BY <2>1, <1>8
  <2>2. CASE p # N
    <3>1. N + 1 \in p + 2 .. N + 1 /\ (N + 1) - 1 = N
      BY <2>2, <1>1, <1>2
    <3>2. QED
      BY <2>2, <3>1, <1>8
  <2>3. QED
    BY <2>1, <2>2
<1>13. QED
  BY <1>8, <1>10, <1>11, <1>12 DEF p, Added

-----------------------------------------------------------------------------
(* Types.                                                                  *)

LEMMA BytesIs ==
    ASSUME NEW f \in Fragment
    PROVE  /\ Bytes(f) \in Seq(Byte) /\ Len(Bytes(f)) = f.size
           /\ \A b \in 1 .. f.size : Bytes(f)[b] = <<f.dg, f.from + b - 1>>
<1>1. f.dg \in Datagram /\ f.from \in Nat /\ f.size \in Nat
  BY DEF Fragment
<1>2. ASSUME NEW b \in 1 .. f.size PROVE <<f.dg, f.from + b - 1>> \in Byte
  <2>1. f.from + b - 1 \in Nat
    BY <1>1
  <2>2. QED
    BY <1>1, <2>1 DEF Byte
<1>3. Bytes(f) \in [1 .. f.size -> Byte]
  BY <1>2, Zenon DEF Bytes
<1>4. Bytes(f) \in Seq(Byte) /\ Len(Bytes(f)) = f.size
  BY <1>1, <1>3, LenProperties
<1>5. QED
  BY <1>4 DEF Bytes

LEMMA PacketType == ASSUME NEW q \in Seq(Fragment) PROVE GetPacket(q) \in Seq(Byte)
<1>1. PICK t \in [0 .. Len(q) -> Seq(Byte)] : t[Len(q)] = GetPacket(q)
  BY PacketTrace
<1>2. Len(q) \in 0 .. Len(q)
  BY ListType
<1>3. QED
  BY <1>1, <1>2

(* A fragment under way or collected.                                      *)
LEMMA CarriedType ==
    ASSUME SoundInv
    PROVE  /\ \A pair \in network : pair[1] \in Sound(displaced) /\ pair[1] \in Fragment /\ pair[2] \in Links
           /\ \A i \in Id : /\ fragments[i] \in Seq(Sound(displaced)) /\ fragments[i] \in Seq(Fragment)
                            /\ \A j \in DOMAIN fragments[i] : fragments[i][j] \in Sound(displaced) /\ fragments[i][j] \in Fragment
<1>1. Sound(displaced) \subseteq Fragment
  BY DEF Sound
<1>2. ASSUME NEW i \in Id PROVE fragments[i] \in Seq(Sound(displaced)) /\ fragments[i] \in Seq(Fragment)
  BY <1>1, SeqMonotonic DEF SoundInv
<1>3. ASSUME NEW i \in Id, NEW j \in DOMAIN fragments[i] PROVE fragments[i][j] \in Sound(displaced)
  BY <1>2, ElementOfSeq, LenProperties
<1>4. QED
  BY <1>1, <1>2, <1>3 DEF SoundInv

LEMMA TypeInductive == ASSUME SoundInv, SoundInv', TypeOK, [Next]_vars PROVE TypeOK'
<1>1. /\ sent' \in 0 .. Len(Size)
      /\ network' \subseteq Fragment \X Links
      /\ fragments' \in [Id -> Seq(Fragment)]
  <2>1. Sound(displaced') \subseteq Fragment
    BY DEF Sound
  <2>2. ASSUME NEW i \in Id PROVE fragments'[i] \in Seq(Fragment)
    BY <2>1, SeqMonotonic DEF SoundInv
  <2>3. QED
    BY <2>1, <2>2 DEF SoundInv
<1> DEFINE Rest ==
             /\ moreFragment \in [Id -> BOOLEAN] /\ timers \subseteq Id
             /\ delivered \subseteq Id \X Seq(Byte)
             /\ lost \subseteq Datagram /\ displaced \subseteq Datagram
             /\ duplicates \in 0 .. MaxDuplicates
<1>2. Rest
  BY DEF TypeOK
<1>3. CASE UNCHANGED vars
  BY <1>1, <1>2, <1>3 DEF vars, TypeOK
<1>4. CASE Send
  <2> DEFINE whole == [dg |-> sent', from |-> 0, size |-> Size[sent'], offset |-> 0, more |-> FALSE]
             pieces == SendRealOut(whole, 1)
  <2>1. displaced' = displaced \cup Displaced(pieces)
        /\ network' = network \cup (pieces \X {1}) /\ UNCHANGED <<reassembly, delivered, lost, duplicates>>
    BY <1>4 DEF Send
  <2> HIDE DEF pieces
  <2>2. ASSUME NEW g \in pieces PROVE g.dg \in Datagram
    <3>1. <<g, 1>> \in network' /\ network' \subseteq Fragment \X Links
      BY <1>1, <2>1
    <3>2. QED
      BY <3>1 DEF Fragment
  <2>3. QED
    BY <1>1, <1>2, <2>1, <2>2 DEF TypeOK, reassembly, Displaced
<1>5. ASSUME NEW pair \in network, NEW f, f = pair[1], NEW k, k = pair[2], Forward(f, k) PROVE TypeOK'
  <2> DEFINE pieces == SendRealOut(f, k + 1)
  <2>1. displaced' = displaced \cup Displaced(pieces)
        /\ network' = (network \ {<<f, k>>}) \cup (pieces \X {k + 1}) /\ UNCHANGED <<reassembly, delivered, lost, duplicates>>
    BY <1>5 DEF Forward
  <2> HIDE DEF pieces
  <2>2. ASSUME NEW g \in pieces PROVE g.dg \in Datagram
    <3>1. <<g, k + 1>> \in network' /\ network' \subseteq Fragment \X Links
      BY <1>1, <2>1
    <3>2. QED
      BY <3>1 DEF Fragment
  <2>3. QED
    BY <1>1, <1>2, <2>1, <2>2 DEF TypeOK, reassembly, Displaced
<1>6. ASSUME NEW pair \in network, NEW f, f = pair[1], NEW k, Lose(f, k) PROVE TypeOK'
  <2>1. f.dg \in Datagram
    BY <1>6, CarriedType DEF Fragment
  <2>2. QED
    BY <1>1, <1>2, <1>6, <2>1 DEF TypeOK, Lose, reassembly
<1>7. ASSUME NEW f, Arrives(f) PROVE duplicates' \in 0 .. MaxDuplicates
  BY <1>2, <1>7, FragmentationAssumption DEF Arrives
<1>8. ASSUME NEW pair \in network, NEW f, f = pair[1], DeliverWhole(f) PROVE TypeOK'
  <2>1. f \in Fragment /\ Identification(f.dg) \in Id
    BY <1>8, CarriedType, IdType DEF Fragment
  <2>2. <<Identification(f.dg), Bytes(f)>> \in Id \X Seq(Byte)
    BY <2>1, BytesIs
  <2>3. QED
    BY <1>1, <1>2, <1>7, <1>8, <2>2 DEF TypeOK, DeliverWhole, reassembly
<1>9. ASSUME NEW pair \in network, NEW f, f = pair[1], ProcessFragment(f) PROVE TypeOK'
  <2> DEFINE i == Identification(f.dg)
             q == AddFragment(fragments[i], f)
             more == MoreAfter(fragments[i], moreFragment[i], f)
  <2>1. f \in Fragment /\ i \in Id
    BY <1>9, CarriedType, IdType DEF Fragment
  <2>2. q \in Seq(Fragment)
    <3>1. fragments[i] \in Seq(Fragment)
      BY <2>1, CarriedType
    <3>2. QED
      BY <3>1, <2>1, AddType
  <2>3. more \in BOOLEAN
    BY <2>1, <1>2 DEF MoreAfter, Fragment
  <2>4. GetPacket(q) \in Seq(Byte)
    <3> HIDE DEF q
    <3>1. QED
      BY <2>2, PacketType
  <2>5. /\ \/ /\ delivered' = delivered \cup {<<i, GetPacket(q)>>}
              /\ moreFragment' = [moreFragment EXCEPT ![i] = FALSE]
              /\ timers' = timers \ {i}
           \/ /\ moreFragment' = [moreFragment EXCEPT ![i] = more]
              /\ timers' = timers \cup {i}
              /\ UNCHANGED delivered
        /\ UNCHANGED <<lost, displaced>> /\ Arrives(f)
    BY <1>9 DEF ProcessFragment, StartTimer
  <2> HIDE DEF i, q, more
  <2>6. moreFragment' \in [Id -> BOOLEAN] /\ timers' \subseteq Id /\ delivered' \subseteq Id \X Seq(Byte)
    <3>1. moreFragment' \in [Id -> BOOLEAN]
      BY <1>2, <2>3, <2>5
    <3>2. timers' \subseteq Id
      BY <1>2, <2>1, <2>5
    <3>3. delivered' \subseteq Id \X Seq(Byte)
      BY <1>2, <2>1, <2>4, <2>5
    <3>4. QED
      BY <3>1, <3>2, <3>3
  <2>7. QED
    BY <1>1, <1>2, <1>7, <2>5, <2>6 DEF TypeOK
<1>10. ASSUME NEW i \in Id, HandleFragmentsTimeout(i) PROVE TypeOK'
  <2>1. ASSUME NEW j \in DOMAIN fragments[i] PROVE fragments[i][j].dg \in Datagram
    BY CarriedType DEF Fragment
  <2>2. QED
    BY <1>1, <1>2, <1>10, <2>1 DEF TypeOK, HandleFragmentsTimeout
<1>11. QED
  BY <1>3, <1>4, <1>5, <1>6, <1>8, <1>9, <1>10 DEF Next

(* The lists stay lists of fragments and everything handed up is a string  *)
(* of bytes, for any datagrams and any chain of links.                     *)
THEOREM TypeCorrect == Spec => []TypeOK
<1>1. Init => TypeOK
  BY EmptySeq, FragmentationAssumption, LenProperties DEF Init, TypeOK
<1>2. QED
  BY <1>1, SoundInitial, SoundInductive, TypeInductive, PTL DEF Spec

-----------------------------------------------------------------------------
(* Reassembly.                                                             *)

(* The fragments collected under an identification.                        *)
Held(i) == {fragments[i][j] : j \in DOMAIN fragments[i]}

(* A list is in order, and m_moreFragment is that of its last fragment.    *)
OrderInv ==
    \A i \in Id :
        /\ Sorted(fragments[i])
        /\ fragments[i] # << >> => moreFragment[i] = fragments[i][Len(fragments[i])].more

(* Fragments are of datagrams sent, and are collected under the            *)
(* identification of their datagram.                                       *)
IdInv ==
    /\ \A pair \in network : pair[1].dg \in 1 .. sent
    /\ \A i \in Id : \A g \in Held(i) : g.dg \in SentAs(i)
    /\ \A pair \in delivered : SentAs(pair[1]) # {}

(* A reassembly that is entire is not kept.                                *)
NotEntire == \A i \in Id : ~ IsEntire(fragments[i], moreFragment[i])

CollectInv == SoundInv /\ OrderInv /\ IdInv /\ NotEntire

(* What ProcessFragment of f does: q is the list of i with f added.        *)
Processed(f, i, q, more) ==
    /\ i \in Id /\ f \in Sound(displaced) /\ <<f, Len(Room)>> \in network
    /\ q \in Seq(Fragment) /\ q # << >> /\ Sorted(q)
    /\ {q[j] : j \in DOMAIN q} = Held(i) \cup {f}
    /\ \A j \in DOMAIN q : q[j] \in Sound(displaced)
    /\ more = q[Len(q)].more
    /\ \/ /\ IsEntire(q, more)
          /\ delivered' = delivered \cup {<<i, GetPacket(q)>>}
          /\ fragments' = [fragments EXCEPT ![i] = << >>]
          /\ moreFragment' = [moreFragment EXCEPT ![i] = FALSE]
       \/ /\ ~ IsEntire(q, more)
          /\ fragments' = [fragments EXCEPT ![i] = q]
          /\ moreFragment' = [moreFragment EXCEPT ![i] = more]
          /\ UNCHANGED delivered
    /\ UNCHANGED <<sent, lost, displaced>>
    /\ network' = network \ {<<f, Len(Room)>>} \/ network' = network

LEMMA ProcessIs ==
    ASSUME SoundInv, OrderInv, NEW pair \in network, NEW f, f = pair[1], ProcessFragment(f)
    PROVE  \E q, more : Processed(f, Identification(f.dg), q, more)
<1> DEFINE i    == Identification(f.dg)
           q    == AddFragment(fragments[i], f)
           more == MoreAfter(fragments[i], moreFragment[i], f)
<1>1. f \in Fragment /\ f \in Sound(displaced) /\ i \in Id
  BY CarriedType, IdType DEF Fragment
<1>2. fragments[i] \in Seq(Fragment) /\ Sorted(fragments[i])
  BY <1>1, CarriedType DEF OrderInv
<1> DEFINE old == fragments[i]
<1>3. Added(old, f, q)
  BY <1>1, <1>2, AddIs
<1>4. q # << >>
  BY <1>3, <1>2, LenProperties, EmptySeq DEF Added
<1>5. {q[j] : j \in DOMAIN q} = Held(i) \cup {f}
  BY <1>3 DEF Held, Added
<1>6. ASSUME NEW j \in DOMAIN q PROVE q[j] \in Sound(displaced)
  <2>1. q[j] \in Held(i) \cup {f}
    BY <1>5
  <2>2. Held(i) \subseteq Sound(displaced)
    BY <1>1, CarriedType DEF Held
  <2>3. QED
    BY <2>1, <2>2, <1>1
<1>7. more = q[Len(q)].more
  <2>1. CASE Place(old, f) = Len(old)
    BY <2>1, <1>3 DEF MoreAfter, Added
  <2>2. CASE Place(old, f) # Len(old)
    <3>1. old # << >>
      <4>1. Place(old, f) \in 0 .. Len(old)
        BY <1>1, <1>2, PlaceInList
      <4>2. QED
        BY <4>1, <2>2, EmptySeq
    <3>2. moreFragment[i] = old[Len(old)].more
      BY <3>1, <1>1 DEF OrderInv
    <3>3. QED
      BY <2>2, <3>2, <1>3 DEF MoreAfter, Added
  <2>3. QED
    BY <2>1, <2>2
<1>8. /\ <<f, Len(Room)>> \in network
      /\ network' = network \ {<<f, Len(Room)>>} \/ network' = network
  BY DEF ProcessFragment, Arrives
<1>9. UNCHANGED <<sent, lost, displaced>>
  BY DEF ProcessFragment
<1>10. \/ /\ IsEntire(q, more)
          /\ delivered' = delivered \cup {<<i, GetPacket(q)>>}
          /\ fragments' = [fragments EXCEPT ![i] = << >>]
          /\ moreFragment' = [moreFragment EXCEPT ![i] = FALSE]
       \/ /\ ~ IsEntire(q, more)
          /\ fragments' = [fragments EXCEPT ![i] = q]
          /\ moreFragment' = [moreFragment EXCEPT ![i] = more]
          /\ UNCHANGED delivered
  BY DEF ProcessFragment, i, q
<1> HIDE DEF i, q, more, old
<1>11. Processed(f, i, q, more)
  BY <1>1, <1>3, <1>4, <1>5, <1>6, <1>7, <1>8, <1>9, <1>10 DEF Processed, Added
<1>12. QED
  BY <1>11 DEF i

(* The lists after it.                                                     *)
LEMMA ProcessLists ==
    ASSUME SoundInv, OrderInv, NEW pair \in network, NEW f, f = pair[1], ProcessFragment(f), moreFragment \in [Id -> BOOLEAN]
    PROVE  /\ Identification(f.dg) \in Id
           /\ \A i \in Id \ {Identification(f.dg)} : Held(i)' = Held(i)
           /\ \/ Held(Identification(f.dg))' = {}
              \/ Held(Identification(f.dg))' = Held(Identification(f.dg)) \cup {f}
           /\ OrderInv'
           /\ (NotEntire => NotEntire')
<1> DEFINE i == Identification(f.dg)
<1>0. PICK q, more : Processed(f, i, q, more)
  BY ProcessIs
<1> HIDE DEF i
<1>1. /\ i \in Id /\ Sorted(q) /\ more = q[Len(q)].more
      /\ {q[j] : j \in DOMAIN q} = Held(i) \cup {f}
      /\ \/ /\ fragments' = [fragments EXCEPT ![i] = << >>]
            /\ moreFragment' = [moreFragment EXCEPT ![i] = FALSE]
         \/ /\ ~ IsEntire(q, more)
            /\ fragments' = [fragments EXCEPT ![i] = q]
            /\ moreFragment' = [moreFragment EXCEPT ![i] = more]
  BY <1>0, Zenon DEF Processed
<1>2. ASSUME NEW e \in Id \ {i} PROVE fragments'[e] = fragments[e] /\ moreFragment'[e] = moreFragment[e]
  BY <1>1 DEF SoundInv
<1>3. \/ fragments'[i] = << >> /\ moreFragment'[i] = FALSE
      \/ fragments'[i] = q /\ moreFragment'[i] = more /\ ~ IsEntire(q, more)
  <2>1. fragments \in [Id -> Seq(Sound(displaced))]
    BY DEF SoundInv
  <2>2. CASE fragments' = [fragments EXCEPT ![i] = << >>] /\ moreFragment' = [moreFragment EXCEPT ![i] = FALSE]
    BY <1>1, <2>1, <2>2
  <2>3. CASE /\ ~ IsEntire(q, more)
             /\ fragments' = [fragments EXCEPT ![i] = q] /\ moreFragment' = [moreFragment EXCEPT ![i] = more]
    <3>1. fragments'[i] = q
      BY <1>1, <2>1, <2>3
    <3>2. moreFragment'[i] = more
      BY <1>1, <2>3
    <3>3. QED
      BY <2>3, <3>1, <3>2
  <2>4. QED
    BY <1>1, <2>2, <2>3
<1>4. \A e \in Id \ {i} : Held(e)' = Held(e)
  BY <1>2 DEF Held
<1>5. Held(i)' = {} \/ Held(i)' = Held(i) \cup {f}
  <2>1. CASE fragments'[i] = << >>
    BY <2>1 DEF Held
  <2>2. CASE fragments'[i] = q
    <3>1. Held(i)' = {q[j] : j \in DOMAIN q}
      BY <2>2 DEF Held
    <3>2. QED
      BY <3>1, <1>1
  <2>3. QED
    BY <1>3, <2>1, <2>2
<1>6. OrderInv'
  <2>1. Sorted(<< >>)
    BY DEF Sorted
  <2>2. ASSUME NEW e \in Id
        PROVE  /\ Sorted(fragments'[e])
               /\ fragments'[e] # << >> => moreFragment'[e] = fragments'[e][Len(fragments'[e])].more
    <3>1. CASE e = i
      BY <3>1, <2>1, <1>1, <1>3
    <3>2. CASE e # i
      BY <3>2, <1>2 DEF OrderInv
    <3>3. QED
      BY <3>1, <3>2
  <2>3. QED
    BY <2>2 DEF OrderInv
<1>7. ASSUME NotEntire, NEW e \in Id PROVE ~ IsEntire(fragments'[e], moreFragment'[e])
  <2>1. CASE e = i
    BY <2>1, <1>3 DEF IsEntire
  <2>2. CASE e # i
    BY <2>2, <1>2, <1>7 DEF NotEntire
  <2>3. QED
    BY <2>1, <2>2
<1>8. NotEntire => NotEntire'
  BY <1>7 DEF NotEntire
<1>9. QED
  BY <1>1, <1>4, <1>5, <1>6, <1>8 DEF i

LEMMA PieceDatagram ==
    ASSUME NEW f, NEW k, NEW g \in SendRealOut(f, k)
    PROVE  g.dg = f.dg
  BY DEF SendRealOut, DoFragmentation, Piece

LEMMA SentGrows ==
    ASSUME NEW i, sent \in Int, sent' \in Int, sent <= sent'
    PROVE  SentAs(i) \subseteq SentAs(i)'
  BY DEF SentAs

(* Send sends a new datagram.                                              *)
LEMMA SendIs ==
    ASSUME SoundInv, Send
    PROVE  /\ sent \in Nat /\ sent' = sent + 1 /\ sent' \in Datagram
           /\ \E whole \in Sound(displaced) :
                /\ whole.dg = sent' /\ whole.from = 0 /\ whole.size = Size[sent']
                /\ network' = network \cup (SendRealOut(whole, 1) \X {1})
                /\ displaced' = displaced \cup Displaced(SendRealOut(whole, 1))
           /\ 1 \in Links
           /\ UNCHANGED <<fragments, moreFragment, timers, delivered, lost>>
<1> DEFINE whole == [dg |-> sent', from |-> 0, size |-> Size[sent'], offset |-> 0, more |-> FALSE]
<1>1. Len(Size) \in Nat /\ 1 \in Links
  BY FragmentationAssumption, LenProperties, EmptySeq DEF Links
<1>2. sent \in Nat /\ sent' = sent + 1 /\ sent' \in Datagram
  BY <1>1, FragmentationAssumption, LenProperties DEF Send, Datagram, SoundInv
<1>3. Size[sent'] \in Nat \ {0}
  BY <1>2, SizeType
<1>4. whole \in Sound(displaced)
  BY <1>2, <1>3 DEF Sound, Fragment, InPlace
<1>5. /\ network' = network \cup (SendRealOut(whole, 1) \X {1})
      /\ displaced' = displaced \cup Displaced(SendRealOut(whole, 1))
      /\ UNCHANGED <<fragments, moreFragment, timers, delivered, lost>>
  BY DEF Send, reassembly
<1>6. whole.dg = sent' /\ whole.from = 0 /\ whole.size = Size[sent']
  OBVIOUS
<1> HIDE DEF whole
<1>7. QED
  BY <1>1, <1>2, <1>4, <1>5, <1>6

LEMMA IdInductive ==
    ASSUME SoundInv, OrderInv, IdInv, moreFragment \in [Id -> BOOLEAN], [Next]_vars
    PROVE  IdInv'
<1>1. sent \in Nat /\ sent' \in Nat /\ sent <= sent'
  <2>1. sent \in Nat
    BY FragmentationAssumption, LenProperties DEF SoundInv
  <2>2. sent' = sent \/ sent' = sent + 1
    BY DEF Next, Send, Forward, Lose, DeliverWhole, ProcessFragment, HandleFragmentsTimeout, vars
  <2>3. QED
    BY <2>1, <2>2
<1>2. \A i : SentAs(i) \subseteq SentAs(i)'
  BY <1>1, SentGrows
<1>3. ASSUME UNCHANGED <<fragments, delivered>>, \A pair \in network' : pair[1].dg \in 1 .. sent'
      PROVE  IdInv'
  <2>1. \A i : Held(i)' = Held(i)
    BY <1>3 DEF Held
  <2>2. QED
    BY <1>2, <1>3, <2>1 DEF IdInv
<1>4. \A pair \in network : pair[1].dg \in 1 .. sent'
  BY <1>1 DEF IdInv
<1>5. ASSUME NEW f, f.dg \in 1 .. sent PROVE f.dg \in SentAs(Identification(f.dg))'
  BY <1>1, <1>5 DEF SentAs
<1>6. CASE UNCHANGED vars
  BY <1>3, <1>4, <1>6 DEF vars
<1>7. CASE Send
  <2>1. PICK whole : /\ whole.dg = sent'
                     /\ network' = network \cup (SendRealOut(whole, 1) \X {1})
    BY <1>7, SendIs
  <2>2. UNCHANGED <<fragments, delivered>> /\ sent' = sent + 1
    BY <1>7, SendIs
  <2>3. \A g \in SendRealOut(whole, 1) : g.dg \in 1 .. sent'
    BY <1>1, <2>1, <2>2, PieceDatagram
  <2>4. QED
    BY <1>3, <1>4, <2>1, <2>2, <2>3
<1>8. ASSUME NEW pair \in network, NEW f, f = pair[1], NEW k, k = pair[2], Forward(f, k) PROVE IdInv'
  <2>1. \A g \in SendRealOut(f, k + 1) : g.dg \in 1 .. sent'
    BY <1>4, <1>8, PieceDatagram
  <2>2. QED
    BY <1>3, <1>4, <1>8, <2>1 DEF Forward, reassembly
<1>9. ASSUME NEW f, NEW k, Lose(f, k) PROVE IdInv'
  BY <1>3, <1>4, <1>9 DEF Lose, reassembly
<1>10. ASSUME NEW pair \in network, NEW f, f = pair[1], DeliverWhole(f) PROVE IdInv'
  <2>1. \A i : Held(i)' = Held(i)
    BY <1>10 DEF Held, DeliverWhole, reassembly
  <2>2. delivered' = delivered \cup {<<Identification(f.dg), Bytes(f)>>} /\ network' \subseteq network
    BY <1>10 DEF DeliverWhole, Arrives
  <2>3. f.dg \in SentAs(Identification(f.dg))'
    BY <1>5, <1>10 DEF IdInv
  <2>4. \A p \in delivered' : SentAs(p[1])' # {}
    BY <1>2, <2>2, <2>3 DEF IdInv
  <2>5. QED
    BY <1>2, <1>4, <2>1, <2>2, <2>4 DEF IdInv
<1>11. ASSUME NEW pair \in network, NEW f, f = pair[1], ProcessFragment(f) PROVE IdInv'
  <2> DEFINE i == Identification(f.dg)
  <2>1. /\ i \in Id
        /\ \A e \in Id \ {i} : Held(e)' = Held(e)
        /\ Held(i)' = {} \/ Held(i)' = Held(i) \cup {f}
    BY <1>11, ProcessLists
  <2>2. network' \subseteq network
    BY <1>11 DEF ProcessFragment, Arrives
  <2>3. f.dg \in SentAs(i)'
    BY <1>5, <1>11 DEF IdInv
  <2>4. ASSUME NEW p \in delivered' PROVE p \in delivered \/ p[1] = i
    BY <1>11, <2>4 DEF ProcessFragment
  <2> HIDE DEF i
  <2>5. \A p \in delivered' : SentAs(p[1])' # {}
    BY <1>2, <2>3, <2>4 DEF IdInv
  <2>6. \A e \in Id : \A g \in Held(e)' : g.dg \in SentAs(e)'
    BY <1>2, <2>1, <2>3 DEF IdInv
  <2>7. QED
    BY <1>4, <2>2, <2>5, <2>6 DEF IdInv
<1>12. ASSUME NEW i \in Id, HandleFragmentsTimeout(i) PROVE IdInv'
  <2>1. \A e \in Id : Held(e)' \subseteq Held(e)
    <3>1. fragments' = [fragments EXCEPT ![i] = << >>]
      BY <1>12 DEF HandleFragmentsTimeout
    <3>2. \A e \in Id : fragments'[e] = << >> \/ fragments'[e] = fragments[e]
      BY <3>1 DEF SoundInv
    <3>3. QED
      BY <3>2 DEF Held
  <2>2. UNCHANGED <<network, delivered>>
    BY <1>12 DEF HandleFragmentsTimeout
  <2>3. QED
    BY <1>2, <1>4, <2>1, <2>2 DEF IdInv
<1>13. QED
  BY <1>6, <1>7, <1>8, <1>9, <1>10, <1>11, <1>12 DEF Next

LEMMA OrderInductive ==
    ASSUME SoundInv, OrderInv, NotEntire, moreFragment \in [Id -> BOOLEAN], [Next]_vars
    PROVE  OrderInv' /\ NotEntire'
<1>1. CASE UNCHANGED <<fragments, moreFragment>>
  BY <1>1 DEF OrderInv, NotEntire
<1>2. ASSUME NEW pair \in network, NEW f, f = pair[1], ProcessFragment(f) PROVE OrderInv' /\ NotEntire'
  BY <1>2, ProcessLists
<1>3. ASSUME NEW i \in Id, HandleFragmentsTimeout(i) PROVE OrderInv' /\ NotEntire'
  <2>1. /\ fragments' = [fragments EXCEPT ![i] = << >>]
        /\ moreFragment' = [moreFragment EXCEPT ![i] = FALSE]
    BY <1>3 DEF HandleFragmentsTimeout
  <2>2. ASSUME NEW e \in Id
        PROVE  fragments'[e] = << >> \/ (fragments'[e] = fragments[e] /\ moreFragment'[e] = moreFragment[e])
    BY <2>1 DEF SoundInv
  <2>3. Sorted(<< >>) /\ \A more : ~ IsEntire(<< >>, more)
    BY DEF Sorted, IsEntire
  <2>4. OrderInv'
    BY <2>2, <2>3 DEF OrderInv
  <2>5. NotEntire'
    BY <2>2, <2>3 DEF NotEntire
  <2>6. QED
    BY <2>4, <2>5
<1>4. QED
  BY <1>1, <1>2, <1>3 DEF Next, Send, Forward, Lose, DeliverWhole, reassembly, vars

LEMMA CollectInductive == ASSUME CollectInv, TypeOK, [Next]_vars PROVE CollectInv'
<1>1. moreFragment \in [Id -> BOOLEAN]
  BY DEF TypeOK
<1>2. QED
  BY <1>1, SoundInductive, OrderInductive, IdInductive DEF CollectInv

LEMMA CollectInitial == Init => CollectInv
<1>1. SUFFICES ASSUME Init PROVE CollectInv
  OBVIOUS
<1>2. Sorted(<< >>) /\ ~ IsEntire(<< >>, FALSE)
  BY DEF Sorted, IsEntire
<1>3. OrderInv /\ NotEntire
  BY <1>1, <1>2 DEF Init, OrderInv, NotEntire
<1>4. IdInv
  BY <1>1 DEF Init, IdInv, Held
<1>5. QED
  BY <1>1, <1>3, <1>4, SoundInitial DEF CollectInv

-----------------------------------------------------------------------------
(* What is handed up.                                                      *)

LEMMA NoHoleOfEntire == ASSUME NEW q, NEW more, IsEntire(q, more) PROVE NoHole(q) /\ q # << >> /\ ~ more
  BY DEF IsEntire, NoHole

(* Fragments of one datagram, each in its place, without a hole and with   *)
(* the last of them at the end, make up the datagram.                      *)
LEMMA EntireIsWhole ==
    ASSUME NEW D, NEW q \in Seq(Fragment), \A j \in DOMAIN q : q[j] \in Sound(D),
           NEW d \in Datagram, d \notin D, \A j \in DOMAIN q : q[j].dg = d,
           IsEntire(q, q[Len(q)].more)
    PROVE  GetPacket(q) = Whole(d)
<1> DEFINE N == Len(q)
           p == GetPacket(q)
<1>1. NoHole(q) /\ q # << >> /\ ~ q[N].more
  BY NoHoleOfEntire
<1>2. N \in Nat \ {0} /\ DOMAIN q = 1 .. N
  BY <1>1, ListType, EmptySeq
<1>3. Size[d] \in Nat \ {0}
  BY SizeType
<1>4. ASSUME NEW j \in 1 .. N
      PROVE  /\ q[j].offset = q[j].from /\ End(q[j]) \in Nat /\ End(q[j]) <= Size[d]
             /\ ~ q[j].more => End(q[j]) = Size[d]
  <2>1. InPlace(q[j]) /\ q[j].from + q[j].size <= Size[d]
    BY <1>2 DEF Sound
  <2>2. q[j].offset \in Nat /\ q[j].size \in Nat /\ q[j].from \in Nat
    BY ListType
  <2>3. q[j].dg = d
    BY <1>2
  <2>4. q[j].offset = q[j].from /\ (q[j].more <=> q[j].from + q[j].size < Size[d])
    BY <2>1, <2>3 DEF InPlace
  <2>5. End(q[j]) = q[j].from + q[j].size /\ End(q[j]) \in Nat
    BY <2>2, <2>4 DEF End
  <2>6. ~ q[j].more => End(q[j]) = Size[d]
    BY <1>3, <2>1, <2>4, <2>5
  <2>7. QED
    BY <2>1, <2>4, <2>5, <2>6
<1> HIDE DEF N
<1>5. /\ p \in Seq(Byte)
      /\ \A b \in 1 .. Len(p) : \E j \in 1 .. N : p[b] = <<q[j].dg, b - 1>>
      /\ \A j \in 1 .. N : End(q[j]) <= Len(p)
      /\ \E j \in 1 .. N : Len(p) = End(q[j])
  BY <1>1, <1>2, <1>4, PacketInPlace DEF N
<1> HIDE DEF p
<1>6. Len(p) = Size[d]
  <2>1. N \in 1 .. N /\ Len(p) \in Nat
    BY <1>2, <1>5, LenProperties
  <2>2. Size[d] <= Len(p)
    BY <1>1, <1>4, <1>5, <2>1
  <2>3. Len(p) <= Size[d]
    BY <1>4, <1>5
  <2>4. QED
    BY <1>3, <2>1, <2>2, <2>3
<1>7. p \in [1 .. Size[d] -> Byte]
  BY <1>5, <1>6, LenProperties
<1>8. \A b \in 1 .. Size[d] : p[b] = <<d, b - 1>>
  BY <1>2, <1>5, <1>6
<1>9. QED
  BY <1>7, <1>8 DEF Whole, p

DeliverInv == DeliveredEntire /\ BytesInPlace

(* A packet put together of what was collected under i.                    *)
LEMMA PacketGood ==
    ASSUME CollectInv, NEW i \in Id, NEW q \in Seq(Fragment), IsEntire(q, q[Len(q)].more),
           \A j \in DOMAIN q : q[j] \in Sound(displaced) /\ q[j].dg \in SentAs(i)
    PROVE  /\ \A d \in SentAs(i) : Alone(d) => GetPacket(q) = Whole(d)
           /\ SentAs(i) \cap displaced = {} =>
                  \A b \in DOMAIN GetPacket(q) : GetPacket(q)[b][2] = b - 1
<1>1. ASSUME NEW d \in SentAs(i), Alone(d) PROVE GetPacket(q) = Whole(d)
  <2>1. d \in Datagram
    BY FragmentationAssumption, LenProperties DEF SentAs, CollectInv, SoundInv, Datagram
  <2>2. SentAs(i) = {d} /\ d \notin displaced
    BY <1>1 DEF Alone, SentAs
  <2>3. \A j \in DOMAIN q : q[j].dg = d
    BY <2>2
  <2>4. QED
    BY <2>1, <2>2, <2>3, EntireIsWhole
<1>2. ASSUME SentAs(i) \cap displaced = {} PROVE \A b \in DOMAIN GetPacket(q) : GetPacket(q)[b][2] = b - 1
  <2>1. NoHole(q)
    BY NoHoleOfEntire
  <2>2. \A j \in DOMAIN q : q[j].offset = q[j].from
    BY <1>2 DEF Sound, InPlace
  <2>3. /\ GetPacket(q) \in Seq(Byte)
        /\ \A b \in 1 .. Len(GetPacket(q)) : \E j \in 1 .. Len(q) : GetPacket(q)[b] = <<q[j].dg, b - 1>>
    BY <2>1, <2>2, PacketInPlace
  <2>4. DOMAIN GetPacket(q) = 1 .. Len(GetPacket(q))
    BY <2>3, LenProperties
  <2>5. QED
    BY <2>3, <2>4
<1>3. QED
  BY <1>1, <1>2

(* A datagram that is not a fragment, or no longer one.                    *)
LEMMA WholeGood ==
    ASSUME CollectInv, NEW pair \in network, NEW f, f = pair[1], ~ f.more, f.offset = 0,
           NEW i, i = Identification(f.dg)
    PROVE  /\ \A d \in SentAs(i) : Alone(d) => Bytes(f) = Whole(d)
           /\ SentAs(i) \cap displaced = {} => \A b \in DOMAIN Bytes(f) : Bytes(f)[b][2] = b - 1
<1>1. f \in Sound(displaced) /\ f \in Fragment
  BY CarriedType DEF CollectInv
<1>2. f.dg \in SentAs(i)
  BY DEF CollectInv, IdInv, SentAs
<1>3. f.dg \in Datagram /\ f.from \in Nat /\ f.size \in Nat \ {0} /\ f.offset \in Nat
  BY <1>1 DEF Fragment
<1>4. Size[f.dg] \in Nat
  BY <1>3, SizeType
<1>5. ASSUME f.dg \notin displaced PROVE f.from = 0 /\ f.size = Size[f.dg]
  <2>1. f.offset = f.from /\ ~ (f.from + f.size < Size[f.dg]) /\ f.from + f.size <= Size[f.dg]
    BY <1>1, <1>5 DEF Sound, InPlace
  <2>2. f.from = 0
    BY <2>1
  <2>3. f.size = Size[f.dg]
    BY <1>3, <1>4, <2>1, <2>2
  <2>4. QED
    BY <2>2, <2>3
<1>6. ASSUME NEW d \in SentAs(i), Alone(d) PROVE Bytes(f) = Whole(d)
  <2>1. d = f.dg /\ d \notin displaced
    BY <1>2, <1>6 DEF Alone, SentAs
  <2>2. f.from = 0 /\ f.size = Size[d]
    BY <1>5, <2>1
  <2>3. \A b \in 1 .. Size[d] : f.from + b - 1 = b - 1
    BY <2>2
  <2>4. QED
    BY <2>1, <2>2, <2>3 DEF Bytes, Whole
<1>7. ASSUME SentAs(i) \cap displaced = {} PROVE \A b \in DOMAIN Bytes(f) : Bytes(f)[b][2] = b - 1
  <2>1. f.from = 0
    BY <1>2, <1>5, <1>7
  <2>2. QED
    BY <2>1 DEF Bytes
<1>8. QED
  BY <1>6, <1>7

LEMMA DeliverInductive ==
    ASSUME CollectInv, TypeOK, DeliverInv, [Next]_vars
    PROVE  DeliverInv'
<1>1. sent \in Nat /\ sent' \in Nat /\ (sent' = sent \/ sent' = sent + 1)
  <2>1. sent \in Nat
    BY FragmentationAssumption, LenProperties DEF CollectInv, SoundInv
  <2>2. sent' = sent \/ sent' = sent + 1
    BY DEF Next, Send, Forward, Lose, DeliverWhole, ProcessFragment, HandleFragmentsTimeout, vars
  <2>3. QED
    BY <2>1, <2>2
<1>2. \A i : SentAs(i) \subseteq SentAs(i)'
  BY <1>1, SentGrows
<1>3. displaced \subseteq displaced'
  BY DEF Next, Send, Forward, Lose, DeliverWhole, ProcessFragment, HandleFragmentsTimeout, vars
(* A packet handed up before stays what it was.                            *)
<1>4. ASSUME NEW pair \in delivered, NEW d \in SentAs(pair[1])', Alone(d)' PROVE pair[2] = Whole(d)
  <2>1. Identification(d) = pair[1] /\ SentAs(pair[1])' = {d} /\ d \notin displaced
    BY <1>3, <1>4 DEF Alone, SentAs
  <2>2. SentAs(pair[1]) # {}
    BY DEF CollectInv, IdInv
  <2>3. SentAs(pair[1]) = {d}
    BY <1>2, <2>1, <2>2
  <2>4. d \in SentAs(pair[1]) /\ Alone(d)
    BY <2>1, <2>3 DEF Alone
  <2>5. QED
    BY <2>4 DEF DeliverInv, DeliveredEntire
<1>5. ASSUME NEW pair \in delivered, SentAs(pair[1])' \cap displaced' = {}
      PROVE  \A b \in DOMAIN pair[2] : pair[2][b][2] = b - 1
  BY <1>2, <1>3, <1>5 DEF DeliverInv, BytesInPlace
<1>6. CASE UNCHANGED delivered
  BY <1>4, <1>5, <1>6 DEF DeliverInv, DeliveredEntire, BytesInPlace
<1>7. ASSUME UNCHANGED <<sent, displaced>>, NEW i, NEW p, delivered' = delivered \cup {<<i, p>>},
             \A d \in SentAs(i) : Alone(d) => p = Whole(d),
             SentAs(i) \cap displaced = {} => \A b \in DOMAIN p : p[b][2] = b - 1
      PROVE  DeliverInv'
  <2>1. (\A e : SentAs(e)' = SentAs(e)) /\ \A d : Alone(d)' <=> Alone(d)
    BY <1>7 DEF SentAs, Alone
  <2>2. ASSUME NEW pair \in delivered', pair \notin delivered PROVE pair[1] = i /\ pair[2] = p
    BY <1>7, <2>2
  <2>3. DeliveredEntire'
    BY <1>4, <1>7, <2>1, <2>2 DEF DeliveredEntire
  <2>4. BytesInPlace'
    BY <1>5, <1>7, <2>1, <2>2 DEF BytesInPlace
  <2>5. QED
    BY <2>3, <2>4 DEF DeliverInv
<1>8. ASSUME NEW pair \in network, NEW f, f = pair[1], DeliverWhole(f) PROVE DeliverInv'
  <2> DEFINE i == Identification(f.dg)
  <2>1. /\ \A d \in SentAs(i) : Alone(d) => Bytes(f) = Whole(d)
        /\ SentAs(i) \cap displaced = {} => \A b \in DOMAIN Bytes(f) : Bytes(f)[b][2] = b - 1
    BY <1>8, WholeGood DEF DeliverWhole
  <2>2. delivered' = delivered \cup {<<i, Bytes(f)>>} /\ UNCHANGED <<sent, displaced>>
    BY <1>8 DEF DeliverWhole
  <2> HIDE DEF i
  <2>3. QED
    BY <1>7, <2>1, <2>2
<1>9. ASSUME NEW pair \in network, NEW f, f = pair[1], ProcessFragment(f) PROVE DeliverInv'
  <2> DEFINE i == Identification(f.dg)
  <2>1. PICK q, more : Processed(f, i, q, more)
    BY <1>9, ProcessIs DEF CollectInv
  <2>2. CASE UNCHANGED delivered
    BY <1>6, <2>2
  <2>3. CASE IsEntire(q, more) /\ delivered' = delivered \cup {<<i, GetPacket(q)>>}
    <3>1. /\ i \in Id /\ q \in Seq(Fragment) /\ more = q[Len(q)].more
          /\ {q[j] : j \in DOMAIN q} = Held(i) \cup {f}
          /\ \A j \in DOMAIN q : q[j] \in Sound(displaced)
          /\ UNCHANGED <<sent, displaced>>
      BY <2>1 DEF Processed
    <3>2. f.dg \in SentAs(i)
      BY <1>9 DEF CollectInv, IdInv, SentAs
    <3> HIDE DEF i
    <3>3. \A g \in Held(i) : g.dg \in SentAs(i)
      BY <3>1 DEF CollectInv, IdInv
    <3>4. \A j \in DOMAIN q : q[j].dg \in SentAs(i)
      BY <3>1, <3>2, <3>3
    <3>5. /\ \A d \in SentAs(i) : Alone(d) => GetPacket(q) = Whole(d)
          /\ SentAs(i) \cap displaced = {} =>
                 \A b \in DOMAIN GetPacket(q) : GetPacket(q)[b][2] = b - 1
      BY <2>3, <3>1, <3>4, PacketGood
    <3>6. delivered' = delivered \cup {<<i, GetPacket(q)>>} /\ UNCHANGED <<sent, displaced>>
      BY <2>3, <3>1
    <3>7. QED
      BY <1>7, <3>5, <3>6
  <2>4. QED
    BY <2>1, <2>2, <2>3 DEF Processed
<1>10. QED
  BY <1>6, <1>8, <1>9 DEF Next, Send, Forward, Lose, HandleFragmentsTimeout, vars

(* In whatever order fragments come, with losses, duplicates and timeouts, *)
(* and however often they were fragmented again, ProcessFragment hands up  *)
(* the datagram sent, entire and with every byte in its place, unless its  *)
(* identification is in use again or its last fragment was displaced.      *)
THEOREM IntactCorrect == Spec => []DeliveredIntact
<1>1. Init => DeliverInv
  BY DEF Init, DeliverInv, DeliveredEntire, BytesInPlace
<1>2. DeliverInv => DeliveredIntact
  BY DEF DeliverInv, DeliveredIntact
<1>3. Init => CollectInv
  BY CollectInitial
<1>4. CollectInv /\ TypeOK /\ [Next]_vars => CollectInv'
  BY CollectInductive
<1>5. CollectInv /\ TypeOK /\ DeliverInv /\ [Next]_vars => DeliverInv'
  BY DeliverInductive
<1>6. QED
  BY <1>1, <1>2, <1>3, <1>4, <1>5, TypeCorrect, PTL DEF Spec

-----------------------------------------------------------------------------
(* The pieces of a fragment.                                               *)

Apart(f, g) == f.dg = g.dg => f.from + f.size <= g.from \/ g.from + g.size <= f.from

Within(g, f) == g.dg = f.dg /\ f.from <= g.from /\ g.from + g.size <= f.from + f.size

Carries(f, b) == f.from <= b /\ b < f.from + f.size

LEMMA Multiples ==
    ASSUME NEW m \in Nat \ {0}, NEW a \in Nat, NEW b \in Nat, a % m = 0, b % m = 0, a < b
    PROVE  a + m <= b
<1> DEFINE x == a \div m
           y == b \div m
<1>1. x \in Int /\ y \in Int /\ a = m * x /\ b = m * y
  OBVIOUS
<1> HIDE DEF x, y
<1>2. x + 1 <= y
  <2>1. CASE y <= x
    <3>1. m * y <= m * x
      BY <1>1, <2>1
    <3>2. QED
      BY <3>1, <1>1
  <2>2. QED
    BY <2>1, <1>1
<1>3. m * (x + 1) <= m * y
  BY <1>1, <1>2
<1>4. QED
  BY <1>1, <1>3

LEMMA RoundDown ==
    ASSUME NEW m \in Nat \ {0}, NEW b \in Nat
    PROVE  \E a \in 0 .. b : a % m = 0 /\ b < a + m
<1> DEFINE q == b \div m
           r == b % m
<1>1. q \in Int /\ r \in 0 .. m - 1 /\ b = m * q + r
  OBVIOUS
<1> HIDE DEF q, r
<1>2. q \in Nat
  <2>1. CASE q <= -1
    <3>1. m * q <= -m
      BY <1>1, <2>1
    <3>2. QED
      BY <3>1, <1>1
  <2>2. QED
    BY <2>1, <1>1
<1>3. m * q \in 0 .. b /\ b < m * q + m
  BY <1>1, <1>2
<1>4. (m * q) % m = 0
  BY <1>2
<1>5. QED
  BY <1>3, <1>4

(* The pieces lie within the fragment, apart from each other, and carry    *)
(* all of its bytes.                                                       *)
LEMMA Pieces ==
    ASSUME NEW f \in Fragment, NEW k \in Links
    PROVE  /\ \A g \in SendRealOut(f, k) : Within(g, f) /\ g.from \in Nat /\ g.size \in Nat \ {0}
           /\ \A g, h \in SendRealOut(f, k) : g # h => Apart(g, h)
           /\ \A b \in Nat : Carries(f, b) => \E g \in SendRealOut(f, k) : Carries(g, b)
<1> DEFINE full == FragmentSize(Room[k])
           length(start) == IF f.size > start + full THEN full ELSE f.size - start
           Starts == {s \in 0 .. f.size - 1 : s % full = 0}
<1>1. f.from \in Nat /\ f.size \in Nat \ {0} /\ full \in Nat \ {0}
  BY FullIsPositive DEF Fragment
<1>2. CASE SendRealOut(f, k) = {f}
  <2>1. Within(f, f)
    BY <1>1 DEF Within
  <2>2. QED
    BY <1>1, <1>2, <2>1
<1>3. CASE SendRealOut(f, k) = DoFragmentation(f, Room[k])
  <2>1. SendRealOut(f, k) = {Piece(f, start, length(start)) : start \in Starts}
    BY <1>3 DEF DoFragmentation
  <2> HIDE DEF full
  <2>2. ASSUME NEW s \in Starts
        PROVE  /\ s \in Nat /\ s % full = 0 /\ s < f.size /\ length(s) \in Nat \ {0}
               /\ s + length(s) <= f.size /\ length(s) <= full
               /\ length(s) = full \/ s + length(s) = f.size
    BY <1>1
  <2>3. ASSUME NEW s \in Starts
        PROVE  LET g == Piece(f, s, length(s)) IN g.dg = f.dg /\ g.from = f.from + s /\ g.size = length(s)
    BY DEF Piece
  <2> HIDE DEF length, Starts
  <2>4. ASSUME NEW s \in Starts
        PROVE  LET g == Piece(f, s, length(s)) IN Within(g, f) /\ g.from \in Nat /\ g.size \in Nat \ {0}
    BY <1>1, <2>2, <2>3 DEF Within
  <2>5. ASSUME NEW s \in Starts, NEW t \in Starts, s < t
        PROVE  f.from + s + length(s) <= f.from + t
    <3>1. s + full <= t
      BY <1>1, <2>2, <2>5, Multiples
    <3>2. QED
      BY <1>1, <2>2, <3>1
  <2>6. ASSUME NEW s \in Starts, NEW t \in Starts, s # t
        PROVE  Apart(Piece(f, s, length(s)), Piece(f, t, length(t)))
    <3>1. s < t \/ t < s
      BY <2>2, <2>6
    <3>2. QED
      BY <1>1, <2>2, <2>3, <2>5, <3>1 DEF Apart
  <2>7. ASSUME NEW b \in Nat, Carries(f, b) PROVE \E g \in SendRealOut(f, k) : Carries(g, b)
    <3>1. b - f.from \in Nat /\ b - f.from < f.size
      BY <1>1, <2>7 DEF Carries
    <3>2. PICK s \in 0 .. b - f.from : s % full = 0 /\ b - f.from < s + full
      BY <1>1, <3>1, RoundDown
    <3>3. s \in Starts
      BY <1>1, <3>1, <3>2 DEF Starts
    <3>4. Carries(Piece(f, s, length(s)), b)
      BY <1>1, <2>2, <2>3, <2>7, <3>1, <3>2, <3>3 DEF Carries
    <3>5. QED
      BY <2>1, <3>3, <3>4
  <2>8. QED
    BY <2>1, <2>4, <2>6, <2>7
<1>4. QED
  BY <1>2, <1>3 DEF SendRealOut

LEMMA ApartSymmetric == ASSUME NEW f, NEW g, Apart(f, g) PROVE Apart(g, f)
  BY DEF Apart

LEMMA ApartWithin ==
    ASSUME NEW f \in Fragment, NEW g \in Fragment, NEW h, h.from \in Nat, h.size \in Nat, Apart(f, g), Within(h, f)
    PROVE  Apart(h, g)
<1>1. f.from \in Nat /\ f.size \in Nat /\ g.from \in Nat /\ g.size \in Nat
  BY DEF Fragment
<1>2. QED
  BY <1>1 DEF Apart, Within

-----------------------------------------------------------------------------
(* No byte of a datagram is in two places.                                 *)

(* A fragment that has come and will come once more is in the network and  *)
(* in the list.                                                            *)
ApartInv ==
    /\ \A p1, p2 \in network : p1 # p2 => Apart(p1[1], p2[1])
    /\ \A p \in network : \A i \in Id : \A g \in Held(i) :
         Apart(p[1], g) \/ (p[1] = g /\ p[2] = Len(Room))
    /\ \A i \in Id : \A g, h \in Held(i) : g # h => Apart(g, h)

LEMMA TimeoutLists ==
    ASSUME SoundInv, NEW i \in Id, HandleFragmentsTimeout(i)
    PROVE  Held(i)' = {} /\ \A e \in Id \ {i} : Held(e)' = Held(e)
<1>1. fragments' = [fragments EXCEPT ![i] = << >>]
  BY DEF HandleFragmentsTimeout
<1>2. fragments'[i] = << >> /\ \A e \in Id \ {i} : fragments'[e] = fragments[e]
  BY <1>1 DEF SoundInv
<1>3. QED
  BY <1>2 DEF Held

LEMMA HeldType ==
    ASSUME SoundInv
    PROVE  \A i \in Id : \A g \in Held(i) : g \in Fragment /\ g \in Sound(displaced)
  BY CarriedType DEF Held

LEMMA ApartInductive ==
    ASSUME CollectInv, TypeOK, ApartInv, [Next]_vars
    PROVE  ApartInv'
<1>1. SoundInv /\ moreFragment \in [Id -> BOOLEAN] /\ OrderInv /\ IdInv
  BY DEF CollectInv, TypeOK
<1>2. (\A p \in network : p[1] \in Fragment) /\ (\A i \in Id : \A g \in Held(i) : g \in Fragment)
  BY <1>1, CarriedType, HeldType
<1>3. ASSUME network' \subseteq network, \A i \in Id : Held(i)' \subseteq Held(i) PROVE ApartInv'
  BY <1>3 DEF ApartInv
<1>4. ASSUME UNCHANGED fragments PROVE \A i : Held(i)' = Held(i)
  BY <1>4 DEF Held
<1>5. CASE UNCHANGED vars
  BY <1>3, <1>4, <1>5 DEF vars
<1>6. CASE Send
  <2>1. PICK whole \in Sound(displaced) :
            /\ whole.dg = sent'
            /\ network' = network \cup (SendRealOut(whole, 1) \X {1})
    BY <1>1, <1>6, SendIs
  <2>2. sent \in Nat /\ sent' = sent + 1 /\ 1 \in Links /\ UNCHANGED fragments
    BY <1>1, <1>6, SendIs
  <2>3. whole \in Fragment
    BY DEF Sound
  <2> DEFINE pieces == SendRealOut(whole, 1)
  <2>4. (\A g \in pieces : g.dg = sent') /\ (\A g, h \in pieces : g # h => Apart(g, h))
    BY <2>1, <2>2, <2>3, Pieces, PieceDatagram
  <2> HIDE DEF pieces
  <2>5. network' = network \cup (pieces \X {1})
    BY <2>1 DEF pieces
  <2>6. ASSUME NEW g \in pieces, NEW h, h.dg \in 1 .. sent PROVE Apart(g, h) /\ Apart(h, g)
    BY <2>2, <2>4, <2>6 DEF Apart
  <2>7. (\A p \in network : p[1].dg \in 1 .. sent) /\ (\A i \in Id : \A g \in Held(i) : g.dg \in 1 .. sent)
    BY <1>1 DEF IdInv, SentAs
  <2>8. \A p1, p2 \in network' : p1 # p2 => Apart(p1[1], p2[1])
    BY <2>4, <2>5, <2>6, <2>7 DEF ApartInv
  <2>9. \A p \in network' : \A i \in Id : \A g \in Held(i) : Apart(p[1], g) \/ (p[1] = g /\ p[2] = Len(Room))
    BY <2>5, <2>6, <2>7 DEF ApartInv
  <2>10. QED
    BY <1>4, <2>2, <2>8, <2>9 DEF ApartInv
<1>7. ASSUME NEW pair \in network, NEW f, f = pair[1], NEW k, k = pair[2], Forward(f, k) PROVE ApartInv'
  <2> DEFINE pieces == SendRealOut(f, k + 1)
  <2>1. /\ <<f, k>> \in network /\ k + 1 \in Links /\ UNCHANGED fragments
        /\ network' = (network \ {<<f, k>>}) \cup (pieces \X {k + 1})
    BY <1>7 DEF Forward, reassembly
  <2>2. f \in Fragment
    BY <1>2, <1>7
  <2>3. /\ \A g \in pieces : Within(g, f) /\ g.from \in Nat /\ g.size \in Nat \ {0}
        /\ \A g, h \in pieces : g # h => Apart(g, h)
    BY <2>1, <2>2, Pieces
  <2> HIDE DEF pieces
  <2>4. ASSUME NEW g \in pieces, NEW h \in Fragment, Apart(f, h) PROVE Apart(g, h) /\ Apart(h, g)
    BY <2>2, <2>3, <2>4, ApartWithin, ApartSymmetric
  <2>5. \A p \in network \ {<<f, k>>} : Apart(f, p[1])
    BY <1>7, <2>1 DEF ApartInv
  <2>6. ASSUME NEW i \in Id, NEW g \in Held(i) PROVE Apart(f, g)
    <3>1. k # Len(Room)
      BY <2>1, <1>7, FragmentationAssumption, LenProperties DEF Links
    <3>2. QED
      BY <3>1, <2>1 DEF ApartInv
  <2>7. \A p1, p2 \in network' : p1 # p2 => Apart(p1[1], p2[1])
    <3>1. ASSUME NEW p1 \in network', NEW p2 \in network', p1 # p2 PROVE Apart(p1[1], p2[1])
      <4>1. CASE p1 \in network \ {<<f, k>>} /\ p2 \in network \ {<<f, k>>}
        BY <3>1, <4>1 DEF ApartInv
      <4>2. CASE p1 \in network \ {<<f, k>>} /\ p2 \in pieces \X {k + 1}
        BY <4>2, <1>2, <2>4, <2>5
      <4>3. CASE p1 \in pieces \X {k + 1} /\ p2 \in network \ {<<f, k>>}
        BY <4>3, <1>2, <2>4, <2>5
      <4>4. CASE p1 \in pieces \X {k + 1} /\ p2 \in pieces \X {k + 1}
        BY <3>1, <4>4, <2>3
      <4>5. QED
        BY <2>1, <4>1, <4>2, <4>3, <4>4
    <3>2. QED
      BY <3>1
  <2>8. \A p \in network' : \A i \in Id : \A g \in Held(i) : Apart(p[1], g) \/ (p[1] = g /\ p[2] = Len(Room))
    <3>1. ASSUME NEW p \in network', NEW i \in Id, NEW g \in Held(i)
          PROVE  Apart(p[1], g) \/ (p[1] = g /\ p[2] = Len(Room))
      <4>1. CASE p \in network
        BY <4>1 DEF ApartInv
      <4>2. CASE p \in pieces \X {k + 1}
        BY <4>2, <1>2, <2>4, <2>6
      <4>3. QED
        BY <2>1, <4>1, <4>2
    <3>2. QED
      BY <3>1
  <2>9. QED
    BY <1>4, <2>1, <2>7, <2>8 DEF ApartInv
<1>8. ASSUME NEW f, NEW k, Lose(f, k) \/ DeliverWhole(f) PROVE ApartInv'
  BY <1>3, <1>4, <1>8 DEF Lose, DeliverWhole, Arrives, reassembly
<1>9. ASSUME NEW pair \in network, NEW f, f = pair[1], ProcessFragment(f) PROVE ApartInv'
  <2> DEFINE i == Identification(f.dg)
  <2>1. /\ i \in Id
        /\ \A e \in Id \ {i} : Held(e)' = Held(e)
        /\ Held(i)' = {} \/ Held(i)' = Held(i) \cup {f}
    BY <1>1, <1>9, ProcessLists
  <2>2. network' \subseteq network /\ <<f, Len(Room)>> \in network
    BY <1>9 DEF ProcessFragment, Arrives
  <2> HIDE DEF i
  <2>3. CASE Held(i)' = {}
    BY <1>3, <2>1, <2>2, <2>3
  <2>4. CASE Held(i)' = Held(i) \cup {f}
    <3>1. ASSUME NEW p \in network PROVE Apart(p[1], f) \/ (p[1] = f /\ p[2] = Len(Room))
      BY <2>2 DEF ApartInv
    <3>2. ASSUME NEW g \in Held(i), g # f PROVE Apart(f, g) /\ Apart(g, f)
      BY <2>1, <2>2, <3>2, ApartSymmetric DEF ApartInv
    <3>3. \A e \in Id : \A g \in Held(e)' : g \in Held(e) \/ (e = i /\ g = f)
      BY <2>1, <2>4
    <3>4. \A p \in network' : \A e \in Id : \A g \in Held(e)' :
              Apart(p[1], g) \/ (p[1] = g /\ p[2] = Len(Room))
      BY <2>2, <3>1, <3>3 DEF ApartInv
    <3>5. \A e \in Id : \A g, h \in Held(e)' : g # h => Apart(g, h)
      BY <3>2, <3>3 DEF ApartInv
    <3>6. QED
      BY <2>2, <3>4, <3>5 DEF ApartInv
  <2>5. QED
    BY <2>1, <2>3, <2>4
<1>10. ASSUME NEW i \in Id, HandleFragmentsTimeout(i) PROVE ApartInv'
  <2>1. \A e \in Id : Held(e)' \subseteq Held(e)
    BY <1>1, <1>10, TimeoutLists
  <2>2. QED
    BY <1>3, <1>10, <2>1 DEF HandleFragmentsTimeout
<1>11. QED
  BY <1>5, <1>6, <1>7, <1>8, <1>9, <1>10 DEF Next

-----------------------------------------------------------------------------
(* Every byte is somewhere.                                                *)

(* A fragment under way or collected carries the byte.                     *)
Covered(d, b) ==
    \/ \E pair \in network : pair[1].dg = d /\ Carries(pair[1], b)
    \/ \E g \in Held(Identification(d)) : g.dg = d /\ Carries(g, b)

CoverInv ==
    \A d \in 1 .. sent :
        Alone(d) /\ d \notin lost =>
            \/ <<Identification(d), Whole(d)>> \in delivered
            \/ \A b \in 0 .. Size[d] - 1 : Covered(d, b)

(* The bytes stay where they are if the fragments do.                      *)
LEMMA CoverKeeps ==
    ASSUME CoverInv, NEW d \in 1 .. sent, Alone(d), d \notin lost, delivered \subseteq delivered',
           <<Identification(d), Whole(d)>> \notin delivered',
           \A b : Covered(d, b) => Covered(d, b)'
    PROVE  \A b \in 0 .. Size[d] - 1 : Covered(d, b)'
  BY DEF CoverInv

LEMMA CoverInductive ==
    ASSUME CollectInv, TypeOK, CoverInv, [Next]_vars
    PROVE  CoverInv'
<1>1. SoundInv /\ moreFragment \in [Id -> BOOLEAN] /\ OrderInv /\ IdInv /\ displaced \subseteq displaced'
  BY DEF CollectInv, TypeOK, Next, Send, Forward, Lose, DeliverWhole, ProcessFragment, HandleFragmentsTimeout, vars
<1>2. sent \in Nat /\ sent \in 0 .. Len(Size) /\ Len(Size) \in Nat
  BY FragmentationAssumption, LenProperties DEF CollectInv, SoundInv
<1>3. ASSUME NEW d \in 1 .. sent, Alone(d)', sent' = sent \/ sent' = sent + 1
      PROVE  Alone(d) /\ d \in SentAs(Identification(d)) /\ d \in Datagram /\ Identification(d) \in Id
  <2>1. SentAs(Identification(d)) \subseteq SentAs(Identification(d))'
    BY <1>2, <1>3, SentGrows
  <2>2. d \in SentAs(Identification(d)) /\ d \in Datagram
    BY <1>2, FragmentationAssumption, LenProperties DEF SentAs, Datagram
  <2>3. QED
    BY <1>1, <1>3, <2>1, <2>2, IdType DEF Alone
<1>4. ASSUME UNCHANGED sent,
             \A d \in 1 .. sent :
                Alone(d) /\ d \in SentAs(Identification(d)) /\ d \in Datagram /\ Identification(d) \in Id
                /\ d \notin lost' =>
                    \/ <<Identification(d), Whole(d)>> \in delivered'
                    \/ delivered \subseteq delivered' /\ lost \subseteq lost'
                       /\ \A b : Covered(d, b) => Covered(d, b)'
      PROVE  CoverInv'
  <2>1. ASSUME NEW d \in 1 .. sent, Alone(d)', d \notin lost',
               <<Identification(d), Whole(d)>> \notin delivered'
        PROVE  \A b \in 0 .. Size[d] - 1 : Covered(d, b)'
    <3>1. Alone(d) /\ d \in SentAs(Identification(d)) /\ d \in Datagram /\ Identification(d) \in Id
      BY <1>3, <1>4, <2>1
    <3>2. delivered \subseteq delivered' /\ lost \subseteq lost' /\ \A b : Covered(d, b) => Covered(d, b)'
      BY <1>4, <2>1, <3>1
    <3>3. QED
      BY <2>1, <3>1, <3>2, CoverKeeps
  <2>2. QED
    BY <1>4, <2>1 DEF CoverInv
<1>5. ASSUME UNCHANGED fragments PROVE \A i : Held(i)' = Held(i)
  BY <1>5 DEF Held
<1>6. CASE UNCHANGED vars
  <2>1. \A d, b : Covered(d, b) => Covered(d, b)'
    BY <1>5, <1>6 DEF vars, Covered
  <2>2. QED
    BY <1>4, <1>6, <2>1 DEF vars
<1>7. CASE Send
  <2>1. /\ sent' = sent + 1 /\ sent' \in Datagram /\ 1 \in Links
        /\ UNCHANGED <<fragments, delivered, lost>>
    BY <1>1, <1>7, SendIs
  <2>2. PICK whole \in Sound(displaced) :
            /\ whole.dg = sent' /\ whole.from = 0 /\ whole.size = Size[sent']
            /\ network' = network \cup (SendRealOut(whole, 1) \X {1})
    BY <1>1, <1>7, SendIs
  <2>3. whole \in Fragment /\ Size[sent'] \in Nat
    BY <2>1, SizeType DEF Sound
  <2> DEFINE pieces == SendRealOut(whole, 1)
  <2>4. /\ \A g \in pieces : g.dg = sent'
        /\ \A b \in Nat : Carries(whole, b) => \E g \in pieces : Carries(g, b)
    BY <2>1, <2>2, <2>3, Pieces, PieceDatagram
  <2>5. network' = network \cup (pieces \X {1})
    BY <2>2
  <2> HIDE DEF pieces
  <2>6. \A d, b : Covered(d, b) => Covered(d, b)'
    BY <1>5, <2>1, <2>5 DEF Covered
  <2>7. ASSUME NEW d, d = sent', NEW b \in 0 .. Size[d] - 1 PROVE Covered(d, b)'
    <3>1. Carries(whole, b) /\ b \in Nat
      BY <2>2, <2>3, <2>7 DEF Carries
    <3>2. PICK g \in pieces : Carries(g, b) /\ g.dg = d
      BY <2>4, <2>7, <3>1
    <3>3. <<g, 1>> \in network'
      BY <2>5
    <3>4. QED
      BY <3>2, <3>3 DEF Covered
  <2>8. ASSUME NEW d \in 1 .. sent', Alone(d)', d \notin lost',
               <<Identification(d), Whole(d)>> \notin delivered'
        PROVE  \A b \in 0 .. Size[d] - 1 : Covered(d, b)'
    <3>1. CASE d = sent'
      BY <2>7, <3>1
    <3>2. CASE d # sent'
      <4>1. d \in 1 .. sent
        BY <1>2, <2>1, <3>2
      <4>2. Alone(d)
        BY <1>3, <2>1, <2>8, <4>1
      <4>3. QED
        BY <2>1, <2>6, <2>8, <4>1, <4>2, CoverKeeps
    <3>3. QED
      BY <3>1, <3>2
  <2>9. QED
    BY <2>8 DEF CoverInv
<1>8. ASSUME NEW pair \in network, NEW f, f = pair[1], NEW k, k = pair[2], Forward(f, k) PROVE CoverInv'
  <2> DEFINE pieces == SendRealOut(f, k + 1)
  <2>1. /\ k + 1 \in Links /\ UNCHANGED <<sent, fragments, delivered, lost>>
        /\ network' = (network \ {<<f, k>>}) \cup (pieces \X {k + 1})
    BY <1>8 DEF Forward, reassembly
  <2>2. f \in Fragment
    BY <1>1, <1>8, CarriedType
  <2>3. /\ \A g \in pieces : g.dg = f.dg
        /\ \A b \in Nat : Carries(f, b) => \E g \in pieces : Carries(g, b)
    BY <2>1, <2>2, Pieces, PieceDatagram
  <2> HIDE DEF pieces
  <2>4. ASSUME NEW d, NEW b \in Nat, Covered(d, b) PROVE Covered(d, b)'
    <3>1. ASSUME NEW p \in network, p[1].dg = d, Carries(p[1], b) PROVE Covered(d, b)'
      <4>1. CASE p = <<f, k>>
        <5>1. PICK g \in pieces : Carries(g, b) /\ g.dg = d
          BY <2>3, <3>1, <4>1
        <5>2. <<g, k + 1>> \in network'
          BY <2>1
        <5>3. QED
          BY <5>1, <5>2 DEF Covered
      <4>2. CASE p # <<f, k>>
        BY <2>1, <3>1, <4>2 DEF Covered
      <4>3. QED
        BY <4>1, <4>2
    <3>2. QED
      BY <1>5, <2>1, <2>4, <3>1 DEF Covered
  <2>5. ASSUME NEW d \in 1 .. sent, Alone(d)', d \notin lost',
               <<Identification(d), Whole(d)>> \notin delivered'
        PROVE  \A b \in 0 .. Size[d] - 1 : Covered(d, b)'
    <3>1. Alone(d) /\ d \in Datagram
      BY <1>3, <2>1, <2>5
    <3>2. Size[d] \in Nat
      BY <3>1, SizeType
    <3>3. QED
      BY <2>1, <2>4, <2>5, <3>1, <3>2 DEF CoverInv
  <2>6. QED
    BY <2>1, <2>5 DEF CoverInv
<1>9. ASSUME NEW pair \in network, NEW f, f = pair[1], NEW k, k = pair[2], Lose(f, k) PROVE CoverInv'
  <2>1. /\ UNCHANGED <<sent, fragments, delivered>>
        /\ network' = network \ {<<f, k>>} /\ lost' = lost \cup {f.dg}
    BY <1>9 DEF Lose, reassembly
  <2>2. ASSUME NEW d, d \notin lost', NEW b, Covered(d, b) PROVE Covered(d, b)'
    BY <1>5, <2>1, <2>2 DEF Covered
  <2>3. QED
    BY <1>4, <2>1, <2>2
<1>10. ASSUME NEW pair \in network, NEW f, f = pair[1], DeliverWhole(f) PROVE CoverInv'
  <2> DEFINE i == Identification(f.dg)
  <2>1. /\ UNCHANGED <<sent, fragments, lost>> /\ delivered' = delivered \cup {<<i, Bytes(f)>>}
        /\ network' = network \ {<<f, Len(Room)>>} \/ network' = network
        /\ ~ f.more /\ f.offset = 0
    BY <1>10 DEF DeliverWhole, Arrives, reassembly
  <2>2. \A d \in SentAs(i) : Alone(d) => Bytes(f) = Whole(d)
    BY <1>10, <2>1, WholeGood
  <2>3. ASSUME NEW d, d # f.dg, NEW b, Covered(d, b) PROVE Covered(d, b)'
    BY <1>5, <2>1, <2>3 DEF Covered
  <2>4. ASSUME NEW d, d \in SentAs(Identification(d)), Alone(d), d = f.dg
        PROVE  <<Identification(d), Whole(d)>> \in delivered'
    BY <2>1, <2>2, <2>4
  <2>5. QED
    BY <1>4, <2>1, <2>3, <2>4
<1>11. ASSUME NEW pair \in network, NEW f, f = pair[1], ProcessFragment(f) PROVE CoverInv'
  <2> DEFINE i == Identification(f.dg)
  <2>1. PICK q, more : Processed(f, i, q, more)
    BY <1>1, <1>11, ProcessIs
  <2>2. /\ i \in Id
        /\ \A e \in Id \ {i} : Held(e)' = Held(e)
        /\ Held(i)' = {} \/ Held(i)' = Held(i) \cup {f}
    BY <1>1, <1>11, ProcessLists
  <2>3. /\ UNCHANGED <<sent, lost>>
        /\ network' = network \ {<<f, Len(Room)>>} \/ network' = network
    BY <2>1 DEF Processed
  <2>4. ASSUME NEW d, Identification(d) \in Id \ {i}, NEW b, Covered(d, b) PROVE Covered(d, b)'
    <3>1. f.dg # d
      BY <2>4
    <3>2. QED
      BY <2>2, <2>3, <2>4, <3>1 DEF Covered
  <2>5. CASE IsEntire(q, more) /\ delivered' = delivered \cup {<<i, GetPacket(q)>>}
    <3>1. /\ q \in Seq(Fragment) /\ more = q[Len(q)].more
          /\ {q[j] : j \in DOMAIN q} = Held(i) \cup {f}
          /\ \A j \in DOMAIN q : q[j] \in Sound(displaced)
      BY <2>1 DEF Processed
    <3>2. f.dg \in SentAs(i)
      BY <1>1, <1>11 DEF IdInv, SentAs
    <3>3. \A j \in DOMAIN q : q[j].dg \in SentAs(i)
      <4> HIDE DEF i
      <4>1. QED
        BY <1>1, <2>2, <3>1, <3>2 DEF IdInv
    <3>4. \A d \in SentAs(i) : Alone(d) => GetPacket(q) = Whole(d)
      <4> HIDE DEF i
      <4>1. QED
        BY <2>2, <2>5, <3>1, <3>3, PacketGood
    <3>5. ASSUME NEW d, d \in SentAs(Identification(d)), Alone(d), Identification(d) = i
          PROVE  <<Identification(d), Whole(d)>> \in delivered'
      BY <2>5, <3>4, <3>5
    <3> HIDE DEF i
    <3>6. QED
      BY <1>4, <2>3, <2>4, <2>5, <3>5
  <2>6. CASE /\ ~ IsEntire(q, more)
             /\ fragments' = [fragments EXCEPT ![i] = q]
             /\ UNCHANGED delivered
    <3>1. Held(i)' = Held(i) \cup {f}
      <4>1. fragments'[i] = q
        BY <1>1, <2>2, <2>6 DEF SoundInv
      <4>2. {q[j] : j \in DOMAIN q} = Held(i) \cup {f}
        BY <2>1 DEF Processed
      <4> HIDE DEF i
      <4>3. Held(i)' = {q[j] : j \in DOMAIN q}
        BY <4>1 DEF Held
      <4>4. QED
        BY <4>2, <4>3
    <3>2. ASSUME NEW d, Identification(d) = i, NEW b, Covered(d, b) PROVE Covered(d, b)'
      <4>1. CASE \E g \in Held(Identification(d)) : g.dg = d /\ Carries(g, b)
        BY <3>1, <3>2, <4>1 DEF Covered
      <4>2. CASE \E p \in network : p[1].dg = d /\ Carries(p[1], b)
        <5>1. PICK p \in network : p[1].dg = d /\ Carries(p[1], b)
          BY <4>2
        <5>2. CASE p = <<f, Len(Room)>>
          BY <3>1, <3>2, <5>1, <5>2 DEF Covered
        <5>3. CASE p # <<f, Len(Room)>>
          BY <2>3, <5>1, <5>3 DEF Covered
        <5>4. QED
          BY <5>2, <5>3
      <4>3. QED
        BY <3>2, <4>1, <4>2 DEF Covered
    <3> HIDE DEF i
    <3>3. QED
      BY <1>4, <2>3, <2>4, <2>6, <3>2
  <2>7. QED
    BY <2>1, <2>5, <2>6 DEF Processed
<1>12. ASSUME NEW i \in Id, HandleFragmentsTimeout(i) PROVE CoverInv'
  <2>1. /\ UNCHANGED <<sent, network, delivered>>
        /\ lost' = lost \cup {g.dg : g \in Held(i)}
    BY <1>12 DEF HandleFragmentsTimeout, Held
  <2>2. \A e \in Id \ {i} : Held(e)' = Held(e)
    BY <1>1, <1>12, TimeoutLists
  <2>3. ASSUME NEW d, Identification(d) \in Id, d \notin lost', NEW b, Covered(d, b) PROVE Covered(d, b)'
    BY <2>1, <2>2, <2>3 DEF Covered
  <2>4. QED
    BY <1>4, <2>1, <2>3
<1>13. QED
  BY <1>6, <1>7, <1>8, <1>9, <1>10, <1>11, <1>12 DEF Next

-----------------------------------------------------------------------------
(* A list of fragments of one datagram.                                    *)
OneDatagram(q, d) ==
    /\ q \in Seq(Fragment) /\ Sorted(q)
    /\ \A j \in DOMAIN q : q[j].dg = d /\ InPlace(q[j]) /\ q[j].from + q[j].size <= Size[d]
    /\ \A a, b \in DOMAIN q : q[a] = q[b] \/ Apart(q[a], q[b])

LEMMA OneType ==
    ASSUME NEW d, NEW q, OneDatagram(q, d)
    PROVE  /\ Len(q) \in Nat /\ DOMAIN q = 1 .. Len(q)
           /\ \A j \in 1 .. Len(q) :
                /\ q[j].dg = d /\ q[j].offset = q[j].from /\ q[j].from \in Nat /\ q[j].size \in Nat \ {0}
                /\ q[j].more <=> q[j].from + q[j].size < Size[d]
                /\ q[j].from + q[j].size <= Size[d]
                /\ End(q[j]) = q[j].from + q[j].size /\ End(q[j]) \in Nat
<1>1. Len(q) \in Nat /\ DOMAIN q = 1 .. Len(q)
  BY ListType DEF OneDatagram
<1>2. ASSUME NEW j \in 1 .. Len(q)
      PROVE  q[j].from \in Nat /\ q[j].size \in Nat \ {0} /\ InPlace(q[j]) /\ q[j].dg = d
             /\ q[j].from + q[j].size <= Size[d]
  BY <1>1, ListType DEF OneDatagram
<1>3. QED
  BY <1>1, <1>2 DEF InPlace, End

(* The fragment that begins later does not end earlier.                    *)
LEMMA EndsInOrder ==
    ASSUME NEW d, NEW q, OneDatagram(q, d), NEW a \in DOMAIN q, NEW b \in DOMAIN q, a <= b
    PROVE  End(q[a]) <= End(q[b])
<1>1. a \in 1 .. Len(q) /\ b \in 1 .. Len(q)
  BY OneType
<1>2. q[a].from <= q[b].from
  <2>1. CASE a = b
    BY <1>1, <2>1, OneType
  <2>2. CASE a < b
    <3>1. q[a].offset <= q[b].offset
      BY <2>2 DEF OneDatagram, Sorted
    <3>2. QED
      BY <1>1, <3>1, OneType
  <2>3. QED
    BY <1>1, <2>1, <2>2
<1>3. CASE q[a] = q[b]
  BY <1>1, <1>3, OneType
<1>4. CASE Apart(q[a], q[b])
  BY <1>1, <1>2, <1>4, OneType DEF Apart
<1>5. QED
  BY <1>3, <1>4 DEF OneDatagram

(* If they carry all bytes the list is entire.                             *)
LEMMA CoveredIsEntire ==
    ASSUME NEW d \in Datagram, NEW q, OneDatagram(q, d),
           \A b \in 0 .. Size[d] - 1 : \E j \in DOMAIN q : Carries(q[j], b)
    PROVE  IsEntire(q, q[Len(q)].more)
<1>1. Len(q) \in Nat /\ DOMAIN q = 1 .. Len(q) /\ Size[d] \in Nat \ {0}
  BY OneType, SizeType
<1>2. PICK j \in 1 .. Len(q) : Carries(q[j], Size[d] - 1)
  <2>1. Size[d] - 1 \in 0 .. Size[d] - 1
    BY <1>1
  <2>2. QED
    BY <1>1, <2>1
<1>3. Len(q) \in 1 .. Len(q)
  BY <1>1
<1>4. ~ q[Len(q)].more
  <2>1. End(q[j]) = Size[d]
    BY <1>1, <1>2, OneType DEF Carries
  <2>2. j <= Len(q)
    BY <1>1
  <2>3. End(q[j]) <= End(q[Len(q)])
    BY <1>1, <1>3, <2>2, EndsInOrder
  <2>4. QED
    BY <1>1, <1>3, <2>1, <2>3, OneType
<1>5. ASSUME NEW l \in 1 .. Len(q), q[l].offset # 0
      PROVE  \E i \in 1 .. l - 1 : End(q[i]) >= q[l].offset
  <2>1. q[l].offset = q[l].from /\ q[l].from \in Nat /\ q[l].size \in Nat \ {0} /\ q[l].from + q[l].size <= Size[d]
    BY OneType
  <2>2. q[l].from - 1 \in 0 .. Size[d] - 1
    BY <1>1, <1>5, <2>1
  <2>3. PICK i \in 1 .. Len(q) : Carries(q[i], q[l].from - 1)
    BY <1>1, <2>2
  <2>4. q[i].offset = q[i].from /\ q[i].from \in Nat /\ q[i].size \in Nat /\ End(q[i]) = q[i].from + q[i].size
    BY OneType
  <2>5. q[i].offset < q[l].offset /\ End(q[i]) >= q[l].offset
    BY <2>1, <2>3, <2>4 DEF Carries
  <2>6. i < l
    <3>1. CASE l < i
      <4>1. q[l].offset <= q[i].offset
        BY <1>1, <3>1 DEF OneDatagram, Sorted
      <4>2. QED
        BY <2>1, <2>4, <2>5, <4>1
    <3>2. CASE l = i
      BY <2>1, <2>5, <3>2
    <3>3. QED
      BY <3>1, <3>2
  <2>7. QED
    BY <2>5, <2>6
<1>6. q # << >>
  BY <1>2, EmptySeq
<1>7. QED
  BY <1>1, <1>4, <1>5, <1>6 DEF IsEntire

(* What is collected under the identification of a datagram alone.         *)
LEMMA AloneList ==
    ASSUME CollectInv, ApartInv, NEW d \in 1 .. sent, Alone(d), NEW i, i = Identification(d)
    PROVE  d \in Datagram /\ i \in Id /\ OneDatagram(fragments[i], d)
<1>1. SoundInv /\ IdInv /\ OrderInv
  BY DEF CollectInv
<1>2. d \in Datagram /\ d \in SentAs(i)
  BY <1>1, FragmentationAssumption, LenProperties DEF SoundInv, SentAs, Datagram
<1>3. i \in Id /\ SentAs(i) = {d} /\ d \notin displaced
  BY <1>2, IdType DEF Alone
<1>4. fragments[i] \in Seq(Fragment) /\ Sorted(fragments[i])
  BY <1>1, <1>3, CarriedType DEF OrderInv
<1>5. ASSUME NEW j \in DOMAIN fragments[i]
      PROVE  /\ fragments[i][j].dg = d /\ InPlace(fragments[i][j])
             /\ fragments[i][j].from + fragments[i][j].size <= Size[d]
  <2>1. fragments[i][j] \in Held(i) /\ fragments[i][j] \in Sound(displaced)
    BY <1>1, <1>3, CarriedType DEF Held
  <2>2. fragments[i][j].dg = d
    BY <1>1, <1>3, <2>1 DEF IdInv
  <2>3. QED
    BY <1>3, <2>1, <2>2 DEF Sound
<1>6. \A a, b \in DOMAIN fragments[i] : fragments[i][a] = fragments[i][b] \/ Apart(fragments[i][a], fragments[i][b])
  BY <1>3 DEF ApartInv, Held
<1>7. QED
  BY <1>2, <1>3, <1>4, <1>5, <1>6 DEF OneDatagram

LEMMA HeldBackNothing ==
    ASSUME CollectInv, ApartInv, CoverInv
    PROVE  NothingHeldBack
<1>1. SUFFICES ASSUME NEW d \in 1 .. sent, Alone(d), d \notin lost, \A pair \in network : pair[1].dg # d,
                      <<Identification(d), Whole(d)>> \notin delivered
               PROVE  FALSE
  BY DEF NothingHeldBack
<1> DEFINE i == Identification(d)
           q == fragments[i]
<1>2. d \in Datagram /\ i \in Id /\ OneDatagram(q, d)
  BY <1>1, AloneList
<1>3. ASSUME NEW b \in 0 .. Size[d] - 1 PROVE \E j \in DOMAIN q : Carries(q[j], b)
  <2>1. Covered(d, b)
    BY <1>1 DEF CoverInv
  <2>2. QED
    BY <1>1, <2>1 DEF Covered, Held
<1>4. IsEntire(q, q[Len(q)].more)
  <2> HIDE DEF q
  <2>1. QED
    BY <1>2, <1>3, CoveredIsEntire
<1>5. moreFragment[i] = q[Len(q)].more
  BY <1>2, <1>4 DEF IsEntire, CollectInv, OrderInv
<1>6. QED
  BY <1>2, <1>4, <1>5 DEF CollectInv, NotEntire

(* The reassembly hands up every datagram that is used alone and of which  *)
(* nothing was lost, as soon as its last fragment has come, in whatever    *)
(* order and however often the fragments came: none is held back.          *)
THEOREM HeldBackCorrect == Spec => []NothingHeldBack
<1>1. Init => ApartInv /\ CoverInv
  BY DEF Init, ApartInv, CoverInv, Held
<1>2. CollectInv /\ TypeOK /\ ApartInv /\ [Next]_vars => ApartInv'
  BY ApartInductive
<1>3. CollectInv /\ TypeOK /\ CoverInv /\ [Next]_vars => CoverInv'
  BY CoverInductive
<1>4. CollectInv /\ ApartInv /\ CoverInv => NothingHeldBack
  BY HeldBackNothing
<1>5. Init => CollectInv
  BY CollectInitial
<1>6. CollectInv /\ TypeOK /\ [Next]_vars => CollectInv'
  BY CollectInductive
<1>7. QED
  BY <1>1, <1>2, <1>3, <1>4, <1>5, <1>6, TypeCorrect, PTL DEF Spec

-----------------------------------------------------------------------------
(* GetPartialPacket.                                                       *)

(* The size so far is the end of one of the fragments.                     *)
LEMMA PartialIsEnd ==
    ASSUME NEW q \in Seq(Fragment)
    PROVE  PartialLength(q) = 0 \/ \E j \in 1 .. Len(q) : PartialLength(q) = End(q[j])
<1> DEFINE N == Len(q)
<1>1. N \in Nat
  BY ListType
<1>2. PICK t \in [0 .. N -> Nat] :
          /\ t[0] = 0
          /\ t[N] = PartialLength(q)
          /\ \A k \in 1 .. N : t[k] = PartialStep(t[k - 1], q[k])
  BY PartialTrace
<1> DEFINE T == {k \in Nat : k <= N => t[k] = 0 \/ \E j \in 1 .. k : t[k] = End(q[j])}
<1>3. 0 \in T
  BY <1>2
<1>4. ASSUME NEW k \in T PROVE k + 1 \in T
  <2> SUFFICES ASSUME k + 1 <= N PROVE t[k + 1] = 0 \/ \E j \in 1 .. k + 1 : t[k + 1] = End(q[j])
    OBVIOUS
  <2>1. k \in Nat /\ k + 1 \in 1 .. N /\ (k + 1) - 1 = k
    BY <1>1
  <2>2. t[k + 1] = t[k] \/ t[k + 1] = End(q[k + 1])
    BY <1>2, <2>1 DEF PartialStep
  <2>3. t[k] = 0 \/ \E j \in 1 .. k : t[k] = End(q[j])
    BY <1>1, <2>1
  <2>4. (\A j \in 1 .. k : j \in 1 .. k + 1) /\ k + 1 \in 1 .. k + 1
    BY <2>1
  <2>5. QED
    BY <2>2, <2>3, <2>4
<1>5. T = Nat
  <2>1. T \in SUBSET Nat
    OBVIOUS
  <2> HIDE DEF T
  <2>2. QED
    BY <1>3, <1>4, <2>1, SetInduction
<1>6. t[N] = 0 \/ \E j \in 1 .. N : t[N] = End(q[j])
  BY <1>1, <1>5
<1>7. QED
  BY <1>2, <1>6

(* In a list of fragments of one datagram that are where they belong, none *)
(* ends before an earlier one does: they overlap only if one is a          *)
(* repetition of the other.                                                *)
LEMMA UnmixedEnds ==
    ASSUME CollectInv, ApartInv, NEW i \in Id,
           \A j, k \in DOMAIN fragments[i] : fragments[i][j].dg = fragments[i][k].dg,
           \A j \in DOMAIN fragments[i] : fragments[i][j].offset = fragments[i][j].from
    PROVE  /\ fragments[i] \in Seq(Fragment)
           /\ \A a, b \in DOMAIN fragments[i] : a <= b => End(fragments[i][a]) <= End(fragments[i][b])
<1> DEFINE q == fragments[i]
<1>1. q \in Seq(Fragment) /\ Sorted(q)
  BY CarriedType DEF CollectInv, OrderInv
<1>2. \A a, b \in DOMAIN q : q[a] = q[b] \/ Apart(q[a], q[b])
  BY DEF ApartInv, Held
<1>3. /\ \A j, k \in DOMAIN q : q[j].dg = q[k].dg
      /\ \A j \in DOMAIN q : q[j].offset = q[j].from
  OBVIOUS
<1> HIDE DEF q
<1>4. ASSUME NEW j \in DOMAIN q
      PROVE  /\ j \in Int /\ q[j].from \in Nat /\ q[j].size \in Nat \ {0}
             /\ End(q[j]) = q[j].from + q[j].size
  <2>1. j \in Int /\ q[j] \in Fragment
    BY <1>1, ListType
  <2>2. q[j].from \in Nat /\ q[j].size \in Nat \ {0}
    BY <2>1 DEF Fragment
  <2>3. QED
    BY <1>3, <2>1, <2>2 DEF End
<1>5. ASSUME NEW a \in DOMAIN q, NEW b \in DOMAIN q, a <= b
      PROVE  End(q[a]) <= End(q[b])
  <2>1. CASE q[a] = q[b]
    BY <1>4, <2>1
  <2>2. CASE q[a] # q[b]
    <3>1. a < b
      <4>1. a # b
        BY <2>2
      <4>2. a \in Int /\ b \in Int
        BY <1>4
      <4>3. QED
        BY <1>5, <4>1, <4>2
    <3>2. q[a].from <= q[b].from
      BY <1>1, <1>3, <3>1 DEF Sorted
    <3>3. Apart(q[a], q[b]) /\ q[a].dg = q[b].dg
      BY <1>2, <1>3, <2>2
    <3>4. QED
      BY <1>4, <3>2, <3>3 DEF Apart
  <2>3. QED
    BY <2>1, <2>2
<1>6. QED
  BY <1>1, <1>5 DEF q

LEMMA WrapsIfMixed ==
    ASSUME CollectInv, ApartInv
    PROVE  SizeWrapsOnlyIfMixed
<1>1. SUFFICES ASSUME NEW i \in Id, NEW j \in DOMAIN fragments[i],
                      \A a, b \in DOMAIN fragments[i] : fragments[i][a].dg = fragments[i][b].dg,
                      \A a \in DOMAIN fragments[i] : fragments[i][a].offset = fragments[i][a].from
               PROVE  ~ (End(fragments[i][j]) < PartialLength(SubSeq(fragments[i], 1, j - 1)))
  BY DEF SizeWrapsOnlyIfMixed, SizeWraps
<1> DEFINE q == fragments[i]
           front == SubSeq(q, 1, j - 1)
<1>2. /\ q \in Seq(Fragment)
      /\ \A a, b \in DOMAIN q : a <= b => End(q[a]) <= End(q[b])
  BY <1>1, UnmixedEnds
<1> HIDE DEF q
<1>3. /\ Len(q) \in Nat /\ DOMAIN q = 1 .. Len(q) /\ j \in 1 .. Len(q)
      /\ \A l \in 1 .. Len(q) : q[l] \in Fragment /\ End(q[l]) \in Nat
  <2>1. /\ Len(q) \in Nat /\ DOMAIN q = 1 .. Len(q)
        /\ \A l \in 1 .. Len(q) : q[l] \in Fragment
    BY <1>2, ListType
  <2>2. j \in DOMAIN q
    BY <1>1 DEF q
  <2>3. \A l \in 1 .. Len(q) : End(q[l]) \in Nat
    BY <2>1 DEF End, Fragment
  <2>4. QED
    BY <2>1, <2>2, <2>3
<1>4. front \in Seq(Fragment) /\ Len(front) = j - 1 /\ \A l \in 1 .. j - 1 : front[l] = q[l]
  <2>1. \A l \in 1 .. j - 1 : q[l] \in Fragment
    BY <1>3
  <2>2. j - 1 \in Nat
    BY <1>3
  <2>3. QED
    BY <2>1, <2>2, SubSeqProperties
<1> HIDE DEF front
<1>5. PartialLength(front) = 0 \/ \E l \in 1 .. j - 1 : PartialLength(front) = End(q[l])
  BY <1>4, PartialIsEnd
<1>6. ASSUME NEW l \in 1 .. j - 1 PROVE End(q[l]) <= End(q[j]) /\ End(q[l]) \in Nat
  BY <1>2, <1>3
<1>7. ~ (End(q[j]) < PartialLength(front))
  BY <1>3, <1>5, <1>6
<1>8. QED
  BY <1>7 DEF front, q

(* When the timer expires, the subtraction by which GetPartialPacket finds *)
(* the rest of an overlapping fragment wraps around only in a list that    *)
(* mixes datagrams or holds a fragment with a wrong offset: neither loss,  *)
(* nor order, nor repetition can bring it about.                           *)
THEOREM SizeWrapsCorrect == Spec => []SizeWrapsOnlyIfMixed
<1>1. Init => ApartInv
  BY DEF Init, ApartInv, Held
<1>2. CollectInv /\ TypeOK /\ ApartInv /\ [Next]_vars => ApartInv'
  BY ApartInductive
<1>3. CollectInv /\ ApartInv => SizeWrapsOnlyIfMixed
  BY WrapsIfMixed
<1>4. Init => CollectInv
  BY CollectInitial
<1>5. CollectInv /\ TypeOK /\ [Next]_vars => CollectInv'
  BY CollectInductive
<1>6. QED
  BY <1>1, <1>2, <1>3, <1>4, <1>5, TypeCorrect, PTL DEF Spec

=============================================================================
