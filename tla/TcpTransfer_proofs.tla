------------------------- MODULE TcpTransfer_proofs -------------------------
(***************************************************************************)
(* Proofs about TcpTransfer: whatever is written, however the segments and *)
(* the acknowledgments are lost and reordered, the bytes that are read are *)
(* those that were written, in order, and the receive buffer is bounded.   *)
(***************************************************************************)
EXTENDS TcpTransfer, FoldTheorems, FiniteSetTheorems

(* The sequence number after the last byte of the send buffer.             *)
EndOf(s) == s.head + Len(s.data)

(* The bytes of q are those of the stream from n.                          *)
Consecutive(n, q) == \A i \in DOMAIN q : q[i] = n + i - 1

-----------------------------------------------------------------------------
(* Folds, as the values they take one after the other.                     *)

Total(q) == FoldLeft(LAMBDA sum, size : sum + size, 0, q)

Extended(r, end, first) == IF first = end THEN end + Len(r.data[first]) ELSE end

Enlarged(r, covered, sum, first) ==
    IF first \in covered THEN sum + Len(r.data[first]) ELSE sum

(* The writes are added up one after the other.                             *)
LEMMA SumTrace ==
    ASSUME NEW q \in Seq(Nat),
           NEW S, 0 \in S, \A k \in 1 .. Len(q) : \A p \in S : p + q[k] \in S
    PROVE  \E t \in [0 .. Len(q) -> S] :
               /\ t[0] = 0
               /\ \A k \in 1 .. Len(q) : t[k] = t[k - 1] + q[k]
               /\ t[Len(q)] = Total(q)
<1> DEFINE N == Len(q)
           base == 0
           Value(iter, s) == IF s = {} THEN base ELSE iter[s \ {Max(s)}] + q[Max(s)]
           P(iter) == iter = [s \in SUBSET (DOMAIN q) |-> Value(iter, s)]
           it == CHOOSE iter : P(iter)
           step == [k \in 1 .. N |-> [p \in S |-> p + q[k]]]
<1>1. N \in Nat /\ DOMAIN q = 1 .. N /\ base \in S /\ \A k \in 1 .. N : q[k] = q[k]
  OBVIOUS
<1>2. Total(q) = it[1 .. N]
  <2>1. Total(q) = it[DOMAIN q]
    BY Zenon DEF Total, FoldLeft, MapThenFoldSet
  <2> HIDE DEF it, N
  <2>2. QED
    BY <1>1, <2>1
<1>3. step \in [1 .. N -> [S -> S]]
  OBVIOUS
<1> HIDE DEF base
<1>4. PICK iter : IsIter(iter, N, S, base, step)
  <2> HIDE DEF N, step
  <2>1. QED
    BY <1>1, <1>3, IterExists
<1>5. P(iter)
  <2>1. ASSUME NEW s \in SUBSET (1 .. N) PROVE iter[s] = Value(iter, s)
    <3>1. CASE s = {}
      BY <3>1, <1>4 DEF IsIter
    <3>2. CASE s # {}
      <4>1. iter[s \ {Max(s)}] \in S /\ iter[s] = step[Max(s)][iter[s \ {Max(s)}]]
        <5> HIDE DEF step, N
        <5>1. QED
          BY <3>2, <1>4 DEF IsIter
      <4>2. Max(s) \in 1 .. N
        BY <1>1, <3>2, MaxInSet
      <4>3. q[Max(s)] = q[Max(s)]
        BY <1>1, <4>2
      <4>4. QED
        BY <4>1, <4>2, <4>3, <3>2
    <3>3. QED
      BY <3>1, <3>2
  <2>2. iter = [s \in SUBSET (1 .. N) |-> iter[s]]
    BY <1>4 DEF IsIter
  <2> HIDE DEF N, Value
  <2>3. QED
    BY <1>1, <2>1, <2>2
<1>6. P(it)
  BY <1>5, Zenon
<1>7. Folds(it, N, S, base, step)
  <2>1. ASSUME NEW s \in SUBSET (1 .. N) PROVE it[s] = Value(it, s)
    <3> HIDE DEF it, N, Value
    <3>1. QED
      BY <1>1, <1>6
  <2> HIDE DEF it
  <2>2. ASSUME NEW s \in SUBSET (1 .. N), s # {}, it[s \ {Max(s)}] \in S
        PROVE  it[s] = step[Max(s)][it[s \ {Max(s)}]]
    <3>1. Max(s) \in 1 .. N
      BY <1>1, <2>2, MaxInSet
    <3>2. q[Max(s)] = q[Max(s)]
      BY <1>1, <3>1
    <3>3. QED
      BY <2>1, <2>2, <3>1, <3>2
  <2>3. it[{}] = base
    BY <2>1
  <2> HIDE DEF step, N
  <2>4. QED
    BY <2>2, <2>3 DEF Folds
<1>8. PICK t : IsTrace(t, N, S, base, step) /\ t[N] = it[1 .. N]
  <2> HIDE DEF N, it, step
  <2>1. N \in Nat /\ base \in S
    BY <1>1, Zenon
  <2> HIDE <1>1
  <2>2. \E t : IsTrace(t, N, S, base, step) /\ t[N] = it[1 .. N]
    BY <2>1, <1>3, <1>7, FoldTrace
  <2>3. QED
    BY <2>2, Zenon
<1>9. t \in [0 .. N -> S] /\ t[0] = base
  BY <1>8 DEF IsTrace
<1>10. ASSUME NEW k \in 1 .. N PROVE t[k] = t[k - 1] + q[k]
  <2>1. t[k] = step[k][t[k - 1]]
    <3> HIDE DEF step, N
    <3>1. QED
      BY <1>8 DEF IsTrace
  <2>2. k - 1 \in 0 .. N
    BY <1>1
  <2>3. t[k - 1] \in S
    BY <1>9, <2>2
  <2>4. QED
    BY <2>1, <2>3
<1>11. QED
  <2>1. t[N] = Total(q)
    BY <1>2, <1>8, Zenon
  <2>2. QED
    BY <1>9, <1>10, <2>1, Zenon DEF base

(* The blocks are compared with the segment one after the other.            *)
LEMMA TrimmedTrace ==
    ASSUME NEW r, NEW M, Length \in Nat, r.data \in [1 .. Length -> M], NEW seg,
           NEW S, InWindow(r, seg) \in S, \A k \in 1 .. Length : \A p \in S : TrimmedBy(r, p, k) \in S
    PROVE  \E t \in [0 .. Length -> S] :
               /\ t[0] = InWindow(r, seg)
               /\ \A k \in 1 .. Length : t[k] = TrimmedBy(r, t[k - 1], k)
               /\ t[Length] = Trimmed(r, seg)
<1> DEFINE N == Length
           q == [i \in DOMAIN r.data |-> i]
           base == InWindow(r, seg)
           Value(iter, s) == IF s = {} THEN base ELSE TrimmedBy(r, iter[s \ {Max(s)}], q[Max(s)])
           P(iter) == iter = [s \in SUBSET (DOMAIN q) |-> Value(iter, s)]
           it == CHOOSE iter : P(iter)
           step == [k \in 1 .. N |-> [p \in S |-> TrimmedBy(r, p, k)]]
<1>1. N \in Nat /\ DOMAIN q = 1 .. N /\ base \in S /\ \A k \in 1 .. N : q[k] = k
  OBVIOUS
<1>2. Trimmed(r, seg) = it[1 .. N]
  <2>1. Trimmed(r, seg) = it[DOMAIN q]
    BY Zenon DEF Trimmed, FoldLeftDomain, FoldLeft, MapThenFoldSet
  <2> HIDE DEF it, q, N
  <2>2. QED
    BY <1>1, <2>1
<1>3. step \in [1 .. N -> [S -> S]]
  OBVIOUS
<1> HIDE DEF base, q
<1>4. PICK iter : IsIter(iter, N, S, base, step)
  <2> HIDE DEF N, step
  <2>1. QED
    BY <1>1, <1>3, IterExists
<1>5. P(iter)
  <2>1. ASSUME NEW s \in SUBSET (1 .. N) PROVE iter[s] = Value(iter, s)
    <3>1. CASE s = {}
      BY <3>1, <1>4 DEF IsIter
    <3>2. CASE s # {}
      <4>1. iter[s \ {Max(s)}] \in S /\ iter[s] = step[Max(s)][iter[s \ {Max(s)}]]
        <5> HIDE DEF step, N
        <5>1. QED
          BY <3>2, <1>4 DEF IsIter
      <4>2. Max(s) \in 1 .. N
        BY <1>1, <3>2, MaxInSet
      <4>3. q[Max(s)] = Max(s)
        BY <1>1, <4>2
      <4>4. QED
        BY <4>1, <4>2, <4>3, <3>2
    <3>3. QED
      BY <3>1, <3>2
  <2>2. iter = [s \in SUBSET (1 .. N) |-> iter[s]]
    BY <1>4 DEF IsIter
  <2> HIDE DEF N, Value
  <2>3. QED
    BY <1>1, <2>1, <2>2
<1>6. P(it)
  BY <1>5, Zenon
<1>7. Folds(it, N, S, base, step)
  <2>1. ASSUME NEW s \in SUBSET (1 .. N) PROVE it[s] = Value(it, s)
    <3> HIDE DEF it, N, Value
    <3>1. QED
      BY <1>1, <1>6
  <2> HIDE DEF it
  <2>2. ASSUME NEW s \in SUBSET (1 .. N), s # {}, it[s \ {Max(s)}] \in S
        PROVE  it[s] = step[Max(s)][it[s \ {Max(s)}]]
    <3>1. Max(s) \in 1 .. N
      BY <1>1, <2>2, MaxInSet
    <3>2. q[Max(s)] = Max(s)
      BY <1>1, <3>1
    <3>3. QED
      BY <2>1, <2>2, <3>1, <3>2
  <2>3. it[{}] = base
    BY <2>1
  <2> HIDE DEF step, N
  <2>4. QED
    BY <2>2, <2>3 DEF Folds
<1>8. PICK t : IsTrace(t, N, S, base, step) /\ t[N] = it[1 .. N]
  <2> HIDE DEF N, it, step
  <2>1. N \in Nat /\ base \in S
    BY <1>1, Zenon
  <2> HIDE <1>1
  <2>2. \E t : IsTrace(t, N, S, base, step) /\ t[N] = it[1 .. N]
    BY <2>1, <1>3, <1>7, FoldTrace
  <2>3. QED
    BY <2>2, Zenon
<1>9. t \in [0 .. N -> S] /\ t[0] = base
  BY <1>8 DEF IsTrace
<1>10. ASSUME NEW k \in 1 .. N PROVE t[k] = TrimmedBy(r, t[k - 1], k)
  <2>1. t[k] = step[k][t[k - 1]]
    <3> HIDE DEF step, N
    <3>1. QED
      BY <1>8 DEF IsTrace
  <2>2. k - 1 \in 0 .. N
    BY <1>1
  <2>3. t[k - 1] \in S
    BY <1>9, <2>2
  <2>4. QED
    BY <2>1, <2>3
<1>11. QED
  <2>1. t[N] = Trimmed(r, seg)
    BY <1>2, <1>8, Zenon
  <2>2. QED
    BY <1>9, <1>10, <2>1, Zenon DEF base

(* So they are in the search for the next gap,                              *)
LEMMA ContiguousTrace ==
    ASSUME NEW r, NEW M, Length \in Nat, r.data \in [1 .. Length -> M], NEW n,
           NEW S, n \in S, \A k \in 1 .. Length : \A p \in S : Extended(r, p, k) \in S
    PROVE  \E t \in [0 .. Length -> S] :
               /\ t[0] = n
               /\ \A k \in 1 .. Length : t[k] = Extended(r, t[k - 1], k)
               /\ t[Length] = Contiguous(r, n)
<1> DEFINE N == Length
           q == [i \in DOMAIN r.data |-> i]
           base == n
           Value(iter, s) == IF s = {} THEN base ELSE Extended(r, iter[s \ {Max(s)}], q[Max(s)])
           P(iter) == iter = [s \in SUBSET (DOMAIN q) |-> Value(iter, s)]
           it == CHOOSE iter : P(iter)
           step == [k \in 1 .. N |-> [p \in S |-> Extended(r, p, k)]]
<1>1. N \in Nat /\ DOMAIN q = 1 .. N /\ base \in S /\ \A k \in 1 .. N : q[k] = k
  OBVIOUS
<1>2. Contiguous(r, n) = it[1 .. N]
  <2>1. Contiguous(r, n) = it[DOMAIN q]
    BY Zenon DEF Contiguous, FoldLeftDomain, Extended, FoldLeft, MapThenFoldSet
  <2> HIDE DEF it, q, N
  <2>2. QED
    BY <1>1, <2>1
<1>3. step \in [1 .. N -> [S -> S]]
  OBVIOUS
<1> HIDE DEF base, q
<1>4. PICK iter : IsIter(iter, N, S, base, step)
  <2> HIDE DEF N, step
  <2>1. QED
    BY <1>1, <1>3, IterExists
<1>5. P(iter)
  <2>1. ASSUME NEW s \in SUBSET (1 .. N) PROVE iter[s] = Value(iter, s)
    <3>1. CASE s = {}
      BY <3>1, <1>4 DEF IsIter
    <3>2. CASE s # {}
      <4>1. iter[s \ {Max(s)}] \in S /\ iter[s] = step[Max(s)][iter[s \ {Max(s)}]]
        <5> HIDE DEF step, N
        <5>1. QED
          BY <3>2, <1>4 DEF IsIter
      <4>2. Max(s) \in 1 .. N
        BY <1>1, <3>2, MaxInSet
      <4>3. q[Max(s)] = Max(s)
        BY <1>1, <4>2
      <4>4. QED
        BY <4>1, <4>2, <4>3, <3>2
    <3>3. QED
      BY <3>1, <3>2
  <2>2. iter = [s \in SUBSET (1 .. N) |-> iter[s]]
    BY <1>4 DEF IsIter
  <2> HIDE DEF N, Value
  <2>3. QED
    BY <1>1, <2>1, <2>2
<1>6. P(it)
  BY <1>5, Zenon
<1>7. Folds(it, N, S, base, step)
  <2>1. ASSUME NEW s \in SUBSET (1 .. N) PROVE it[s] = Value(it, s)
    <3> HIDE DEF it, N, Value
    <3>1. QED
      BY <1>1, <1>6
  <2> HIDE DEF it
  <2>2. ASSUME NEW s \in SUBSET (1 .. N), s # {}, it[s \ {Max(s)}] \in S
        PROVE  it[s] = step[Max(s)][it[s \ {Max(s)}]]
    <3>1. Max(s) \in 1 .. N
      BY <1>1, <2>2, MaxInSet
    <3>2. q[Max(s)] = Max(s)
      BY <1>1, <3>1
    <3>3. QED
      BY <2>1, <2>2, <3>1, <3>2
  <2>3. it[{}] = base
    BY <2>1
  <2> HIDE DEF step, N
  <2>4. QED
    BY <2>2, <2>3 DEF Folds
<1>8. PICK t : IsTrace(t, N, S, base, step) /\ t[N] = it[1 .. N]
  <2> HIDE DEF N, it, step
  <2>1. N \in Nat /\ base \in S
    BY <1>1, Zenon
  <2> HIDE <1>1
  <2>2. \E t : IsTrace(t, N, S, base, step) /\ t[N] = it[1 .. N]
    BY <2>1, <1>3, <1>7, FoldTrace
  <2>3. QED
    BY <2>2, Zenon
<1>9. t \in [0 .. N -> S] /\ t[0] = base
  BY <1>8 DEF IsTrace
<1>10. ASSUME NEW k \in 1 .. N PROVE t[k] = Extended(r, t[k - 1], k)
  <2>1. t[k] = step[k][t[k - 1]]
    <3> HIDE DEF step, N
    <3>1. QED
      BY <1>8 DEF IsTrace
  <2>2. k - 1 \in 0 .. N
    BY <1>1
  <2>3. t[k - 1] \in S
    BY <1>9, <2>2
  <2>4. QED
    BY <2>1, <2>3
<1>11. QED
  <2>1. t[N] = Contiguous(r, n)
    BY <1>2, <1>8, Zenon
  <2>2. QED
    BY <1>9, <1>10, <2>1, Zenon DEF base

(* when the covered ones are erased,                                        *)
LEMMA ErasedTrace ==
    ASSUME NEW r, NEW M, Length \in Nat, r.data \in [1 .. Length -> M], NEW covered,
           NEW S, 0 \in S, \A k \in 1 .. Length : \A p \in S : Enlarged(r, covered, p, k) \in S
    PROVE  \E t \in [0 .. Length -> S] :
               /\ t[0] = 0
               /\ \A k \in 1 .. Length : t[k] = Enlarged(r, covered, t[k - 1], k)
               /\ t[Length] = Erased(r, covered)
<1> DEFINE N == Length
           q == [i \in DOMAIN r.data |-> i]
           base == 0
           Value(iter, s) == IF s = {} THEN base ELSE Enlarged(r, covered, iter[s \ {Max(s)}], q[Max(s)])
           P(iter) == iter = [s \in SUBSET (DOMAIN q) |-> Value(iter, s)]
           it == CHOOSE iter : P(iter)
           step == [k \in 1 .. N |-> [p \in S |-> Enlarged(r, covered, p, k)]]
<1>1. N \in Nat /\ DOMAIN q = 1 .. N /\ base \in S /\ \A k \in 1 .. N : q[k] = k
  OBVIOUS
<1>2. Erased(r, covered) = it[1 .. N]
  <2>1. Erased(r, covered) = it[DOMAIN q]
    BY Zenon DEF Erased, FoldLeftDomain, Enlarged, FoldLeft, MapThenFoldSet
  <2> HIDE DEF it, q, N
  <2>2. QED
    BY <1>1, <2>1
<1>3. step \in [1 .. N -> [S -> S]]
  OBVIOUS
<1> HIDE DEF base, q
<1>4. PICK iter : IsIter(iter, N, S, base, step)
  <2> HIDE DEF N, step
  <2>1. QED
    BY <1>1, <1>3, IterExists
<1>5. P(iter)
  <2>1. ASSUME NEW s \in SUBSET (1 .. N) PROVE iter[s] = Value(iter, s)
    <3>1. CASE s = {}
      BY <3>1, <1>4 DEF IsIter
    <3>2. CASE s # {}
      <4>1. iter[s \ {Max(s)}] \in S /\ iter[s] = step[Max(s)][iter[s \ {Max(s)}]]
        <5> HIDE DEF step, N
        <5>1. QED
          BY <3>2, <1>4 DEF IsIter
      <4>2. Max(s) \in 1 .. N
        BY <1>1, <3>2, MaxInSet
      <4>3. q[Max(s)] = Max(s)
        BY <1>1, <4>2
      <4>4. QED
        BY <4>1, <4>2, <4>3, <3>2
    <3>3. QED
      BY <3>1, <3>2
  <2>2. iter = [s \in SUBSET (1 .. N) |-> iter[s]]
    BY <1>4 DEF IsIter
  <2> HIDE DEF N, Value
  <2>3. QED
    BY <1>1, <2>1, <2>2
<1>6. P(it)
  BY <1>5, Zenon
<1>7. Folds(it, N, S, base, step)
  <2>1. ASSUME NEW s \in SUBSET (1 .. N) PROVE it[s] = Value(it, s)
    <3> HIDE DEF it, N, Value
    <3>1. QED
      BY <1>1, <1>6
  <2> HIDE DEF it
  <2>2. ASSUME NEW s \in SUBSET (1 .. N), s # {}, it[s \ {Max(s)}] \in S
        PROVE  it[s] = step[Max(s)][it[s \ {Max(s)}]]
    <3>1. Max(s) \in 1 .. N
      BY <1>1, <2>2, MaxInSet
    <3>2. q[Max(s)] = Max(s)
      BY <1>1, <3>1
    <3>3. QED
      BY <2>1, <2>2, <3>1, <3>2
  <2>3. it[{}] = base
    BY <2>1
  <2> HIDE DEF step, N
  <2>4. QED
    BY <2>2, <2>3 DEF Folds
<1>8. PICK t : IsTrace(t, N, S, base, step) /\ t[N] = it[1 .. N]
  <2> HIDE DEF N, it, step
  <2>1. N \in Nat /\ base \in S
    BY <1>1, Zenon
  <2> HIDE <1>1
  <2>2. \E t : IsTrace(t, N, S, base, step) /\ t[N] = it[1 .. N]
    BY <2>1, <1>3, <1>7, FoldTrace
  <2>3. QED
    BY <2>2, Zenon
<1>9. t \in [0 .. N -> S] /\ t[0] = base
  BY <1>8 DEF IsTrace
<1>10. ASSUME NEW k \in 1 .. N PROVE t[k] = Enlarged(r, covered, t[k - 1], k)
  <2>1. t[k] = step[k][t[k - 1]]
    <3> HIDE DEF step, N
    <3>1. QED
      BY <1>8 DEF IsTrace
  <2>2. k - 1 \in 0 .. N
    BY <1>1
  <2>3. t[k - 1] \in S
    BY <1>9, <2>2
  <2>4. QED
    BY <2>1, <2>3
<1>11. QED
  <2>1. t[N] = Erased(r, covered)
    BY <1>2, <1>8, Zenon
  <2>2. QED
    BY <1>9, <1>10, <2>1, Zenon DEF base

(* and when their bytes are put together.                                   *)
LEMMA ContentTrace ==
    ASSUME NEW r, NEW M, Length \in Nat, r.data \in [1 .. Length -> M],
           NEW S, << >> \in S, \A k \in 1 .. Length : \A p \in S : p \o r.data[k] \in S
    PROVE  \E t \in [0 .. Length -> S] :
               /\ t[0] = << >>
               /\ \A k \in 1 .. Length : t[k] = t[k - 1] \o r.data[k]
               /\ t[Length] = Content(r)
<1> DEFINE N == Length
           q == r.data
           base == << >>
           Value(iter, s) == IF s = {} THEN base ELSE iter[s \ {Max(s)}] \o q[Max(s)]
           P(iter) == iter = [s \in SUBSET (DOMAIN q) |-> Value(iter, s)]
           it == CHOOSE iter : P(iter)
           step == [k \in 1 .. N |-> [p \in S |-> p \o r.data[k]]]
<1>1. N \in Nat /\ DOMAIN q = 1 .. N /\ base \in S /\ \A k \in 1 .. N : q[k] = r.data[k]
  OBVIOUS
<1>2. Content(r) = it[1 .. N]
  <2>1. Content(r) = it[DOMAIN q]
    BY Zenon DEF Content, FoldLeft, MapThenFoldSet
  <2> HIDE DEF it, q, N
  <2>2. QED
    BY <1>1, <2>1
<1>3. step \in [1 .. N -> [S -> S]]
  OBVIOUS
<1> HIDE DEF base, q
<1>4. PICK iter : IsIter(iter, N, S, base, step)
  <2> HIDE DEF N, step
  <2>1. QED
    BY <1>1, <1>3, IterExists
<1>5. P(iter)
  <2>1. ASSUME NEW s \in SUBSET (1 .. N) PROVE iter[s] = Value(iter, s)
    <3>1. CASE s = {}
      BY <3>1, <1>4 DEF IsIter
    <3>2. CASE s # {}
      <4>1. iter[s \ {Max(s)}] \in S /\ iter[s] = step[Max(s)][iter[s \ {Max(s)}]]
        <5> HIDE DEF step, N
        <5>1. QED
          BY <3>2, <1>4 DEF IsIter
      <4>2. Max(s) \in 1 .. N
        BY <1>1, <3>2, MaxInSet
      <4>3. q[Max(s)] = r.data[Max(s)]
        BY <1>1, <4>2
      <4>4. QED
        BY <4>1, <4>2, <4>3, <3>2
    <3>3. QED
      BY <3>1, <3>2
  <2>2. iter = [s \in SUBSET (1 .. N) |-> iter[s]]
    BY <1>4 DEF IsIter
  <2> HIDE DEF N, Value
  <2>3. QED
    BY <1>1, <2>1, <2>2
<1>6. P(it)
  BY <1>5, Zenon
<1>7. Folds(it, N, S, base, step)
  <2>1. ASSUME NEW s \in SUBSET (1 .. N) PROVE it[s] = Value(it, s)
    <3> HIDE DEF it, N, Value
    <3>1. QED
      BY <1>1, <1>6
  <2> HIDE DEF it
  <2>2. ASSUME NEW s \in SUBSET (1 .. N), s # {}, it[s \ {Max(s)}] \in S
        PROVE  it[s] = step[Max(s)][it[s \ {Max(s)}]]
    <3>1. Max(s) \in 1 .. N
      BY <1>1, <2>2, MaxInSet
    <3>2. q[Max(s)] = r.data[Max(s)]
      BY <1>1, <3>1
    <3>3. QED
      BY <2>1, <2>2, <3>1, <3>2
  <2>3. it[{}] = base
    BY <2>1
  <2> HIDE DEF step, N
  <2>4. QED
    BY <2>2, <2>3 DEF Folds
<1>8. PICK t : IsTrace(t, N, S, base, step) /\ t[N] = it[1 .. N]
  <2> HIDE DEF N, it, step
  <2>1. N \in Nat /\ base \in S
    BY <1>1, Zenon
  <2> HIDE <1>1
  <2>2. \E t : IsTrace(t, N, S, base, step) /\ t[N] = it[1 .. N]
    BY <2>1, <1>3, <1>7, FoldTrace
  <2>3. QED
    BY <2>2, Zenon
<1>9. t \in [0 .. N -> S] /\ t[0] = base
  BY <1>8 DEF IsTrace
<1>10. ASSUME NEW k \in 1 .. N PROVE t[k] = t[k - 1] \o r.data[k]
  <2>1. t[k] = step[k][t[k - 1]]
    <3> HIDE DEF step, N
    <3>1. QED
      BY <1>8 DEF IsTrace
  <2>2. k - 1 \in 0 .. N
    BY <1>1
  <2>3. t[k - 1] \in S
    BY <1>9, <2>2
  <2>4. QED
    BY <2>1, <2>3
<1>11. QED
  <2>1. t[N] = Content(r)
    BY <1>2, <1>8, Zenon
  <2>2. QED
    BY <1>9, <1>10, <2>1, Zenon DEF base

-----------------------------------------------------------------------------
(* What the application writes.                                            *)

(* A prefix of the writes adds up to what is in the trace of all of them.  *)
LEMMA WrittenTrace ==
    \E w \in [0 .. Len(Writes) -> Nat] :
        /\ w[0] = 0
        /\ \A k \in 1 .. Len(Writes) : w[k] = w[k - 1] + Writes[k]
        /\ \A n \in 0 .. Len(Writes) : Written(n) = w[n]
<1>1. Writes \in Seq(Nat)
  BY TcpAssumption
<1>2. PICK w \in [0 .. Len(Writes) -> Nat] :
        /\ w[0] = 0
        /\ \A k \in 1 .. Len(Writes) : w[k] = w[k - 1] + Writes[k]
  <2>1. 0 \in Nat /\ \A k \in 1 .. Len(Writes) : \A p \in Nat : p + Writes[k] \in Nat
    BY <1>1
  <2>2. QED
    BY <1>1, <2>1, SumTrace, Zenon
<1>3. ASSUME NEW n \in 0 .. Len(Writes) PROVE Written(n) = w[n]
  <2> DEFINE q == SubSeq(Writes, 1, n)
  <2>1. q \in Seq(Nat) /\ Len(q) = n /\ \A k \in 1 .. n : q[k] = Writes[k]
    BY <1>1
  <2> HIDE DEF q
  <2>2. PICK t \in [0 .. Len(q) -> Nat] :
          /\ t[0] = 0
          /\ \A k \in 1 .. Len(q) : t[k] = t[k - 1] + q[k]
          /\ t[Len(q)] = Total(q)
    <3>1. 0 \in Nat /\ \A k \in 1 .. Len(q) : \A p \in Nat : p + q[k] \in Nat
      BY <2>1
    <3>2. QED
      BY <2>1, <3>1, SumTrace, Zenon
  <2>3. \A k \in 0 .. n : k \in {i \in 0 .. n : t[i] = w[i]}
    <3> DEFINE T == {i \in 0 .. n : t[i] = w[i]}
    <3>1. n \in Nat /\ 0 \in T
      BY <1>2, <2>1, <2>2
    <3>2. ASSUME NEW k \in 1 .. n, k - 1 \in T PROVE k \in T
      <4>1. n \in Nat /\ k \in 1 .. Len(q) /\ k \in 1 .. Len(Writes) /\ q[k] = Writes[k]
        BY <1>1, <2>1
      <4>2. t[k - 1] = w[k - 1]
        BY <3>2
      <4>3. t[k] = t[k - 1] + q[k] /\ w[k] = w[k - 1] + Writes[k]
        BY <4>1, <1>2, <2>2
      <4>4. QED
        BY <4>1, <4>2, <4>3
    <3> HIDE DEF T
    <3>3. QED
      <4>1. \A k \in 0 .. n : k \in T
        BY <3>1, <3>2, UpTo
      <4>2. QED
        BY <4>1 DEF T
  <2>4. t[n] = w[n]
    BY <2>3
  <2>5. Written(n) = t[n]
    <3>1. Written(n) = Total(q)
      BY Zenon DEF Written, Total, q
    <3>2. QED
      BY <2>1, <2>2, <3>1, Zenon
  <2>6. QED
    BY <2>4, <2>5
<1>4. QED
  BY <1>2, <1>3

LEMMA WrittenType ==
    /\ Length \in Nat
    /\ \A n \in 0 .. Len(Writes) : Written(n) \in 0 .. Length
<1>1. Len(Writes) \in Nat /\ Writes \in Seq(Nat)
  BY TcpAssumption
<1>2. PICK w \in [0 .. Len(Writes) -> Nat] :
        /\ \A k \in 1 .. Len(Writes) : w[k] = w[k - 1] + Writes[k]
        /\ \A n \in 0 .. Len(Writes) : Written(n) = w[n]
  BY WrittenTrace
<1> DEFINE N == Len(Writes)
           T == {d \in 0 .. N : w[N - d] <= w[N]}
<1>3. 0 \in T
  BY <1>1
<1>4. ASSUME NEW d \in 1 .. N, d - 1 \in T PROVE d \in T
  <2>1. N - d + 1 \in 1 .. N /\ N - (d - 1) = N - d + 1 /\ N - d + 1 - 1 = N - d
    BY <1>1
  <2>2. w[N - d + 1] = w[N - d] + Writes[N - d + 1]
    BY <2>1, <1>2
  <2>3. Writes[N - d + 1] \in Nat
    BY <1>1, <2>1
  <2>4. w[N - d] \in Nat /\ w[N] \in Nat
    <3>1. N - d \in 0 .. N /\ N \in 0 .. N
      BY <1>1
    <3> HIDE DEF N
    <3>2. QED
      BY <3>1 DEF N
  <2>5. QED
    BY <1>4, <2>1, <2>2, <2>3, <2>4
<1>5. \A d \in 0 .. N : d \in T
  <2> HIDE DEF T
  <2>1. QED
    BY <1>1, <1>3, <1>4, UpTo
<1>6. ASSUME NEW n \in 0 .. N PROVE w[n] <= w[N]
  <2>1. N - n \in 0 .. N /\ N - (N - n) = n
    BY <1>1
  <2>2. QED
    BY <1>5, <2>1
<1>7. QED
  <2>1. ASSUME NEW n \in 0 .. N PROVE w[n] \in 0 .. w[N]
    BY <1>1, <1>6
  <2>2. N \in 0 .. N /\ w[N] \in Nat
    BY <1>1
  <2>3. QED
    BY <1>2, <2>1, <2>2 DEF Length

LEMMA WrittenStep ==
    ASSUME NEW n \in 0 .. Len(Writes), n < Len(Writes)
    PROVE  Writes[n + 1] \in Nat \ {0} /\ Written(n + 1) = Written(n) + Writes[n + 1]
<1>1. Len(Writes) \in Nat /\ Writes \in Seq(Nat \ {0})
  BY TcpAssumption
<1>2. n + 1 \in 1 .. Len(Writes) /\ (n + 1) - 1 = n
  BY <1>1
<1>3. QED
  BY <1>1, <1>2, WrittenTrace


-----------------------------------------------------------------------------
(* The sending socket.                                                     *)

(* Its buffer holds the bytes from head to the last one written, and the   *)
(* marks are not beyond it.                                                *)
SendBufferInv(s) ==
    /\ s \in Sender
    /\ EndOf(s) = Written(s.writes) + 1
    /\ Consecutive(s.head, s.data)
    /\ s.next <= EndOf(s) /\ s.high <= EndOf(s)

SenderInv(s) ==
    /\ SendBufferInv(s)
    /\ s.head <= s.next
    /\ s.cong = "OPEN" => s.dup = 0
    /\ ~ s.first => s.cong \in {"RECOVERY", "LOSS"}

(* A segment with bytes of the stream before end.                          *)
Sound(seg, end) ==
    /\ seg \in Segment
    /\ Consecutive(seg.seq, seg.data)
    /\ End(seg) <= end
    /\ Len(seg.data) <= SegmentSize

LEMMA EndOfType ==
    ASSUME NEW s, SendBufferInv(s)
    PROVE  /\ EndOf(s) \in 1 .. Length + 1 /\ s.head \in 1 .. EndOf(s)
           /\ Len(s.data) \in Nat /\ s.data \in Seq(1 .. Length)
<1>1. s.writes \in 0 .. Len(Writes) /\ s.head \in 1 .. Length + 1 /\ s.data \in Seq(1 .. Length)
  BY DEF SendBufferInv, Sender, SequenceNumber, Bytes
<1>2. Len(s.data) \in Nat
  BY <1>1
<1>3. QED
  BY <1>1, <1>2, WrittenType DEF SendBufferInv, EndOf

(* A part of the buffer, from seq, of at most max bytes.                   *)
LEMMA CopySound ==
    ASSUME NEW s, SendBufferInv(s), NEW seq \in s.head .. EndOf(s), NEW max \in 0 .. SegmentSize
    PROVE  LET seg == CopyFromSequence(s, seq, max) IN
           /\ Sound(seg, EndOf(s))
           /\ End(seg) = IF seq + max <= EndOf(s) THEN seq + max ELSE EndOf(s)
           /\ seg.seq = seq
<1> DEFINE seg == CopyFromSequence(s, seq, max)
           a == seq - s.head
<1>1. /\ EndOf(s) \in 1 .. Length + 1 /\ s.head \in 1 .. EndOf(s) /\ Len(s.data) \in Nat
      /\ s.data \in Seq(1 .. Length) /\ Length \in Nat /\ SegmentSize \in Nat
      /\ EndOf(s) = s.head + Len(s.data)
  BY EndOfType, WrittenType, TcpAssumption DEF EndOf
<1> DEFINE len == Len(s.data)
           end == EndOf(s)
           last == IF a + max <= len THEN a + max ELSE len
<1>0. /\ s.head \in Nat /\ len \in Nat /\ seq \in Nat /\ max \in Nat /\ end = s.head + len
      /\ s.head <= seq /\ seq <= end /\ max <= SegmentSize
  BY <1>1
<1> HIDE DEF len, end
<1>3. /\ a \in 0 .. len /\ last \in a .. len /\ last - a <= max
      /\ seq + (last - a) = IF seq + max <= end THEN seq + max ELSE end
  BY <1>0
<1>2. Min({a + max, len}) = last
  <2>1. a + max \in Int /\ len \in Int
    BY <1>0, <1>3
  <2> HIDE DEF a
  <2>2. QED
    BY <2>1, MinOfTwo
<1>4. seg.seq = seq /\ seg.data = SubSeq(s.data, a + 1, last)
  BY <1>2 DEF CopyFromSequence, len
<1>5. /\ seg.data \in Seq(1 .. Length) /\ Len(seg.data) = last - a
      /\ DOMAIN seg.data = 1 .. last - a
      /\ \A i \in 1 .. last - a : seg.data[i] = s.data[a + i]
  <2>1. a \in Nat /\ last \in Int /\ a <= last /\ last <= len
    BY <1>0, <1>3
  <2> HIDE DEF seg, a, last
  <2>2. /\ SubSeq(s.data, a + 1, last) \in Seq(1 .. Length)
        /\ Len(SubSeq(s.data, a + 1, last)) = last - a
        /\ DOMAIN SubSeq(s.data, a + 1, last) = 1 .. last - a
        /\ \A i \in 1 .. last - a : SubSeq(s.data, a + 1, last)[i] = s.data[a + i]
    <3>1. last \in Nat /\ last <= Len(s.data) /\ s.data \in Seq(1 .. Length)
      BY <1>1, <2>1 DEF len
    <3> DEFINE S == 1 .. Length
               q == s.data
    <3>2. q \in Seq(S) /\ a \in Nat /\ last \in Nat /\ a <= last /\ last <= Len(q)
      BY <2>1, <3>1
    <3> HIDE DEF S, q
    <3>3. /\ SubSeq(q, a + 1, last) \in Seq(S)
          /\ Len(SubSeq(q, a + 1, last)) = last - a
          /\ DOMAIN SubSeq(q, a + 1, last) = 1 .. last - a
          /\ \A i \in 1 .. last - a : SubSeq(q, a + 1, last)[i] = q[a + i]
      BY <3>2, PartOfSeq
    <3>4. QED
      BY <3>3 DEF S, q
  <2>3. QED
    BY <1>4, <2>2
<1>6. Consecutive(seg.seq, seg.data)
  <2> SUFFICES ASSUME NEW i \in DOMAIN seg.data PROVE seg.data[i] = seg.seq + i - 1
    BY DEF Consecutive
  <2>1. a \in Nat /\ last \in Nat /\ last <= len /\ seq = s.head + a /\ s.head \in Nat
    BY <1>0, <1>3
  <2> HIDE DEF seg, a, last
  <2>2. i \in Nat /\ i <= last - a /\ 1 <= i
    BY <1>5, <2>1
  <2>3. a + i \in 1 .. len
    BY <1>0, <2>1, <2>2
  <2>4. a + i \in DOMAIN s.data
    BY <1>1, <2>3 DEF len
  <2>5. s.data[a + i] = s.head + (a + i) - 1
    BY <2>4 DEF SendBufferInv, Consecutive
  <2>6. seg.data[i] = s.data[a + i] /\ seg.seq = seq
    BY <1>4, <1>5, <2>1, <2>2
  <2>7. QED
    BY <2>1, <2>2, <2>5, <2>6
<1>7. End(seg) = IF seq + max <= EndOf(s) THEN seq + max ELSE EndOf(s)
  <2>1. End(seg) = seq + (last - a)
    <3> HIDE DEF seg, a, last
    <3>1. QED
      BY <1>4, <1>5 DEF End
  <2>2. QED
    BY <1>3, <2>1 DEF end
<1>8. seg \in Segment
  <2>1. seg = [seq |-> seg.seq, data |-> seg.data]
    BY DEF CopyFromSequence
  <2>2. seq \in 1 .. Length + 1
    BY <1>1
  <2> HIDE DEF seg
  <2>3. QED
    BY <1>4, <1>5, <2>1, <2>2 DEF Segment, SequenceNumber, Bytes
<1>9. QED
  <2>2. End(seg) <= EndOf(s) /\ Len(seg.data) <= SegmentSize
    <3> HIDE DEF seg, a, last
    <3>1. Len(seg.data) = last - a /\ last - a \in Int /\ last - a <= max /\ max <= SegmentSize
      BY <1>0, <1>3, <1>5
    <3>2. QED
      BY <1>0, <1>1, <1>7, <3>1
  <2> HIDE DEF seg
  <2>3. Sound(seg, EndOf(s))
    BY <1>6, <1>8, <2>2 DEF Sound
  <2>4. QED
    BY <1>4, <1>7, <2>3 DEF seg

(* Sending sound segments moves next and high, within the buffer.          *)
LEMMA SendPacketsSound ==
    ASSUME NEW s, SendBufferInv(s), NEW sent, \A seg \in sent : Sound(seg, EndOf(s))
    PROVE  LET t == SendDataPackets(s, sent) IN
           /\ SendBufferInv(t) /\ s.next <= t.next /\ s.high <= t.high
           /\ \A seg \in sent : End(seg) <= t.high
           /\ t = [s EXCEPT !.next = t.next, !.high = t.high, !.retx = t.retx]
<1> DEFINE ends == {End(seg) : seg \in sent}
           t == SendDataPackets(s, sent)
<1>1. /\ EndOf(s) \in 1 .. Length + 1 /\ Length \in Nat
      /\ s.next \in 1 .. EndOf(s) /\ s.high \in 1 .. EndOf(s)
  BY EndOfType, WrittenType DEF SendBufferInv, Sender, SequenceNumber
<1>2. ends \subseteq 1 .. EndOf(s)
  <2>1. ASSUME NEW seg \in sent PROVE End(seg) \in 1 .. EndOf(s)
    <3>1. seg.seq \in 1 .. Length + 1 /\ Len(seg.data) \in Nat
      BY DEF Sound, Segment, SequenceNumber, Bytes
    <3>2. QED
      BY <1>1, <3>1 DEF Sound, End
  <2>2. QED
    BY <2>1
<1>3. ASSUME NEW n \in 1 .. EndOf(s)
      PROVE  /\ Max({n} \cup ends) \in n .. EndOf(s)
             /\ \A m \in ends : m <= Max({n} \cup ends)
  <2>1. {n} \cup ends \in SUBSET (1 .. EndOf(s)) /\ {n} \cup ends # {} /\ n \in {n} \cup ends
    BY <1>2
  <2>2. EndOf(s) \in Nat
    BY <1>1
  <2> DEFINE both == {n} \cup ends
  <2> HIDE DEF both
  <2>3. Max(both) \in both /\ \A m \in both : m <= Max(both)
    BY <2>1, <2>2, MaxIsGreatest DEF both
  <2>4. QED
    BY <1>1, <2>1, <2>3 DEF both
<1> DEFINE next == Max({s.next} \cup ends)
           high == Max({s.high} \cup ends)
<1>4. t = [s EXCEPT !.next = next, !.high = high, !.retx = @ \/ sent # {}]
  BY DEF SendDataPackets
<1>5. /\ next \in s.next .. EndOf(s) /\ high \in s.high .. EndOf(s)
      /\ \A seg \in sent : End(seg) <= high
  BY <1>1, <1>3
<1> HIDE DEF next, high, t
<1>6. s \in Sender
  BY DEF SendBufferInv
<1>7. /\ t.next = next /\ t.high = high /\ t.retx = (s.retx \/ sent # {})
      /\ t.head = s.head /\ t.data = s.data /\ t.writes = s.writes
  BY <1>4, <1>6 DEF Sender
<1>8. t = [s EXCEPT !.next = t.next, !.high = t.high, !.retx = t.retx]
  BY <1>4, <1>7
<1>9. t \in Sender
  <2>1. next \in SequenceNumber /\ high \in SequenceNumber
    BY <1>1, <1>5 DEF SequenceNumber
  <2>2. (s.retx \/ sent # {}) \in BOOLEAN
    OBVIOUS
  <2>3. QED
    BY <1>4, <1>6, <2>1, <2>2 DEF Sender
<1>10. SendBufferInv(t) /\ s.next <= t.next /\ s.high <= t.high
  BY <1>1, <1>5, <1>7, <1>9 DEF SendBufferInv, EndOf
<1>11. QED
  BY <1>5, <1>7, <1>8, <1>10 DEF t


(* SendPendingData sends parts of the buffer, and nothing beyond the window.*)
LEMMA PendingSound ==
    ASSUME NEW s, SenderInv(s), NEW window \in SegmentSize .. RcvBufSize
    PROVE  \A seg \in PendingData(s, window) :
               Sound(seg, EndOf(s)) /\ End(seg) <= s.head + window
<1> DEFINE tail == s.head + Len(s.data)
           w(n) == Max({0, window - (n - s.head)})
           Holds(n) == \/ n = tail
                       \/ w(n) < SegmentSize /\ tail - n > w(n)
                       \/ ~ s.options.noDelay /\ n > s.head /\ tail - n < SegmentSize
           part(n) == CopyFromSequence(s, n, Min({w(n), SegmentSize}))
           lo == s.next
           Value(f, n) == IF Holds(n) THEN {} ELSE {part(n)} \cup f[End(part(n))]
           P(f) == f = [n \in lo .. tail |-> Value(f, n)]
           sent == CHOOSE f : P(f)
           Fine(seg) == Sound(seg, EndOf(s)) /\ End(seg) <= s.head + window
           S == SUBSET {seg \in Segment : Fine(seg)}
<1>1. /\ EndOf(s) = tail /\ tail \in Nat /\ s.head \in Nat /\ lo \in Nat
      /\ s.head <= lo /\ lo <= tail
      /\ SegmentSize \in Nat \ {0} /\ window \in Nat /\ window >= SegmentSize
      /\ SendBufferInv(s)
  <2>1. SendBufferInv(s) /\ s.next \in 1 .. Length + 1 /\ s.head <= s.next
    BY DEF SenderInv, SendBufferInv, Sender, SequenceNumber
  <2>2. EndOf(s) \in 1 .. Length + 1 /\ s.head \in 1 .. EndOf(s) /\ s.next <= EndOf(s)
    BY <2>1, EndOfType DEF SendBufferInv
  <2>3. Length \in Nat /\ SegmentSize \in Nat \ {0} /\ RcvBufSize \in Nat
    BY WrittenType, TcpAssumption
  <2>4. EndOf(s) = tail
    BY DEF EndOf
  <2> HIDE DEF tail
  <2>5. tail \in 1 .. Length + 1 /\ s.head \in 1 .. tail /\ s.next <= tail
    BY <2>2, <2>4
  <2>6. window \in Nat /\ window >= SegmentSize
    BY <2>3
  <2>7. QED
    BY <2>1, <2>3, <2>4, <2>5, <2>6
<1>2. PendingData(s, window) = sent[lo]
  BY Zenon DEF PendingData
<1> HIDE DEF tail, lo
<1>3. ASSUME NEW n \in lo .. tail, ~ Holds(n)
      PROVE  End(part(n)) \in n + 1 .. tail /\ Fine(part(n)) /\ part(n) \in Segment
  <2> DEFINE left == window - (n - s.head)
             max == IF left <= SegmentSize THEN left ELSE SegmentSize
  <2>1. n \in Nat /\ s.head <= n /\ n < tail /\ left \in Int
    BY <1>1, <1>3
  <2>2. w(n) = IF 0 >= left THEN 0 ELSE left
    <3> HIDE DEF left
    <3>1. Max({0, left}) = IF 0 >= left THEN 0 ELSE left
      BY <2>1, MaxOfTwo
    <3>2. QED
      BY <3>1 DEF left
  <2>3. left > 0
    <3> SUFFICES ASSUME left <= 0 PROVE FALSE
      BY <2>1
    <3>1. w(n) = 0
      BY <2>1, <2>2
    <3>2. w(n) < SegmentSize /\ tail - n > w(n)
      BY <1>1, <2>1, <3>1
    <3> HIDE DEF w
    <3>3. QED
      BY <1>3, <3>2
  <2>4. w(n) = left
    BY <2>1, <2>2, <2>3
  <2> HIDE DEF w
  <2>5. Min({w(n), SegmentSize}) = max
    <3> HIDE DEF left
    <3>1. left \in Int /\ SegmentSize \in Int
      BY <1>1, <2>1
    <3>2. Min({left, SegmentSize}) = max
      BY <3>1, MinOfTwo
    <3>3. QED
      BY <2>4, <3>2
  <2>6. max \in 1 .. SegmentSize /\ max <= left
    BY <1>1, <2>1, <2>3
  <2>7. n \in s.head .. EndOf(s) /\ max \in 0 .. SegmentSize
    BY <1>1, <2>1, <2>6
  <2>8. part(n) = CopyFromSequence(s, n, max)
    <3> HIDE DEF max
    <3>1. QED
      BY <2>5
  <2>9. /\ Sound(part(n), EndOf(s))
        /\ End(part(n)) = IF n + max <= EndOf(s) THEN n + max ELSE EndOf(s)
    <3> HIDE DEF max, part
    <3>1. QED
      BY <1>1, <2>7, <2>8, CopySound
  <2> HIDE DEF part, max
  <2>10. End(part(n)) \in n + 1 .. tail /\ End(part(n)) <= n + max
    BY <1>1, <2>1, <2>6, <2>9
  <2>11. n + max <= s.head + window
    BY <1>1, <2>1, <2>6
  <2>12. End(part(n)) <= s.head + window
    BY <1>1, <2>1, <2>6, <2>10, <2>11
  <2>13. QED
    BY <2>9, <2>10, <2>12 DEF Sound
<1> DEFINE stop == {n \in lo .. tail : Holds(n)}
           next == [n \in (lo .. tail) \ stop |-> End(part(n))]
           step == [n \in (lo .. tail) \ stop |-> [v \in S |-> {part(n)} \cup v]]
<1>4. /\ stop \in SUBSET (lo .. tail) /\ tail \in stop
      /\ next \in [(lo .. tail) \ stop -> lo .. tail]
      /\ step \in [(lo .. tail) \ stop -> [S -> S]]
      /\ \A n \in (lo .. tail) \ stop :
            next[n] > n /\ \A v \in S : step[n][v] = {part(n)} \cup v
  <2>1. tail \in stop
    <3>1. Holds(tail)
      OBVIOUS
    <3> HIDE DEF Holds
    <3>2. QED
      BY <1>1, <3>1
  <2> HIDE DEF Holds, part, Fine
  <2>2. \A n \in (lo .. tail) \ stop :
           End(part(n)) \in lo .. tail /\ End(part(n)) > n /\ Fine(part(n)) /\ part(n) \in Segment
    BY <1>1, <1>3
  <2> HIDE DEF stop
  <2>3. \A n \in (lo .. tail) \ stop : \A v \in S : {part(n)} \cup v \in S
    BY <2>2
  <2> HIDE DEF S
  <2>4. step \in [(lo .. tail) \ stop -> [S -> S]]
    BY <2>3
  <2>5. next \in [(lo .. tail) \ stop -> lo .. tail]
    BY <2>2
  <2>6. stop \in SUBSET (lo .. tail)
    BY DEF stop
  <2>7. QED
    BY <2>1, <2>2, <2>4, <2>5, <2>6
<1>5. \E f : P(f)
  <2>1. PICK f \in [lo .. tail -> S] : \A n \in lo .. tail :
           f[n] = IF n \in stop THEN {} ELSE step[n][f[next[n]]]
    <3> DEFINE base == {}
    <3> HIDE DEF S, stop, next, step
    <3>1. base \in S
      BY DEF S
    <3> HIDE DEF base
    <3>2. Downward(lo, tail, S, stop, base, next, step)
      <4>1. lo \in Int /\ tail \in Int /\ lo <= tail
        BY <1>1
      <4> HIDE DEF tail, lo
      <4>2. /\ stop \subseteq lo .. tail /\ tail \in stop
            /\ next \in [(lo .. tail) \ stop -> lo .. tail]
            /\ step \in [(lo .. tail) \ stop -> [S -> S]]
        BY <1>4, Zenon
      <4>3. \A n \in (lo .. tail) \ stop : next[n] > n
        BY <1>4, Zenon
      <4>4. QED
        BY <3>1, <4>1, <4>2, <4>3, Zenon DEF Downward
    <3>3. \E f : IsDownward(f, lo, tail, S, stop, base, next, step)
      BY <3>2, DownwardExists
    <3>4. QED
      BY <3>3 DEF IsDownward, base
  <2>2. ASSUME NEW n \in lo .. tail PROVE f[n] = Value(f, n)
    <3>1. f[n] = IF n \in stop THEN {} ELSE step[n][f[next[n]]]
      <4> HIDE DEF S, stop, next, step
      <4>1. QED
        BY <2>1
    <3>2. CASE n \in stop
      <4> HIDE DEF S, step, Holds, part
      <4>1. QED
        BY <3>1, <3>2
    <3>3. CASE n \notin stop
      <4>1. next[n] \in lo .. tail /\ next[n] = End(part(n)) /\ ~ Holds(n)
        <5> HIDE DEF S, step, Holds, part
        <5>1. QED
          BY <1>1, <1>4, <3>3
      <4>2. f[next[n]] \in S
        <5> HIDE DEF S, next
        <5>1. QED
          BY <4>1
      <4> HIDE DEF S, next, step, stop, Holds, part
      <4>2a. f[n] = step[n][f[next[n]]]
        BY <3>1, <3>3
      <4>2b. step[n][f[next[n]]] = {part(n)} \cup f[next[n]]
        BY <1>4, <3>3, <4>2
      <4>3. QED
        BY <4>1, <4>2a, <4>2b
    <3>4. QED
      BY <3>2, <3>3
  <2>3. P(f)
    <3>1. f = [n \in lo .. tail |-> f[n]]
      <4> HIDE DEF S, stop, next, step
      <4>1. QED
        BY <2>1
    <3> HIDE DEF Value
    <3>2. QED
      BY <2>2, <3>1
  <2>4. QED
    BY <2>3, Zenon
<1>6. P(sent)
  <2> HIDE DEF P
  <2>1. QED
    BY <1>5, Zenon
<1>7. \A n \in lo .. tail : sent[n] = Value(sent, n)
  <2> HIDE DEF sent, Value
  <2>1. QED
    BY <1>6
<1>8. sent[lo] \in S
  <2> DEFINE T == {n \in lo .. tail : sent[n] \in S}
  <2> HIDE DEF sent
  <2>1. ASSUME NEW n \in lo .. tail, \A m \in n + 1 .. tail : m \in T
        PROVE  n \in T
    <3>1. CASE Holds(n)
      <4> HIDE DEF Holds, part
      <4>1. QED
        BY <1>7, <3>1
    <3>2. CASE ~ Holds(n)
      <4>1. End(part(n)) \in T /\ Fine(part(n)) /\ part(n) \in Segment
        <5> HIDE DEF Holds, part, Fine, T
        <5>1. QED
          BY <1>3, <2>1, <3>2
      <4>2. sent[n] = {part(n)} \cup sent[End(part(n))]
        <5> HIDE DEF Holds, part
        <5>1. QED
          BY <1>7, <3>2
      <4> HIDE DEF Holds, part, Fine
      <4>3. QED
        BY <4>1, <4>2
    <3>3. QED
      BY <3>1, <3>2
  <2>2. \A n \in lo .. tail : n \in T
    <3> HIDE DEF T
    <3>1. lo \in Int /\ tail \in Int /\ lo <= tail
      BY <1>1
    <3>2. QED
      BY <2>1, <3>1, DownwardInduction
  <2>3. lo \in lo .. tail
    BY <1>1
  <2>4. QED
    BY <2>2, <2>3
<1>9. QED
  <2> HIDE DEF Fine, sent
  <2>1. \A seg \in PendingData(s, window) : Fine(seg)
    BY <1>2, <1>8
  <2>2. QED
    BY <2>1 DEF Fine

(* What SendDataPacket and the buffers leave alone.                        *)
SameState(s, t) ==
    /\ t.writes = s.writes /\ t.cong = s.cong /\ t.dup = s.dup
    /\ t.first = s.first /\ t.options = s.options

(* A sound segment that limited transmit has sent, or within the window.   *)
WellSent(seg, s) ==
    /\ Sound(seg, EndOf(s))
    /\ s.options.limitedTx \/ End(seg) <= s.head + RcvBufSize

LEMMA WindowsFit ==
    /\ SegmentSize \in Nat \ {0} /\ RcvBufSize \in Nat /\ SegmentSize <= RcvBufSize
    /\ Windows \subseteq SegmentSize .. RcvBufSize
<1>1. /\ SegmentSize \in Nat \ {0} /\ RcvBufSize \in Nat
      /\ Windows \subseteq SegmentSize .. RcvBufSize /\ Windows # {}
  BY TcpAssumption
<1>2. PICK w \in Windows : w \in SegmentSize .. RcvBufSize
  BY <1>1
<1>3. SegmentSize <= RcvBufSize
  BY <1>1, <1>2
<1>4. QED
  BY <1>1, <1>3

LEMMA RetransmittedSound ==
    ASSUME NEW s, SendBufferInv(s)
    PROVE  \A seg \in Retransmitted(s) :
               Sound(seg, EndOf(s)) /\ End(seg) <= s.head + RcvBufSize
<1> DEFINE seg == CopyFromSequence(s, s.head, SegmentSize)
<1>1. EndOf(s) \in Nat /\ s.head \in Nat /\ s.head <= EndOf(s)
  <2>1. EndOf(s) \in 1 .. Length + 1 /\ s.head \in 1 .. EndOf(s)
    BY EndOfType
  <2>2. QED
    BY <2>1, WrittenType
<1>2. s.head \in s.head .. EndOf(s) /\ SegmentSize \in 0 .. SegmentSize
  BY <1>1, WindowsFit
<1>3. /\ Sound(seg, EndOf(s))
      /\ End(seg) = IF s.head + SegmentSize <= EndOf(s) THEN s.head + SegmentSize ELSE EndOf(s)
  BY <1>2, CopySound
<1> HIDE DEF seg
<1>4. End(seg) <= s.head + RcvBufSize
  BY <1>1, <1>3, WindowsFit
<1>5. QED
  BY <1>3, <1>4 DEF Retransmitted, seg

LEMMA DoRetransmitSound ==
    ASSUME NEW s, SendBufferInv(s)
    PROVE  LET t == DoRetransmit(s) IN
           /\ SendBufferInv(t) /\ SameState(s, t)
           /\ s.next <= t.next /\ s.high <= t.high /\ t.head = s.head /\ t.data = s.data
           /\ \A seg \in Retransmitted(s) : End(seg) <= t.high
<1> DEFINE t == DoRetransmit(s)
<1>1. s \in Sender /\ s.next \in Nat /\ s.high \in Nat /\ s.retries \in 0 .. DataRetries /\ DataRetries \in Nat
  BY TcpAssumption, WrittenType DEF SendBufferInv, Sender, SequenceNumber
<1>2. CASE s.retries = 0
  <2>1. t = [s EXCEPT !.dropped = TRUE, !.retx = FALSE, !.pending = FALSE]
    BY <1>2 DEF DoRetransmit
  <2> HIDE DEF t
  <2>2. t \in Sender
    BY <1>1, <2>1 DEF Sender
  <2>3. /\ SameState(s, t) /\ t.next = s.next /\ t.head = s.head /\ t.data = s.data
        /\ t.high = s.high /\ t.writes = s.writes
    BY <1>1, <2>1 DEF Sender, SameState
  <2>4. SendBufferInv(t)
    BY <2>2, <2>3 DEF SendBufferInv, EndOf
  <2>5. Retransmitted(s) = {}
    BY <1>2 DEF Retransmitted
  <2>6. QED
    BY <1>1, <2>3, <2>4, <2>5 DEF t
<1>3. CASE s.retries # 0
  <2> DEFINE u == [s EXCEPT !.retries = @ - 1]
             sent == {CopyFromSequence(s, s.head, SegmentSize)}
  <2>1. t = SendDataPackets(u, sent) /\ sent = Retransmitted(s)
    BY <1>3 DEF DoRetransmit, Retransmitted
  <2>2. u \in Sender
    <3>1. s.retries - 1 \in 0 .. DataRetries
      BY <1>1, <1>3
    <3>2. QED
      BY <1>1, <3>1 DEF Sender
  <2>3. /\ SameState(s, u) /\ u.next = s.next /\ u.head = s.head /\ u.data = s.data
        /\ u.high = s.high /\ u.writes = s.writes
    BY <1>1 DEF Sender, SameState
  <2> HIDE DEF u, sent, t
  <2>4. SendBufferInv(u) /\ EndOf(u) = EndOf(s)
    BY <2>2, <2>3 DEF SendBufferInv, EndOf
  <2>5. \A seg \in sent : Sound(seg, EndOf(u))
    BY <2>1, <2>4, RetransmittedSound
  <2>6. /\ SendBufferInv(t) /\ u.next <= t.next /\ u.high <= t.high
        /\ \A seg \in sent : End(seg) <= t.high
        /\ t = [u EXCEPT !.next = t.next, !.high = t.high, !.retx = t.retx]
    BY <2>1, <2>4, <2>5, SendPacketsSound
  <2>7. SameState(u, t) /\ t.head = u.head /\ t.data = u.data
    BY <2>2, <2>6 DEF Sender, SameState
  <2>8. QED
    BY <2>1, <2>3, <2>6, <2>7 DEF SameState, t
<1>4. QED
  BY <1>2, <1>3

LEMMA DiscardSound ==
    ASSUME NEW s, SendBufferInv(s), NEW n \in s.head .. EndOf(s)
    PROVE  LET t == DiscardUpTo(s, n) IN
           /\ SendBufferInv(t) /\ SameState(s, t)
           /\ t.head = n /\ EndOf(t) = EndOf(s) /\ t.high = s.high
           /\ t = [s EXCEPT !.head = n, !.data = t.data]
<1> DEFINE t == DiscardUpTo(s, n)
           S == 1 .. Length
           q == s.data
           m == n - s.head
           part == SubSeq(q, m + 1, Len(q))
<1>1. /\ EndOf(s) = s.head + Len(q) /\ Len(q) \in Nat /\ s.head \in Nat /\ Length \in Nat
      /\ EndOf(s) \in 1 .. Length + 1 /\ s.head >= 1 /\ q \in Seq(S)
  <2>1. EndOf(s) \in 1 .. Length + 1 /\ s.head \in 1 .. EndOf(s) /\ q \in Seq(S)
    BY EndOfType
  <2>2. QED
    BY <2>1, WrittenType DEF EndOf
<1>2. n \in Nat /\ m \in Nat /\ m <= Len(q) /\ n = s.head + m /\ n \in 1 .. Length + 1
  <2> DEFINE end == EndOf(s)
             len == Len(q)
  <2>1. /\ end = s.head + len /\ len \in Nat /\ s.head \in Nat /\ Length \in Nat /\ s.head >= 1
        /\ end <= Length + 1 /\ n \in s.head .. end
    BY <1>1
  <2> HIDE DEF end, len
  <2>2. n \in Nat /\ m \in Nat /\ m <= len /\ n = s.head + m /\ n \in 1 .. Length + 1
    BY <2>1
  <2>3. QED
    BY <2>2 DEF len
<1>3. t = [s EXCEPT !.head = n, !.data = part] /\ s \in Sender
  BY DEF DiscardUpTo, SendBufferInv
<1>4. /\ part \in Seq(S) /\ Len(part) = Len(q) - m
      /\ DOMAIN part = 1 .. Len(q) - m
      /\ \A i \in 1 .. Len(q) - m : part[i] = q[m + i]
  <2>1. Len(q) \in Nat /\ Len(q) <= Len(q)
    BY <1>1
  <2> HIDE DEF S, q, m
  <2>2. QED
    BY <1>1, <1>2, <2>1, PartOfSeq
<1> HIDE DEF t, part
<1>5. t \in Sender
  BY <1>2, <1>3, <1>4 DEF Sender, SequenceNumber, Bytes
<1>6. /\ t.head = n /\ t.data = part /\ SameState(s, t)
      /\ t.next = s.next /\ t.high = s.high
  BY <1>3 DEF Sender, SameState
<1>7. EndOf(t) = EndOf(s)
  <2> DEFINE len == Len(q)
  <2>1. Len(t.data) = len - m /\ len \in Nat /\ EndOf(s) = s.head + len
    BY <1>1, <1>4, <1>6
  <2>2. EndOf(t) = n + (len - m)
    BY <1>6, <2>1 DEF EndOf
  <2>3. m \in Nat /\ n = s.head + m /\ s.head \in Nat
    BY <1>1, <1>2
  <2> HIDE DEF len, m
  <2>4. QED
    BY <2>1, <2>2, <2>3
<1>8. Consecutive(t.head, t.data)
  <2> SUFFICES ASSUME NEW i \in 1 .. Len(q) - m PROVE part[i] = n + i - 1
    BY <1>4, <1>6 DEF Consecutive
  <2> DEFINE len == Len(q)
  <2>1. i \in 1 .. len - m /\ len \in Nat /\ part[i] = q[m + i] /\ DOMAIN q = 1 .. len
    BY <1>1, <1>4
  <2> HIDE DEF len, m
  <2>2. m + i \in DOMAIN s.data /\ i \in Nat
    BY <1>2, <2>1 DEF q
  <2>3. q[m + i] = s.head + (m + i) - 1
    BY <2>2 DEF SendBufferInv, Consecutive
  <2>4. part[i] = s.head + (m + i) - 1 /\ i \in Nat
    BY <2>1, <2>2, <2>3
  <2>5. s.head + (m + i) - 1 = n + i - 1
    BY <1>1, <1>2, <2>4
  <2>6. QED
    BY <2>4, <2>5, Zenon
<1>9. SendBufferInv(t)
  BY <1>5, <1>6, <1>7, <1>8 DEF SendBufferInv, SameState
<1>10. t = [s EXCEPT !.head = n, !.data = t.data]
  BY <1>3, <1>6
<1>11. QED
  BY <1>6, <1>7, <1>9, <1>10 DEF t

LEMMA NewAckSound ==
    ASSUME NEW s, SendBufferInv(s), NEW n \in s.head .. EndOf(s), NEW reset \in BOOLEAN
    PROVE  LET t == NewAck(s, n, reset) IN
           /\ SendBufferInv(t) /\ SameState(s, t)
           /\ t.head = n /\ n <= t.next /\ EndOf(t) = EndOf(s) /\ t.high = s.high
<1> DEFINE d == DiscardUpTo(s, n)
           next == Max({s.next, n})
           retx == d.data # << >> /\ (s.retx \/ reset)
           t == NewAck(s, n, reset)
<1>1. /\ SendBufferInv(d) /\ SameState(s, d) /\ d.head = n /\ EndOf(d) = EndOf(s)
      /\ d = [s EXCEPT !.head = n, !.data = d.data]
  BY DiscardSound
<1> HIDE DEF d
<1>2. /\ s \in Sender /\ s.next \in Nat /\ s.next <= EndOf(s) /\ n \in Nat /\ n <= EndOf(s)
      /\ EndOf(s) \in 1 .. Length + 1 /\ Length \in Nat
      /\ s.next >= 1
  <2>1. /\ EndOf(s) \in 1 .. Length + 1 /\ s.head \in 1 .. EndOf(s) /\ Length \in Nat
        /\ s \in Sender /\ s.next \in 1 .. Length + 1 /\ s.next <= EndOf(s)
    BY EndOfType, WrittenType DEF SendBufferInv, Sender, SequenceNumber
  <2>2. QED
    BY <2>1
<1>3. next = IF s.next >= n THEN s.next ELSE n
  BY <1>2, MaxOfTwo
<1>4. next \in 1 .. EndOf(s) /\ n <= next /\ next \in 1 .. Length + 1
  BY <1>2, <1>3
<1>5. d.next = s.next /\ d.retx = s.retx /\ d \in Sender /\ d.high = s.high
  BY <1>1, <1>2 DEF Sender, SendBufferInv
<1>6. t = [d EXCEPT !.next = next, !.retx = retx, !.retries = DataRetries, !.pending = TRUE]
  BY <1>5 DEF NewAck, d
<1> HIDE DEF t, next
<1>7. retx \in BOOLEAN /\ DataRetries \in 0 .. DataRetries /\ next \in SequenceNumber
  BY <1>4, TcpAssumption DEF SequenceNumber
<1> HIDE DEF retx
<1>8. t \in Sender
  BY <1>5, <1>6, <1>7 DEF Sender
<1>9. /\ t.next = next /\ t.head = d.head /\ t.data = d.data /\ t.high = d.high
      /\ SameState(d, t)
  BY <1>5, <1>6 DEF Sender, SameState
<1>10. EndOf(t) = EndOf(s)
  BY <1>1, <1>9 DEF EndOf
<1>11. SendBufferInv(t)
  <2>1. t.next <= EndOf(t)
    BY <1>2, <1>4, <1>9, <1>10
  <2>2. QED
    BY <1>1, <1>8, <1>9, <1>10, <2>1 DEF SendBufferInv, SameState
<1>12. QED
  BY <1>1, <1>4, <1>5, <1>9, <1>10, <1>11 DEF SameState, t

(* A segment that the socket s has sent.                                   *)
Sent(seg, s) ==
    WellSent(seg, s) /\ End(seg) <= s.high

(* A step of the sending socket: what it sends is sound.                   *)
SenderStep ==
    /\ SenderInv(snd')
    /\ snd.high <= snd'.high /\ snd'.options = snd.options
    /\ \A seg \in segments' : seg \in segments \/ Sent(seg, snd')

LEMMA TransmitAdds ==
    ASSUME NEW sent, Transmit(sent)
    PROVE  \A seg \in segments' : seg \in segments \/ seg \in sent
  BY DEF Transmit

LEMMA SenderNumbers ==
    ASSUME NEW s \in Sender
    PROVE  s.head \in Nat /\ s.next \in Nat /\ s.high \in Nat
<1>1. Length \in Nat
  BY WrittenType
<1>2. s.head \in 1 .. Length + 1 /\ s.next \in 1 .. Length + 1 /\ s.high \in 1 .. Length + 1
  BY DEF Sender, SequenceNumber
<1>3. QED
  BY <1>1, <1>2

LEMMA SendSegmentsStep ==
    ASSUME NEW s, SenderInv(s), NEW sent, \A seg \in sent : WellSent(seg, s),
           SendSegments(s, sent)
    PROVE  /\ SenderInv(snd') /\ EndOf(snd') = EndOf(s) /\ snd'.head = s.head
           /\ s.high <= snd'.high /\ snd'.options = s.options
           /\ \A seg \in segments' : seg \in segments \/ Sent(seg, snd')
<1> DEFINE t == SendDataPackets(s, sent)
<1>1. snd' = t /\ Transmit(sent)
  BY DEF SendSegments
<1>2. SendBufferInv(s) /\ \A seg \in sent : Sound(seg, EndOf(s))
  BY DEF SenderInv, WellSent
<1>3. /\ SendBufferInv(t) /\ s.next <= t.next /\ s.high <= t.high
      /\ \A seg \in sent : End(seg) <= t.high
      /\ t = [s EXCEPT !.next = t.next, !.high = t.high, !.retx = t.retx]
  BY <1>2, SendPacketsSound
<1> HIDE DEF t
<1>4. /\ t.head = s.head /\ t.data = s.data /\ SameState(s, t)
  BY <1>2, <1>3 DEF SendBufferInv, Sender, SameState
<1>5. EndOf(t) = EndOf(s)
  BY <1>4 DEF EndOf
<1>6. SenderInv(t)
  <2>1. s.head \in Nat /\ s.next \in Nat /\ t.next \in Nat /\ s.head <= s.next
    <3>1. s \in Sender /\ t \in Sender /\ s.head <= s.next
      BY <1>2, <1>3 DEF SenderInv, SendBufferInv
    <3>2. QED
      BY <3>1, SenderNumbers
  <2>2. t.head <= t.next
    BY <1>3, <1>4, <2>1
  <2>3. (t.cong = "OPEN" => t.dup = 0) /\ (~ t.first => t.cong \in {"RECOVERY", "LOSS"})
    BY <1>4 DEF SenderInv, SameState
  <2>4. QED
    BY <1>3, <2>2, <2>3 DEF SenderInv
<1>7. \A seg \in sent : Sent(seg, t)
  BY <1>3, <1>4, <1>5 DEF Sent, WellSent, SameState
<1>8. \A seg \in segments' : seg \in segments \/ seg \in sent
  BY <1>1, TransmitAdds
<1>9. QED
  BY <1>1, <1>3, <1>4, <1>5, <1>6, <1>7, <1>8 DEF SameState

LEMMA PendingWellSent ==
    ASSUME NEW s, SenderInv(s), NEW window \in Windows
    PROVE  \A seg \in PendingData(s, window) : WellSent(seg, s)
<1>1. window \in SegmentSize .. RcvBufSize /\ window \in Nat /\ window <= RcvBufSize
  BY WindowsFit
<1>2. ASSUME NEW seg \in PendingData(s, window) PROVE WellSent(seg, s)
  <2>1. Sound(seg, EndOf(s)) /\ End(seg) <= s.head + window
    BY <1>1, PendingSound
  <2>2. s.head \in Nat /\ End(seg) \in Nat
    <3>1. SendBufferInv(s) /\ seg \in Segment
      BY <2>1 DEF SenderInv, Sound
    <3>2. seg.seq \in Nat /\ Len(seg.data) \in Nat
      BY <3>1, WrittenType DEF Segment, SequenceNumber, Bytes
    <3>3. s.head \in Nat
      BY <3>1, WrittenType DEF SendBufferInv, Sender, SequenceNumber
    <3>4. QED
      BY <3>2, <3>3 DEF End
  <2>3. End(seg) <= s.head + RcvBufSize
    BY <1>1, <2>1, <2>2, WindowsFit
  <2>4. QED
    BY <2>1, <2>3 DEF WellSent
<1>3. QED
  BY <1>2

LEMMA LimitedWellSent ==
    ASSUME NEW s, SenderInv(s)
    PROVE  \A seg \in LimitedTransmit(s) : WellSent(seg, s)
<1> SUFFICES ASSUME s.options.limitedTx
             PROVE  WellSent(CopyFromSequence(s, s.next, SegmentSize), s)
  BY DEF LimitedTransmit
<1>1. SendBufferInv(s) /\ s.head <= s.next /\ s.next <= EndOf(s)
  BY DEF SenderInv, SendBufferInv
<1>2. s.head \in Nat /\ s.next \in Nat /\ EndOf(s) \in Nat
  <2>1. EndOf(s) \in 1 .. Length + 1 /\ s.head \in 1 .. Length + 1 /\ s.next \in 1 .. Length + 1
    BY <1>1, EndOfType DEF SendBufferInv, Sender, SequenceNumber
  <2>2. QED
    BY <2>1, WrittenType
<1>3. s.next \in s.head .. EndOf(s) /\ SegmentSize \in 0 .. SegmentSize
  BY <1>1, <1>2, WindowsFit
<1>4. Sound(CopyFromSequence(s, s.next, SegmentSize), EndOf(s))
  BY <1>1, <1>3, CopySound
<1>5. QED
  BY <1>4 DEF WellSent

LEMMA SendStep ==
    ASSUME SenderInv(snd), Send
    PROVE  SenderStep /\ snd'.head = snd.head
<1> DEFINE size == Writes[snd.writes + 1]
           w == snd.writes
           more == [i \in 1 .. size |-> Written(w) + i]
           S == 1 .. Length
           q == snd.data
<1>1. /\ snd' = [snd EXCEPT !.writes = @ + 1, !.pending = TRUE, !.data = @ \o more]
      /\ snd.writes < Len(Writes) /\ segments' = segments
  BY DEF Send
<1>2. /\ SendBufferInv(snd) /\ snd \in Sender /\ w \in 0 .. Len(Writes) /\ q \in Seq(S)
      /\ snd.head \in Nat /\ EndOf(snd) = snd.head + Len(q) /\ EndOf(snd) = Written(w) + 1
  BY WrittenType DEF SenderInv, SendBufferInv, Sender, Bytes, EndOf, SequenceNumber
<1>3. /\ Writes \in Seq(Nat \ {0}) /\ Len(Writes) \in Nat
  BY TcpAssumption
<1>4. w + 1 \in 0 .. Len(Writes) /\ w \in Nat
  BY <1>1, <1>2, <1>3
<1>5. /\ size \in Nat \ {0} /\ Written(w + 1) = Written(w) + size
      /\ Written(w) \in 0 .. Length /\ Written(w + 1) \in 0 .. Length /\ Length \in Nat
  BY <1>1, <1>2, <1>4, WrittenStep, WrittenType
<1> HIDE DEF size, w
<1>6. more \in Seq(S) /\ Len(more) = size /\ \A i \in 1 .. size : more[i] = Written(w) + i
  <2>1. \A i \in 1 .. size : Written(w) + i \in S
    BY <1>5
  <2> HIDE DEF S
  <2>2. more \in [1 .. size -> S]
    BY <2>1
  <2>3. QED
    BY <1>5, <2>2
<1> DEFINE both == q \o more
<1>7. /\ both \in Seq(S) /\ Len(both) = Len(q) + size
      /\ \A i \in 1 .. Len(q) + size : both[i] = IF i <= Len(q) THEN q[i] ELSE more[i - Len(q)]
  <2> HIDE DEF S, q, more
  <2>1. QED
    BY <1>2, <1>6, ConcatProperties
<1> HIDE DEF more, both
<1>8. /\ snd' \in Sender
  <2>1. snd' = [snd EXCEPT !.writes = w + 1, !.pending = TRUE, !.data = both]
    BY <1>1 DEF both, w
  <2>2. QED
    BY <1>2, <1>4, <1>7, <2>1 DEF Sender, Bytes
<1>9. /\ snd'.writes = w + 1 /\ snd'.data = both /\ snd'.head = snd.head
      /\ snd'.next = snd.next /\ snd'.high = snd.high
      /\ snd'.cong = snd.cong /\ snd'.dup = snd.dup /\ snd'.first = snd.first
      /\ snd'.options = snd.options
  BY <1>1, <1>2 DEF Sender, both, w
<1>10. EndOf(snd') = EndOf(snd) + size /\ EndOf(snd') = Written(snd'.writes) + 1
  <2>1. Len(q) \in Nat
    BY <1>2
  <2>2. EndOf(snd') = snd.head + (Len(q) + size)
    BY <1>7, <1>9 DEF EndOf
  <2>3. EndOf(snd') = EndOf(snd) + size
    <3> HIDE DEF q
    <3>1. QED
      BY <1>2, <1>5, <2>1, <2>2
  <2>4. EndOf(snd') = Written(w + 1) + 1
    BY <1>2, <1>5, <2>3
  <2>5. QED
    BY <1>9, <2>3, <2>4
<1>11. Consecutive(snd'.head, snd'.data)
  <2> SUFFICES ASSUME NEW i \in 1 .. Len(q) + size PROVE both[i] = snd.head + i - 1
    <3>1. DOMAIN both = 1 .. Len(q) + size
      BY <1>7
    <3>2. QED
      BY <1>9, <3>1 DEF Consecutive
  <2>1. Len(q) \in Nat /\ i \in Nat /\ 1 <= i /\ i <= Len(q) + size
    BY <1>2, <1>5
  <2>2. CASE i <= Len(q)
    <3>1. i \in DOMAIN snd.data
      BY <1>2, <2>1, <2>2
    <3>2. QED
      BY <1>2, <1>7, <2>2, <3>1 DEF SendBufferInv, Consecutive
  <2>3. CASE i > Len(q)
    <3>1. i - Len(q) \in 1 .. size
      BY <1>5, <2>1, <2>3
    <3>2. both[i] = Written(w) + (i - Len(q))
      BY <1>6, <1>7, <2>1, <2>3, <3>1
    <3>3. Written(w) + 1 = snd.head + Len(q) /\ Written(w) \in Nat
      BY <1>2, <1>5
    <3>4. snd.head \in Nat
      BY <1>2
    <3> DEFINE len == Len(q)
               head == snd.head
    <3> HIDE DEF len, head
    <3>5. Written(w) + (i - len) = head + i - 1
      BY <2>1, <3>3, <3>4 DEF len, head
    <3>6. QED
      BY <3>2, <3>5 DEF len, head
  <2>4. QED
    BY <2>1, <2>2, <2>3
<1>12. EndOf(snd) \in Nat /\ EndOf(snd) <= EndOf(snd')
  BY <1>2, <1>5, <1>10
<1>13. SenderInv(snd')
  <2>1. snd.next <= EndOf(snd') /\ snd.high <= EndOf(snd')
    <3>1. snd.next \in Nat /\ snd.high \in Nat /\ snd.next <= EndOf(snd) /\ snd.high <= EndOf(snd)
      BY <1>2, WrittenType DEF SendBufferInv, Sender, SequenceNumber
    <3>2. EndOf(snd) \in Nat /\ EndOf(snd') \in Nat /\ EndOf(snd) <= EndOf(snd')
      BY <1>5, <1>10, <1>12
    <3>3. QED
      BY <3>1, <3>2
  <2>2. SendBufferInv(snd')
    BY <1>8, <1>9, <1>10, <1>11, <2>1 DEF SendBufferInv
  <2>3. QED
    BY <1>9, <2>2 DEF SenderInv
<1>14. snd.high <= snd'.high
  BY <1>2, <1>9, SenderNumbers
<1>15. QED
  BY <1>1, <1>9, <1>13, <1>14 DEF SenderStep

(* A socket that differs in none of what SenderInv is about.               *)
LEMMA SameBuffer ==
    ASSUME NEW s, SendBufferInv(s), NEW t \in Sender,
           t.writes = s.writes, t.head = s.head, t.data = s.data,
           t.next \in {s.next, s.head}, t.high = s.high
    PROVE  SendBufferInv(t) /\ EndOf(t) = EndOf(s)
<1>1. EndOf(t) = EndOf(s)
  BY DEF EndOf
<1>2. s.head <= EndOf(s)
  <2>1. s.head \in 1 .. EndOf(s) /\ EndOf(s) \in 1 .. Length + 1
    BY EndOfType
  <2>2. QED
    BY <2>1, WrittenType
<1>3. t.next <= EndOf(t)
  BY <1>1, <1>2 DEF SendBufferInv
<1>4. QED
  BY <1>1, <1>3 DEF SendBufferInv

LEMMA SendPendingDataStep ==
    ASSUME SenderInv(snd), SendPendingData
    PROVE  SenderStep /\ snd'.head = snd.head
<1> DEFINE s == [snd EXCEPT !.pending = FALSE]
<1>1. snd \in Sender /\ SendBufferInv(snd)
  BY DEF SenderInv, SendBufferInv
<1>2. s \in Sender
  BY <1>1 DEF Sender
<1>3. /\ s.writes = snd.writes /\ s.head = snd.head /\ s.data = snd.data /\ s.next = snd.next
      /\ s.high = snd.high /\ SameState(snd, s)
  BY <1>1 DEF Sender, SameState
<1>4. \/ snd' = s /\ segments' = segments
      \/ \E window \in Windows : SendSegments(s, PendingData(snd, window))
  BY DEF SendPendingData
<1> HIDE DEF s
<1>5. SendBufferInv(s) /\ EndOf(s) = EndOf(snd)
  BY <1>1, <1>2, <1>3, SameBuffer
<1>6. SenderInv(s)
  BY <1>3, <1>5 DEF SenderInv, SameState
<1>7. CASE snd' = s /\ segments' = segments
  <2>1. snd.high <= snd'.high
    BY <1>1, <1>3, <1>7, SenderNumbers
  <2>2. QED
    BY <1>3, <1>6, <1>7, <2>1 DEF SenderStep, SameState
<1>8. ASSUME NEW window \in Windows, SendSegments(s, PendingData(snd, window))
      PROVE  SenderStep /\ snd'.head = snd.head
  <2> DEFINE sent == PendingData(snd, window)
  <2>1. \A seg \in sent : WellSent(seg, snd)
    BY PendingWellSent
  <2>2. SendSegments(s, sent)
    BY <1>8
  <2> HIDE DEF sent
  <2>3. \A seg \in sent : WellSent(seg, s)
    BY <1>3, <1>5, <2>1 DEF WellSent, SameState
  <2>4. /\ SenderInv(snd') /\ snd'.head = s.head
        /\ s.high <= snd'.high /\ snd'.options = s.options
        /\ \A seg \in segments' : seg \in segments \/ Sent(seg, snd')
    BY <1>6, <2>2, <2>3, SendSegmentsStep
  <2>5. QED
    BY <1>3, <2>4 DEF SenderStep, SameState
<1>9. QED
  BY <1>4, <1>7, <1>8

(* The oldest segment once more, from a socket s with the buffer of snd.   *)
LEMMA RetransmitStep ==
    ASSUME SenderInv(snd), NEW s \in Sender,
           s.writes = snd.writes, s.head = snd.head, s.data = snd.data,
           s.next \in {snd.next, snd.head}, s.high = snd.high,
           s.retries = snd.retries, s.cong \in {"RECOVERY", "LOSS"}, s.options = snd.options,
           snd' = DoRetransmit(s), Transmit(Retransmitted(snd))
    PROVE  SenderStep /\ snd'.head = snd.head
<1>1. SendBufferInv(snd) /\ SendBufferInv(s) /\ EndOf(s) = EndOf(snd)
  <2>1. SendBufferInv(snd)
    BY DEF SenderInv
  <2>2. QED
    BY <2>1, SameBuffer
<1>2. /\ SendBufferInv(snd') /\ SameState(s, snd')
      /\ s.next <= snd'.next /\ s.high <= snd'.high
      /\ snd'.head = s.head /\ snd'.data = s.data
      /\ \A seg \in Retransmitted(s) : End(seg) <= snd'.high
  BY <1>1, DoRetransmitSound
<1>3. EndOf(snd') = EndOf(snd) /\ EndOf(snd) \in Nat
  BY <1>1, <1>2, EndOfType, WrittenType DEF EndOf
<1>4. snd'.head <= snd'.next
  <2>1. s.head <= s.next /\ snd.head \in Nat /\ snd.next \in Nat /\ snd'.next \in Nat
    <3>1. snd.head <= snd.next /\ snd \in Sender /\ snd' \in Sender
      BY <1>1, <1>2 DEF SenderInv, SendBufferInv
    <3>2. QED
      BY <3>1, SenderNumbers
  <2>2. QED
    BY <1>2, <2>1
<1>5. SenderInv(snd')
  BY <1>2, <1>4 DEF SenderInv, SameState
<1>6. \A seg \in Retransmitted(snd) : Sent(seg, snd')
  <2>1. \A seg \in Retransmitted(snd) :
           Sound(seg, EndOf(snd)) /\ End(seg) <= snd.head + RcvBufSize
    BY <1>1, RetransmittedSound
  <2>2. Retransmitted(s) = Retransmitted(snd)
    BY DEF Retransmitted, CopyFromSequence
  <2>3. QED
    BY <1>2, <1>3, <2>1, <2>2 DEF Sent, WellSent
<1>7. \A seg \in segments' : seg \in segments \/ seg \in Retransmitted(snd)
  <2> DEFINE sent == Retransmitted(snd)
  <2> HIDE DEF sent
  <2>1. Transmit(sent)
    BY DEF sent
  <2>2. \A seg \in segments' : seg \in segments \/ seg \in sent
    BY <2>1, TransmitAdds
  <2>3. QED
    BY <2>2 DEF sent
<1>8. QED
  BY <1>2, <1>3, <1>5, <1>6, <1>7 DEF SenderStep, SameState

LEMMA ReTxTimeoutStep ==
    ASSUME SenderInv(snd), ReTxTimeout
    PROVE  SenderStep /\ snd'.head = snd.head
<1> DEFINE expired == [snd EXCEPT !.retx = FALSE]
<1>1. SendBufferInv(snd) /\ snd \in Sender
  BY DEF SenderInv, SendBufferInv
<1>2. CASE snd.head >= snd.high /\ snd' = expired /\ segments' = segments
  <2>1. snd' \in Sender
    BY <1>1, <1>2 DEF Sender
  <2>2. /\ snd'.writes = snd.writes /\ snd'.head = snd.head /\ snd'.data = snd.data
        /\ snd'.next = snd.next /\ snd'.high = snd.high /\ SameState(snd, snd')
    BY <1>1, <1>2 DEF Sender, SameState
  <2>3. SendBufferInv(snd') /\ EndOf(snd') = EndOf(snd)
    BY <1>1, <2>1, <2>2, SameBuffer
  <2>4. SenderInv(snd')
    BY <2>2, <2>3 DEF SenderInv, SameState
  <2>5. snd.high <= snd'.high
    BY <1>1, <2>2, SenderNumbers
  <2>6. QED
    BY <1>2, <2>2, <2>3, <2>4, <2>5 DEF SenderStep, SameState
<1>3. CASE /\ snd.head < snd.high
           /\ snd' = Retransmit(expired)
           /\ Transmit(Retransmitted(snd))
  <2> DEFINE s == [expired EXCEPT !.recover = expired.high, !.cong = "LOSS",
                                  !.next = expired.head, !.dup = 0]
  <2>1. snd' = DoRetransmit(s)
    BY <1>3 DEF Retransmit
  <2>2. expired \in Sender /\ expired.high = snd.high /\ expired.head = snd.head
    BY <1>1 DEF Sender
  <2>3. s = [snd EXCEPT !.retx = FALSE, !.recover = snd.high, !.cong = "LOSS",
                        !.next = snd.head, !.dup = 0]
    BY <1>1, <2>2
  <2> HIDE DEF s, expired
  <2>4. snd.high \in 0 .. Length + 1 /\ 0 \in 0 .. ReTxThreshold + 1
    <3>1. Length \in Nat /\ ReTxThreshold \in Nat
      BY WrittenType, TcpAssumption
    <3>2. snd.high \in 1 .. Length + 1
      BY <1>1 DEF Sender, SequenceNumber
    <3>3. QED
      BY <3>1, <3>2
  <2>5. s \in Sender
    BY <1>1, <2>3, <2>4 DEF Sender
  <2>6. /\ s.writes = snd.writes /\ s.head = snd.head /\ s.data = snd.data
        /\ s.next = snd.head /\ s.high = snd.high
        /\ s.retries = snd.retries /\ s.cong = "LOSS" /\ s.options = snd.options
    BY <1>1, <2>3 DEF Sender
  <2>7. QED
    BY <1>3, <2>1, <2>5, <2>6, RetransmitStep
<1>4. QED
  BY <1>2, <1>3 DEF ReTxTimeout

LEMMA CountDupAckType ==
    ASSUME NEW s \in Sender
    PROVE  /\ CountDupAck(s) = [s EXCEPT !.dup = CountDupAck(s).dup]
           /\ CountDupAck(s) \in Sender
<1> DEFINE dup == Min({s.dup + 1, ReTxThreshold + 1})
<1>1. s.dup \in 0 .. ReTxThreshold + 1 /\ ReTxThreshold \in Nat
  BY TcpAssumption DEF Sender
<1>2. dup = IF s.dup + 1 <= ReTxThreshold + 1 THEN s.dup + 1 ELSE ReTxThreshold + 1
  BY <1>1, MinOfTwo
<1>3. dup \in 0 .. ReTxThreshold + 1
  BY <1>1, <1>2
<1>4. CountDupAck(s) = [s EXCEPT !.dup = dup]
  BY DEF CountDupAck
<1> HIDE DEF dup
<1>5. [s EXCEPT !.dup = dup].dup = dup
  BY DEF Sender
<1>6. QED
  BY <1>3, <1>4, <1>5 DEF Sender

LEMMA HandleDupAckStep ==
    ASSUME SenderInv(snd), HandleDupAck
    PROVE  SenderStep /\ snd'.head = snd.head
<1> DEFINE c == CountDupAck(snd)
<1>1. SendBufferInv(snd) /\ snd \in Sender
  BY DEF SenderInv, SendBufferInv
<1>2. c = [snd EXCEPT !.dup = c.dup] /\ c \in Sender
  BY <1>1, CountDupAckType
<1> HIDE DEF c
<1>3. snd.high \in Nat
  BY <1>1, SenderNumbers
<1>4. ASSUME NEW s, SenderInv(s), s.head = snd.head, s.high = snd.high,
             s.options = snd.options,
             NEW sent, SendSegments(s, sent), \A seg \in sent : WellSent(seg, s)
      PROVE  SenderStep /\ snd'.head = snd.head
  <2>1. /\ SenderInv(snd') /\ snd'.head = s.head
        /\ s.high <= snd'.high /\ snd'.options = s.options
        /\ \A seg \in segments' : seg \in segments \/ Sent(seg, snd')
    BY <1>4, SendSegmentsStep
  <2>2. QED
    BY <1>4, <2>1 DEF SenderStep
<1>5. CASE SendSegments([c EXCEPT !.cong = "DISORDER"], LimitedTransmit(snd))
           /\ snd.cong \in {"OPEN", "DISORDER"}
  <2> DEFINE s == [c EXCEPT !.cong = "DISORDER"]
  <2>1. s \in Sender
    BY <1>2 DEF Sender
  <2>2. /\ s.writes = snd.writes /\ s.head = snd.head /\ s.data = snd.data
        /\ s.next = snd.next /\ s.high = snd.high /\ s.first = snd.first
        /\ s.cong = "DISORDER" /\ s.options = snd.options
    BY <1>1, <1>2 DEF Sender
  <2>3. SendSegments(s, LimitedTransmit(snd))
    BY <1>5
  <2> HIDE DEF s
  <2>4. SendBufferInv(s) /\ EndOf(s) = EndOf(snd)
    BY <1>1, <2>1, <2>2, SameBuffer
  <2>5. SenderInv(s)
    BY <1>5, <2>2, <2>4 DEF SenderInv
  <2>6. \A seg \in LimitedTransmit(snd) : WellSent(seg, s)
    <3>1. \A seg \in LimitedTransmit(snd) : WellSent(seg, snd)
      BY LimitedWellSent
    <3>2. QED
      BY <2>2, <2>4, <3>1 DEF WellSent
  <2> DEFINE sent == LimitedTransmit(snd)
  <2> HIDE DEF sent
  <2>7. SendSegments(s, sent) /\ \A seg \in sent : WellSent(seg, s)
    BY <2>3, <2>6 DEF sent
  <2>8. QED
    BY <1>4, <2>2, <2>5, <2>7
<1>6. CASE /\ snd' = DoRetransmit([c EXCEPT !.recover = snd.high, !.cong = "RECOVERY"])
           /\ Transmit(Retransmitted(snd))
  <2> DEFINE s == [c EXCEPT !.recover = snd.high, !.cong = "RECOVERY"]
  <2>1. snd.high \in 0 .. Length + 1
    <3>1. Length \in Nat /\ snd.high \in 1 .. Length + 1
      BY <1>1, WrittenType DEF Sender, SequenceNumber
    <3>2. QED
      BY <3>1
  <2>2. s \in Sender
    BY <1>2, <2>1 DEF Sender
  <2>3. /\ s.writes = snd.writes /\ s.head = snd.head /\ s.data = snd.data
        /\ s.next = snd.next /\ s.high = snd.high
        /\ s.retries = snd.retries /\ s.cong = "RECOVERY" /\ s.options = snd.options
    BY <1>1, <1>2 DEF Sender
  <2>4. snd' = DoRetransmit(s)
    BY <1>6
  <2> HIDE DEF s
  <2>5. QED
    BY <1>6, <2>2, <2>3, <2>4, RetransmitStep
<1>7. CASE \E window \in Windows : SendSegments(snd, PendingData(snd, window))
  <2>1. PICK window \in Windows : SendSegments(snd, PendingData(snd, window))
    BY <1>7
  <2>2. \A seg \in PendingData(snd, window) : WellSent(seg, snd)
    BY PendingWellSent
  <2> DEFINE sent == PendingData(snd, window)
  <2> HIDE DEF sent
  <2>3. SendSegments(snd, sent) /\ \A seg \in sent : WellSent(seg, snd)
    BY <2>1, <2>2 DEF sent
  <2>4. QED
    BY <1>4, <2>3
<1>8. CASE UNCHANGED <<snd, segments>>
  BY <1>3, <1>8 DEF SenderStep
<1>9. QED
  <2>1. \/ /\ SendSegments([c EXCEPT !.cong = "DISORDER"], LimitedTransmit(snd))
           /\ snd.cong \in {"OPEN", "DISORDER"}
        \/ /\ snd' = DoRetransmit([c EXCEPT !.recover = snd.high, !.cong = "RECOVERY"])
           /\ Transmit(Retransmitted(snd))
        \/ \E window \in Windows : SendSegments(snd, PendingData(snd, window))
        \/ UNCHANGED <<snd, segments>>
    BY DEF HandleDupAck, c
  <2>2. QED
    BY <1>5, <1>6, <1>7, <1>8, <2>1

LEMMA HandleNewAckStep ==
    ASSUME SenderInv(snd), NEW n \in snd.head .. EndOf(snd), HandleNewAck(n)
    PROVE  SenderStep /\ snd'.head = n
<1>1. SendBufferInv(snd) /\ snd \in Sender /\ EndOf(snd) \in Nat
  <2>1. SendBufferInv(snd) /\ snd \in Sender
    BY DEF SenderInv, SendBufferInv
  <2>2. QED
    BY <2>1, EndOfType, WrittenType
<1>2. CASE snd' = NewAck(Reopened(snd), n, TRUE) /\ segments' = segments
  <2> DEFINE s == Reopened(snd)
             dup == IF snd.cong = "OPEN" THEN snd.dup ELSE 0
             first == snd.first \/ snd.cong \in {"RECOVERY", "LOSS"}
  <2>1. s = [snd EXCEPT !.cong = "OPEN", !.first = first, !.dup = dup]
    BY DEF Reopened
  <2>2. dup = 0 /\ dup \in 0 .. ReTxThreshold + 1 /\ first = TRUE
    <3>1. dup = 0 /\ ReTxThreshold \in Nat
      BY TcpAssumption DEF SenderInv
    <3>2. first
      BY DEF SenderInv
    <3>3. snd.first \in BOOLEAN
      BY <1>1 DEF Sender
    <3>4. QED
      BY <3>1, <3>2, <3>3
  <2> HIDE DEF s, dup, first
  <2>3. s \in Sender
    BY <1>1, <2>1, <2>2 DEF Sender
  <2>4. /\ s.writes = snd.writes /\ s.head = snd.head /\ s.data = snd.data
        /\ s.next = snd.next /\ s.high = snd.high
        /\ s.cong = "OPEN" /\ s.dup = 0 /\ s.first = TRUE /\ s.options = snd.options
    BY <1>1, <2>1, <2>2 DEF Sender
  <2>5. SendBufferInv(s) /\ EndOf(s) = EndOf(snd)
    BY <1>1, <2>3, <2>4, SameBuffer
  <2>6. /\ SendBufferInv(snd') /\ SameState(s, snd')
        /\ snd'.head = n /\ n <= snd'.next /\ snd'.high = s.high
    <3>1. n \in s.head .. EndOf(s) /\ TRUE \in BOOLEAN /\ snd' = NewAck(s, n, TRUE)
      BY <1>2, <2>4, <2>5 DEF s
    <3>2. QED
      BY <2>5, <3>1, NewAckSound
  <2>7. SenderInv(snd')
    BY <2>4, <2>6 DEF SenderInv, SameState
  <2>8. segments' = segments /\ snd'.high = snd.high /\ snd'.options = snd.options
    BY <1>2, <2>4, <2>6 DEF SameState
  <2>9. snd.high <= snd'.high
    BY <1>1, <2>8, SenderNumbers
  <2>10. QED
    BY <2>6, <2>7, <2>8, <2>9, Zenon DEF SenderStep
<1>3. CASE LET rest == DiscardUpTo(snd, n) IN
           /\ snd' = [NewAck(DoRetransmit(rest), n, snd.first) EXCEPT !.first = FALSE]
           /\ Transmit(Retransmitted(rest))
           /\ snd.cong = "RECOVERY"
  <2> DEFINE rest == DiscardUpTo(snd, n)
             d == DoRetransmit(rest)
             a == NewAck(d, n, snd.first)
  <2>1. /\ SendBufferInv(rest) /\ SameState(snd, rest)
        /\ rest.head = n /\ EndOf(rest) = EndOf(snd) /\ rest.high = snd.high
    BY <1>1, DiscardSound
  <2>2. /\ snd' = [a EXCEPT !.first = FALSE]
        /\ Transmit(Retransmitted(rest))
        /\ snd.cong = "RECOVERY"
    BY <1>3
  <2> HIDE DEF rest
  <2>3. /\ SendBufferInv(d) /\ SameState(rest, d)
        /\ d.head = rest.head /\ d.data = rest.data /\ rest.high <= d.high
        /\ \A seg \in Retransmitted(rest) : End(seg) <= d.high
    BY <2>1, DoRetransmitSound
  <2> HIDE DEF d
  <2>4. EndOf(d) = EndOf(snd) /\ d.head = n
    BY <2>1, <2>3 DEF EndOf
  <2>5. /\ SendBufferInv(a) /\ SameState(d, a)
        /\ a.head = n /\ n <= a.next /\ EndOf(a) = EndOf(d) /\ a.high = d.high
    <3>1. n \in d.head .. EndOf(d) /\ snd.first \in BOOLEAN
      <4>1. n \in Nat /\ n <= EndOf(snd)
        <5>1. snd.head \in Nat
          BY <1>1, SenderNumbers
        <5>2. QED
          BY <1>1, <5>1
      <4>2. QED
        BY <1>1, <2>4, <4>1 DEF Sender
    <3>2. QED
      BY <2>3, <3>1, NewAckSound
  <2> HIDE DEF a
  <2>6. a \in Sender
    BY <2>5 DEF SendBufferInv
  <2>7. snd' \in Sender
    BY <2>2, <2>6 DEF Sender
  <2>8. /\ snd'.writes = a.writes /\ snd'.head = a.head /\ snd'.data = a.data
        /\ snd'.next = a.next /\ snd'.high = a.high
        /\ snd'.cong = a.cong /\ snd'.options = a.options
    BY <2>2, <2>6 DEF Sender
  <2>9. SendBufferInv(snd') /\ EndOf(snd') = EndOf(a)
    BY <2>5, <2>7, <2>8, SameBuffer
  <2>10. snd'.cong = "RECOVERY" /\ snd'.options = snd.options
    BY <2>1, <2>2, <2>3, <2>5, <2>8 DEF SameState
  <2>11. SenderInv(snd')
    BY <2>5, <2>8, <2>9, <2>10 DEF SenderInv
  <2>12. \A seg \in Retransmitted(rest) : Sent(seg, snd')
    <3>1. \A seg \in Retransmitted(rest) :
             Sound(seg, EndOf(rest)) /\ End(seg) <= rest.head + RcvBufSize
      BY <2>1, RetransmittedSound
    <3>2. QED
      BY <2>1, <2>3, <2>4, <2>5, <2>8, <2>9, <3>1 DEF Sent, WellSent
  <2>13. \A seg \in segments' : seg \in segments \/ seg \in Retransmitted(rest)
    <3> DEFINE sent == Retransmitted(rest)
    <3> HIDE DEF sent
    <3>1. Transmit(sent)
      BY <2>2 DEF sent
    <3>2. \A seg \in segments' : seg \in segments \/ seg \in sent
      BY <3>1, TransmitAdds
    <3>3. QED
      BY <3>2 DEF sent
  <2>14. QED
    BY <2>1, <2>3, <2>5, <2>8, <2>10, <2>11, <2>12, <2>13 DEF SenderStep
<1>4. QED
  <2>1. CASE snd.cong # "RECOVERY" \/ n >= snd.recover
    <3>1. \/ snd' = NewAck(Reopened(snd), n, TRUE) /\ segments' = segments
          \/ LET rest == DiscardUpTo(snd, n) IN
             /\ snd' = [NewAck(DoRetransmit(rest), n, snd.first) EXCEPT !.first = FALSE]
             /\ Transmit(Retransmitted(rest))
             /\ snd.cong = "RECOVERY"
      BY Zenon DEF HandleNewAck
    <3>2. QED
      BY <1>2, <1>3, <3>1
  <2>2. CASE ~ (snd.cong # "RECOVERY" \/ n >= snd.recover)
    <3>1. LET rest == DiscardUpTo(snd, n) IN
             /\ snd' = [NewAck(DoRetransmit(rest), n, snd.first) EXCEPT !.first = FALSE]
             /\ Transmit(Retransmitted(rest))
             /\ snd.cong = "RECOVERY"
      BY <2>2, Zenon DEF HandleNewAck
    <3>2. QED
      BY <1>3, <3>1
  <2>3. QED
    BY <2>1, <2>2

-----------------------------------------------------------------------------
(* The receive buffer.                                                     *)

BlockEnd(r, b) == b + Len(r.data[b])

(* The first byte that the application has not read.                       *)
Unread(r) == r.next - r.avail

(* The blocks hold bytes of the stream before end, and do not overlap.     *)
Placed(r, end) ==
    \A b \in Blocks(r) :
        /\ Consecutive(b, r.data[b])
        /\ BlockEnd(r, b) <= end
        /\ \A c \in Blocks(r) : b < c => BlockEnd(r, b) <= c

(* What is available begins with a block, ends with one, and has no gap.   *)
BufferInv(r, end) ==
    /\ r \in Receiver
    /\ Placed(r, end)
    /\ r.avail < r.next /\ r.next <= end
    /\ r.read = [i \in 1 .. Unread(r) - 1 |-> i]
    /\ \A b \in Blocks(r) : Unread(r) <= b /\ (b < r.next => BlockEnd(r, b) <= r.next)
    /\ Unread(r) .. r.next - 1 \subseteq Held(r)
    /\ r.size = Cardinality(Held(r))

Buffers == [1 .. Length -> Bytes]

LEMMA BlockNumbers ==
    ASSUME NEW r, r.data \in Buffers, NEW b \in 1 .. Length
    PROVE  /\ Len(r.data[b]) \in Nat /\ BlockEnd(r, b) \in Nat /\ b \in Nat
           /\ r.data[b] \in Seq(1 .. Length) /\ DOMAIN r.data[b] = 1 .. Len(r.data[b])
           /\ b <= BlockEnd(r, b)
           /\ b \in Blocks(r) <=> b < BlockEnd(r, b)
<1> DEFINE q == r.data[b]
           S == 1 .. Length
<1>1. q \in Seq(S) /\ b \in Nat
  BY WrittenType DEF Buffers, Bytes
<1>2. b \in Blocks(r) <=> q # << >>
  BY DEF Blocks
<1> HIDE DEF q, S
<1>3. Len(q) \in Nat /\ DOMAIN q = 1 .. Len(q) /\ (q = << >> <=> Len(q) = 0)
  BY <1>1
<1>4. BlockEnd(r, b) = b + Len(q)
  BY DEF BlockEnd, q
<1>5. b + Len(q) \in Nat /\ b <= b + Len(q) /\ (q # << >> <=> b < b + Len(q))
  BY <1>1, <1>3
<1>6. QED
  BY <1>1, <1>2, <1>3, <1>4, <1>5 DEF q, S

LEMMA HeldIs ==
    ASSUME NEW r, r.data \in Buffers
    PROVE  \A x : x \in Held(r) <=>
                  x \in Nat /\ \E b \in Blocks(r) : b <= x /\ x < BlockEnd(r, b)
<1>1. Blocks(r) \subseteq 1 .. Length
  BY DEF Blocks
<1>2. ASSUME NEW x, x \in Held(r)
      PROVE  x \in Nat /\ \E b \in Blocks(r) : b <= x /\ x < BlockEnd(r, b)
  <2>1. PICK b \in Blocks(r) : \E i \in DOMAIN r.data[b] : x = b + i - 1
    BY <1>2 DEF Held
  <2>2. b \in Nat /\ DOMAIN r.data[b] = 1 .. Len(r.data[b]) /\ Len(r.data[b]) \in Nat
    BY <1>1, BlockNumbers
  <2>3. x \in Nat /\ b <= x /\ x < b + Len(r.data[b])
    BY <2>1, <2>2
  <2>4. QED
    BY <2>3 DEF BlockEnd
<1>3. ASSUME NEW x \in Nat, NEW b \in Blocks(r), b <= x, x < BlockEnd(r, b)
      PROVE  x \in Held(r)
  <2>1. b \in Nat /\ DOMAIN r.data[b] = 1 .. Len(r.data[b]) /\ Len(r.data[b]) \in Nat
    BY <1>1, BlockNumbers
  <2>2. x - b + 1 \in 1 .. Len(r.data[b]) /\ x = b + (x - b + 1) - 1
    BY <1>3, <2>1 DEF BlockEnd
  <2>3. x - b + 1 \in DOMAIN r.data[b]
    BY <2>1, <2>2
  <2>4. x \in {b + i - 1 : i \in DOMAIN r.data[b]}
    BY <2>2, <2>3
  <2>5. QED
    BY <2>4 DEF Held
<1>4. QED
  BY <1>2, <1>3

LEMMA HeldRange ==
    ASSUME NEW r, r.data \in Buffers, NEW end \in 1 .. Length + 1, Placed(r, end)
    PROVE  /\ Held(r) \subseteq 1 .. end - 1
           /\ IsFiniteSet(Held(r)) /\ Cardinality(Held(r)) \in 0 .. Length
<1>1. Length \in Nat /\ end \in Nat /\ end <= Length + 1
  BY WrittenType
<1>2. ASSUME NEW x \in Held(r) PROVE x \in 1 .. end - 1
  <2>1. PICK b \in Blocks(r) : x \in Nat /\ b <= x /\ x < BlockEnd(r, b)
    BY HeldIs
  <2>2. b \in 1 .. Length /\ BlockEnd(r, b) <= end
    BY DEF Placed, Blocks
  <2>3. BlockEnd(r, b) \in Nat /\ b \in Nat /\ b >= 1
    BY <2>2, BlockNumbers
  <2>4. QED
    BY <1>1, <2>1, <2>2, <2>3
<1>3. /\ IsFiniteSet(1 .. Length) /\ Cardinality(1 .. Length) = Length
  BY <1>1, FS_Interval
<1>4. Held(r) \subseteq 1 .. Length
  BY <1>1, <1>2
<1>5. /\ IsFiniteSet(Held(r)) /\ Cardinality(Held(r)) <= Length
  BY <1>3, <1>4, FS_Subset
<1>6. Cardinality(Held(r)) \in Nat
  BY <1>5, FS_CardinalityType
<1>7. QED
  BY <1>1, <1>2, <1>5, <1>6

(* After the blocks up to k have been taken off a part of seg, what is     *)
(* left is new, within the segment and in the window; the blocks up to k   *)
(* are inside of it and covered, or beside it.                             *)
TrimmedUpTo(r, seg, part, k) ==
    part.head < part.tail =>
        /\ seg.seq <= part.head /\ r.next <= part.head
        /\ part.tail <= End(seg)
        /\ Blocks(r) = {} => part.head \in {seg.seq, r.next}
        /\ Blocks(r) # {} => part.tail <= MaxRxSequence(r)
        /\ part.covered \subseteq Blocks(r) \cap (1 .. k)
        /\ \A b \in Blocks(r) : b <= k =>
               IF b \in part.covered
               THEN part.head < b /\ BlockEnd(r, b) <= part.tail
               ELSE BlockEnd(r, b) <= part.head \/ part.tail <= b

Part == [head : Nat, tail : Nat, covered : SUBSET (1 .. Length)]

LEMMA FirstBlockIs ==
    ASSUME NEW r, Blocks(r) # {}
    PROVE  /\ FirstBlock(r) \in Blocks(r) /\ FirstBlock(r) \in 1 .. Length
           /\ \A b \in Blocks(r) : FirstBlock(r) <= b
           /\ MaxRxSequence(r) = FirstBlock(r) + RcvBufSize
<1> DEFINE B == Blocks(r)
<1>1. B \subseteq 1 .. Length /\ B \in SUBSET Nat
  BY WrittenType DEF Blocks
<1>2. MaxRxSequence(r) = FirstBlock(r) + RcvBufSize
  BY DEF MaxRxSequence
<1> HIDE DEF B
<1>3. Min(B) \in B /\ \A b \in B : Min(B) <= b
  <2>1. B # {}
    BY DEF B
  <2>2. QED
    BY <1>1, <2>1, MinIsLeast
<1>4. QED
  BY <1>1, <1>2, <1>3 DEF FirstBlock, B

LEMMA InWindowTrimmed ==
    ASSUME NEW r \in Receiver, NEW seg \in Segment
    PROVE  InWindow(r, seg) \in Part /\ TrimmedUpTo(r, seg, InWindow(r, seg), 0)
<1> DEFINE head == Max({seg.seq, r.next})
           tail == IF Blocks(r) = {} THEN End(seg) ELSE Min({End(seg), MaxRxSequence(r)})
           first == Min({head, tail})
           p == InWindow(r, seg)
<1>1. seg.seq \in Nat /\ r.next \in Nat /\ End(seg) \in Nat
  <2>1. /\ seg.seq \in 1 .. Length + 1 /\ r.next \in 1 .. Length + 1 /\ Len(seg.data) \in Nat
        /\ Length \in Nat
    BY WrittenType DEF Receiver, Segment, SequenceNumber, Bytes
  <2>2. QED
    BY <2>1 DEF End
<1>2. head = IF seg.seq >= r.next THEN seg.seq ELSE r.next
  BY <1>1, MaxOfTwo
<1>3. head \in Nat /\ seg.seq <= head /\ r.next <= head /\ head \in {seg.seq, r.next}
  BY <1>1, <1>2
<1> HIDE DEF head
<1>4. /\ tail \in Nat /\ tail <= End(seg)
      /\ Blocks(r) # {} => tail <= MaxRxSequence(r)
  <2>1. CASE Blocks(r) = {}
    BY <1>1, <2>1
  <2>2. CASE Blocks(r) # {}
    <3> DEFINE m == MaxRxSequence(r)
    <3>1. m \in Nat
      BY <2>2, FirstBlockIs, WrittenType, WindowsFit
    <3> HIDE DEF m
    <3>2. Min({End(seg), m}) = IF End(seg) <= m THEN End(seg) ELSE m
      BY <1>1, <3>1, MinOfTwo
    <3>3. tail = Min({End(seg), m})
      BY <2>2 DEF m
    <3>4. QED
      BY <1>1, <3>1, <3>2, <3>3 DEF m
  <2>3. QED
    BY <2>1, <2>2
<1> HIDE DEF tail
<1>5. first = IF head <= tail THEN head ELSE tail
  BY <1>3, <1>4, MinOfTwo
<1>6. p = [head |-> first, tail |-> tail, covered |-> {}]
  BY DEF InWindow, head, tail
<1> HIDE DEF first
<1>7. /\ p \in Part /\ p.head = first /\ p.tail = tail /\ p.covered = {}
  BY <1>3, <1>4, <1>5, <1>6 DEF Part
<1> HIDE DEF p
<1>8. \A b \in Blocks(r) : ~ (b <= 0)
  <2>1. \A b \in Blocks(r) : b \in Nat /\ b >= 1
    BY WrittenType DEF Blocks
  <2>2. QED
    BY <2>1
<1>9. TrimmedUpTo(r, seg, p, 0)
  <2>1. ASSUME first < tail PROVE first = head
    BY <2>1, <1>3, <1>4, <1>5
  <2>2. QED
    BY <1>3, <1>4, <1>7, <1>8, <2>1 DEF TrimmedUpTo
<1>10. QED
  BY <1>7, <1>9 DEF p

(* What Overlapped makes of a part, given by its fields.                   *)
LEMMA OverlappedCases ==
    ASSUME NEW p \in Part, NEW first \in 1 .. Length, NEW last \in Nat, first < last
    PROVE  LET o == Overlapped(p, first, last) IN
           /\ o \in Part
           /\ \/ o = p /\ (first > p.tail \/ last <= p.head)
              \/ /\ p.head < first /\ last < p.tail
                 /\ o.head = p.head /\ o.tail = p.tail /\ o.covered = p.covered \cup {first}
              \/ /\ p.head < last /\ first <= p.tail
                 /\ first <= p.head \/ p.tail <= last
                 /\ o.head = (IF first <= p.head THEN last ELSE p.head)
                 /\ o.tail = (IF p.tail <= last THEN first ELSE p.tail)
                 /\ o.covered = p.covered
<1> DEFINE o == Overlapped(p, first, last)
           head == IF first <= p.head THEN last ELSE p.head
           tail == IF last >= p.tail THEN first ELSE p.tail
<1>1. p.head \in Nat /\ p.tail \in Nat /\ first \in Nat /\ p.covered \subseteq 1 .. Length
  BY WrittenType DEF Part
<1>2. CASE first > p.tail \/ last <= p.head
  BY <1>2 DEF Overlapped
<1>3. CASE ~ (first > p.tail \/ last <= p.head) /\ first > p.head /\ last < p.tail
  <2>1. o = [p EXCEPT !.covered = @ \cup {first}]
    BY <1>3 DEF Overlapped
  <2>2. p.covered \cup {first} \subseteq 1 .. Length
    BY <1>1
  <2>3. o \in Part
    BY <2>1, <2>2 DEF Part
  <2>4. o.head = p.head /\ o.tail = p.tail /\ o.covered = p.covered \cup {first}
    BY <2>1 DEF Part
  <2>5. QED
    BY <1>1, <1>3, <2>3, <2>4
<1>4. CASE ~ (first > p.tail \/ last <= p.head) /\ ~ (first > p.head /\ last < p.tail)
  <2>1. o = [p EXCEPT !.head = head, !.tail = tail]
    BY <1>4 DEF Overlapped
  <2>2. head \in Nat /\ tail \in Nat
    BY <1>1
  <2> HIDE DEF head, tail, o
  <2>3. o \in Part
    BY <2>1, <2>2 DEF Part
  <2>4. o.head = head /\ o.tail = tail /\ o.covered = p.covered
    BY <2>1 DEF Part
  <2>5. /\ p.head < last /\ first <= p.tail /\ (first <= p.head \/ p.tail <= last)
        /\ tail = IF p.tail <= last THEN first ELSE p.tail
    BY <1>1, <1>4 DEF tail
  <2>6. QED
    BY <2>3, <2>4, <2>5 DEF head, o
<1>5. QED
  BY <1>2, <1>3, <1>4

LEMMA TrimmedByStep ==
    ASSUME NEW r \in Receiver, NEW seg \in Segment, NEW end, Placed(r, end),
           NEW k \in 1 .. Length, NEW p \in Part, TrimmedUpTo(r, seg, p, k - 1)
    PROVE  TrimmedUpTo(r, seg, TrimmedBy(r, p, k), k)
<1> DEFINE o == TrimmedBy(r, p, k)
           last == BlockEnd(r, k)
<1>1. r.data \in Buffers /\ Blocks(r) \subseteq 1 .. Length /\ Length \in Nat /\ k \in Nat
  BY WrittenType DEF Receiver, Buffers, Blocks
<1>2. \A b \in Blocks(r) : b \in Nat /\ BlockEnd(r, b) \in Nat /\ b < BlockEnd(r, b)
  BY <1>1, BlockNumbers
<1>3. \A b \in Blocks(r) : b <= k => b <= k - 1 \/ b = k
  BY <1>1, <1>2
<1>4. p.head \in Nat /\ p.tail \in Nat
  BY DEF Part
<1>5. CASE k \notin Blocks(r)
  <2>1. o = p
    BY <1>5 DEF TrimmedBy
  <2>2. \A b \in Blocks(r) : b <= k => b <= k - 1
    BY <1>3, <1>5
  <2>3. 1 .. k - 1 \subseteq 1 .. k
    BY <1>1
  <2>4. QED
    BY <2>1, <2>2, <2>3 DEF TrimmedUpTo
<1>6. CASE k \in Blocks(r)
  <2>1. o = Overlapped(p, k, last)
    BY <1>6 DEF TrimmedBy, BlockEnd
  <2>2. last \in Nat /\ k < last
    BY <1>2, <1>6
  <2> HIDE DEF last, o
  <2>3. /\ o \in Part
        /\ \/ o = p /\ (k > p.tail \/ last <= p.head)
           \/ /\ p.head < k /\ last < p.tail
              /\ o.head = p.head /\ o.tail = p.tail /\ o.covered = p.covered \cup {k}
           \/ /\ p.head < last /\ k <= p.tail
              /\ k <= p.head \/ p.tail <= last
              /\ o.head = (IF k <= p.head THEN last ELSE p.head)
              /\ o.tail = (IF p.tail <= last THEN k ELSE p.tail)
              /\ o.covered = p.covered
    BY <2>1, <2>2, OverlappedCases
  <2>4. p.head <= o.head /\ o.tail <= p.tail /\ o.head \in Nat /\ o.tail \in Nat
    BY <1>1, <1>4, <2>2, <2>3
  <2> SUFFICES ASSUME o.head < o.tail PROVE TrimmedUpTo(r, seg, o, k)
    BY DEF TrimmedUpTo, o
  <2>5. p.head < p.tail
    BY <1>4, <2>4
  <2>6. /\ seg.seq <= p.head /\ r.next <= p.head
        /\ p.tail <= End(seg)
        /\ Blocks(r) # {} => p.tail <= MaxRxSequence(r)
        /\ p.covered \subseteq Blocks(r) \cap (1 .. k - 1)
        /\ \A b \in Blocks(r) : b <= k - 1 =>
               IF b \in p.covered
               THEN p.head < b /\ BlockEnd(r, b) <= p.tail
               ELSE BlockEnd(r, b) <= p.head \/ p.tail <= b
    BY <2>5 DEF TrimmedUpTo
  <2>7. seg.seq <= o.head /\ r.next <= o.head /\ o.tail <= End(seg)
    <3>1. seg.seq \in Nat /\ r.next \in Nat /\ End(seg) \in Nat
      <4>1. /\ seg.seq \in 1 .. Length + 1 /\ r.next \in 1 .. Length + 1
            /\ Len(seg.data) \in Nat
        BY DEF Receiver, Segment, SequenceNumber, Bytes
      <4>2. QED
        BY <1>1, <4>1 DEF End
    <3>2. QED
      BY <1>4, <2>4, <2>6, <3>1
  <2>8. Blocks(r) # {} => o.tail <= MaxRxSequence(r)
    <3>1. Blocks(r) # {} => MaxRxSequence(r) \in Nat
      BY FirstBlockIs, WrittenType, WindowsFit
    <3>2. QED
      BY <1>4, <2>4, <2>6, <3>1
  <2>9. o.covered \subseteq Blocks(r) \cap (1 .. k)
    <3>1. o.covered \subseteq p.covered \cup {k}
      BY <2>3
    <3>2. 1 .. k - 1 \subseteq 1 .. k /\ k \in 1 .. k
      BY <1>1
    <3>3. QED
      BY <1>6, <2>6, <3>1, <3>2
  <2>10. ASSUME NEW b \in Blocks(r), b <= k
         PROVE  IF b \in o.covered
                THEN o.head < b /\ BlockEnd(r, b) <= o.tail
                ELSE BlockEnd(r, b) <= o.head \/ o.tail <= b
    <3> DEFINE e == BlockEnd(r, b)
    <3>1. b \in Nat /\ e \in Nat /\ b < e
      BY <1>2
    <3>2. k \notin p.covered
      <4>1. k \notin 1 .. k - 1
        BY <1>1
      <4>2. QED
        BY <2>6, <4>1
    <3>3. CASE b = k
      <4>1. e = last
        BY <3>3 DEF last
      <4>2. b \in o.covered => p.head < k /\ last < p.tail /\ o.head = p.head /\ o.tail = p.tail
        BY <2>3, <3>2, <3>3
      <4>3. b \notin o.covered => last <= o.head \/ o.tail <= k
        BY <1>1, <1>4, <2>2, <2>3, <3>3
      <4> HIDE DEF e
      <4>4. QED
        BY <1>1, <1>4, <2>2, <3>3, <4>1, <4>2, <4>3 DEF e
    <3>4. CASE b # k
      <4>1. b <= k - 1 /\ b < k
        BY <1>1, <1>3, <3>1, <3>4, <2>10
      <4>2. e <= k
        BY <1>6, <4>1 DEF Placed
      <4>3. b \in o.covered <=> b \in p.covered
        BY <2>3, <3>4
      <4>4. CASE b \in p.covered
        <5>1. p.head < b /\ e <= p.tail
          BY <2>6, <4>1, <4>4
        <5> HIDE DEF e
        <5>2. o.head = p.head
          BY <1>1, <1>4, <2>2, <2>3, <3>1, <4>1, <5>1
        <5>3. o.tail = p.tail \/ o.tail = k
          BY <2>3
        <5>4. e <= o.tail
          BY <4>2, <5>1, <5>3
        <5>5. QED
          BY <4>3, <4>4, <5>1, <5>2, <5>4 DEF e
      <4>5. CASE b \notin p.covered
        <5>1. e <= p.head \/ p.tail <= b
          BY <2>6, <4>1, <4>5
        <5> HIDE DEF e
        <5>2. e <= o.head \/ o.tail <= b
          BY <1>4, <2>4, <3>1, <5>1
        <5>3. QED
          BY <4>3, <4>5, <5>2 DEF e
      <4>6. QED
        BY <4>4, <4>5
    <3>5. QED
      BY <3>3, <3>4
  <2>11. QED
    BY <1>6, <2>7, <2>8, <2>9, <2>10 DEF TrimmedUpTo
<1>7. QED
  BY <1>5, <1>6

LEMMA TrimmedSound ==
    ASSUME NEW r \in Receiver, NEW seg \in Segment, NEW end, Placed(r, end)
    PROVE  Trimmed(r, seg) \in Part /\ TrimmedUpTo(r, seg, Trimmed(r, seg), Length)
<1>1. r.data \in [1 .. Length -> Bytes] /\ Length \in Nat
  BY WrittenType DEF Receiver
<1>2. \A k \in 1 .. Length : \A p \in Part : TrimmedBy(r, p, k) \in Part
  <2> SUFFICES ASSUME NEW k \in 1 .. Length, NEW p \in Part
               PROVE  TrimmedBy(r, p, k) \in Part
    OBVIOUS
  <2>1. CASE k \notin Blocks(r)
    BY <2>1 DEF TrimmedBy
  <2>2. CASE k \in Blocks(r)
    <3> DEFINE last == BlockEnd(r, k)
    <3>1. TrimmedBy(r, p, k) = Overlapped(p, k, last)
      BY <2>2 DEF TrimmedBy, BlockEnd
    <3>2. last \in Nat /\ k < last
      BY <1>1, <2>2, BlockNumbers DEF Buffers
    <3> HIDE DEF last
    <3>3. Overlapped(p, k, last) \in Part
      BY <3>2, OverlappedCases
    <3>4. QED
      BY <3>1, <3>3
  <2>3. QED
    BY <2>1, <2>2
<1>3. InWindow(r, seg) \in Part /\ TrimmedUpTo(r, seg, InWindow(r, seg), 0)
  BY InWindowTrimmed
<1>4. PICK t \in [0 .. Length -> Part] :
        /\ t[0] = InWindow(r, seg)
        /\ \A k \in 1 .. Length : t[k] = TrimmedBy(r, t[k - 1], k)
        /\ t[Length] = Trimmed(r, seg)
  BY <1>1, <1>2, <1>3, TrimmedTrace
<1> DEFINE T == {k \in 0 .. Length : TrimmedUpTo(r, seg, t[k], k)}
<1>5. 0 \in T
  BY <1>1, <1>3, <1>4
<1>6. ASSUME NEW k \in 1 .. Length, k - 1 \in T PROVE k \in T
  <2>1. k - 1 \in 0 .. Length /\ k \in 0 .. Length
    BY <1>1
  <2>2. t[k - 1] \in Part /\ TrimmedUpTo(r, seg, t[k - 1], k - 1) /\ t[k] = TrimmedBy(r, t[k - 1], k)
    BY <1>4, <1>6, <2>1
  <2>3. TrimmedUpTo(r, seg, t[k], k)
    BY <2>2, TrimmedByStep
  <2>4. QED
    BY <2>1, <2>3
<1>7. Length \in 0 .. Length /\ Length \in T
  <2> HIDE DEF T
  <2>1. Length \in 0 .. Length
    BY <1>1
  <2>2. \A k \in 0 .. Length : k \in T
    BY <1>1, <1>5, <1>6, UpTo
  <2>3. QED
    BY <2>1, <2>2
<1>8. QED
  BY <1>4, <1>7

(* The bytes of the blocks in a set.                                       *)
Span(r, bs) == {x \in 1 .. Length : \E b \in bs : b <= x /\ x < BlockEnd(r, b)}

LEMMA SpanFinite ==
    ASSUME NEW r, NEW bs
    PROVE  IsFiniteSet(Span(r, bs)) /\ Cardinality(Span(r, bs)) \in Nat
<1>1. IsFiniteSet(1 .. Length)
  BY WrittenType, FS_Interval
<1>2. Span(r, bs) \subseteq 1 .. Length
  BY DEF Span
<1>3. IsFiniteSet(Span(r, bs))
  BY <1>1, <1>2, FS_Subset
<1>4. QED
  BY <1>3, FS_CardinalityType

(* One block more.                                                         *)
LEMMA SpanStep ==
    ASSUME NEW r, r.data \in Buffers, NEW end \in 1 .. Length + 1, Placed(r, end),
           NEW bs \in SUBSET Nat, NEW k \in 1 .. Length, \A b \in bs : b < k,
           bs \subseteq 1 .. Length
    PROVE  Cardinality(Span(r, bs \cup {k})) = Cardinality(Span(r, bs)) + Len(r.data[k])
<1> DEFINE len == Len(r.data[k])
           block == k .. k + len - 1
<1>1. len \in Nat /\ k \in Nat /\ BlockEnd(r, k) = k + len /\ Length \in Nat /\ end \in Nat
      /\ end <= Length + 1
  BY BlockNumbers, WrittenType DEF BlockEnd
<1>2. k + len <= Length + 1
  <2>1. CASE k \in Blocks(r)
    <3>1. BlockEnd(r, k) <= end
      BY <2>1 DEF Placed
    <3> HIDE DEF len
    <3>2. QED
      BY <1>1, <3>1
  <2>2. CASE k \notin Blocks(r)
    <3>1. ~ (k < BlockEnd(r, k))
      BY <2>2, BlockNumbers
    <3> HIDE DEF len
    <3>2. QED
      BY <1>1, <3>1
  <2>3. QED
    BY <2>1, <2>2
<1>3. /\ IsFiniteSet(block) /\ Cardinality(block) = len
  <2> HIDE DEF len
  <2>1. k \in Int /\ k + len - 1 \in Int
    BY <1>1
  <2> DEFINE last == k + len - 1
  <2>2. last \in Int /\ (k > last <=> len = 0) /\ last - k + 1 = len
    BY <1>1
  <2> HIDE DEF last
  <2>3. /\ IsFiniteSet(k .. last)
        /\ Cardinality(k .. last) = IF k > last THEN 0 ELSE last - k + 1
    BY <2>1, <2>2, FS_Interval
  <2>4. QED
    BY <1>1, <2>2, <2>3 DEF last
<1>4. Span(r, bs \cup {k}) = Span(r, bs) \cup block
  <2>1. \A x \in 1 .. Length : (k <= x /\ x < BlockEnd(r, k)) <=> x \in block
    <3> HIDE DEF len
    <3>1. QED
      BY <1>1
  <2>2. block \subseteq 1 .. Length
    <3> HIDE DEF len
    <3>1. QED
      BY <1>1, <1>2
  <2> HIDE DEF block
  <2>3. QED
    BY <2>1, <2>2 DEF Span
<1>5. Span(r, bs) \cap block = {}
  <2> SUFFICES ASSUME NEW x \in Span(r, bs), x \in block PROVE FALSE
    OBVIOUS
  <2>1. PICK b \in bs : b <= x /\ x < BlockEnd(r, b)
    BY DEF Span
  <2>2. x \in Nat /\ k <= x /\ x < k + len
    BY <1>1
  <2>3. b < k /\ b \in 1 .. Length /\ b \in Nat /\ BlockEnd(r, b) \in Nat
    BY BlockNumbers
  <2>4. b \in Blocks(r)
    <3>1. b < BlockEnd(r, b)
      BY <2>1, <2>2, <2>3
    <3>2. QED
      BY <2>3, <3>1, BlockNumbers
  <2>5. k \in Blocks(r)
    <3> HIDE DEF len
    <3>1. k < BlockEnd(r, k)
      BY <1>1, <2>2
    <3>2. QED
      BY <3>1, BlockNumbers
  <2>6. BlockEnd(r, b) <= k
    BY <2>3, <2>4, <2>5 DEF Placed
  <2>7. QED
    BY <1>1, <2>1, <2>2, <2>3, <2>6
<1>6. QED
  <2> DEFINE s == Span(r, bs)
  <2>1. IsFiniteSet(s) /\ Cardinality(s) \in Nat
    BY SpanFinite
  <2>2. Cardinality({}) = 0
    BY FS_EmptySet
  <2> HIDE DEF s, block, len
  <2>3. Cardinality(s \cup block) = Cardinality(s) + Cardinality(block) - Cardinality(s \cap block)
    BY <1>3, <2>1, FS_Union
  <2>4. s \cap block = {}
    BY <1>5 DEF s
  <2>5. Cardinality(s \cup block) = Cardinality(s) + len
    <3>1. Cardinality(s \cap block) = 0 /\ Cardinality(block) = len /\ len \in Nat
      BY <1>1, <1>3, <2>2, <2>4, Zenon
    <3>2. QED
      BY <2>1, <2>3, <3>1
  <2>6. QED
    BY <1>4, <2>5 DEF s, len

(* The size of the blocks that are erased is the number of their bytes.    *)
LEMMA ErasedCounts ==
    ASSUME NEW r \in Receiver, NEW end \in 1 .. Length + 1, Placed(r, end),
           NEW covered \in SUBSET (1 .. Length)
    PROVE  Erased(r, covered) = Cardinality(Span(r, covered))
<1>1. r.data \in [1 .. Length -> Bytes] /\ Length \in Nat /\ r.data \in Buffers
  BY WrittenType DEF Receiver, Buffers
<1>2. \A k \in 1 .. Length : \A p \in Nat :
         Enlarged(r, covered, p, k) \in Nat
  BY <1>1, BlockNumbers DEF Enlarged
<1>3. PICK t \in [0 .. Length -> Nat] :
        /\ t[0] = 0
        /\ \A k \in 1 .. Length :
              t[k] = Enlarged(r, covered, t[k - 1], k)
        /\ t[Length] = Erased(r, covered)
  BY <1>1, <1>2, ErasedTrace
<1> DEFINE T == {k \in 0 .. Length : t[k] = Cardinality(Span(r, covered \cap (1 .. k)))}
<1>4. 0 \in T
  <2>1. covered \cap (1 .. 0) = {}
    OBVIOUS
  <2>2. Span(r, {}) = {}
    BY DEF Span
  <2>3. t[0] = Cardinality(Span(r, covered \cap (1 .. 0)))
    BY <1>3, <2>1, <2>2, FS_EmptySet
  <2>4. QED
    BY <1>1, <2>3
<1>5. ASSUME NEW k \in 1 .. Length, k - 1 \in T PROVE k \in T
  <2> DEFINE bs == covered \cap (1 .. k - 1)
  <2>1. k - 1 \in 0 .. Length /\ k \in 0 .. Length /\ t[k - 1] = Cardinality(Span(r, bs))
    BY <1>1, <1>5
  <2>2. bs \in SUBSET Nat /\ bs \subseteq 1 .. Length /\ \A b \in bs : b < k
    BY <1>1
  <2>3. t[k] = (IF k \in covered THEN t[k - 1] + Len(r.data[k]) ELSE t[k - 1])
    BY <1>3 DEF Enlarged
  <2>4. CASE k \in covered
    <3>1. covered \cap (1 .. k) = bs \cup {k}
      BY <1>1, <2>4
    <3> HIDE DEF bs
    <3>2. Cardinality(Span(r, bs \cup {k})) = Cardinality(Span(r, bs)) + Len(r.data[k])
      BY <1>1, <2>2, SpanStep
    <3>3. QED
      BY <2>1, <2>3, <2>4, <3>1, <3>2
  <2>5. CASE k \notin covered
    <3>1. covered \cap (1 .. k) = bs
      BY <1>1, <2>5
    <3> HIDE DEF bs
    <3>2. QED
      BY <2>1, <2>3, <2>5, <3>1
  <2>6. QED
    BY <2>4, <2>5
<1>6. Length \in T
  <2> HIDE DEF T
  <2>1. Length \in 0 .. Length
    BY <1>1
  <2>2. \A k \in 0 .. Length : k \in T
    BY <1>1, <1>4, <1>5, UpTo
  <2>3. QED
    BY <2>1, <2>2
<1>7. covered \cap (1 .. Length) = covered
  OBVIOUS
<1>8. QED
  BY <1>3, <1>6, <1>7

(* The blocks one after the other lead to a place where nothing is missing *)
(* before, and that is not in a block.                                     *)
Reached(r, n, e) ==
    /\ e \in Nat /\ n <= e
    /\ n .. e - 1 \subseteq Held(r)
    /\ \A b \in Blocks(r) : b < e => BlockEnd(r, b) <= e

LEMMA ContiguousReached ==
    ASSUME NEW r, r.data \in Buffers, NEW end, Placed(r, end), NEW n \in Nat,
           \A b \in Blocks(r) : b < n => BlockEnd(r, b) <= n
    PROVE  Reached(r, n, Contiguous(r, n))
<1> DEFINE S == {e \in Nat : Reached(r, n, e)}
<1>1. r.data \in [1 .. Length -> Bytes] /\ Length \in Nat /\ Blocks(r) \subseteq 1 .. Length
  BY WrittenType DEF Buffers, Blocks
<1>2. n \in S
  <2>1. n .. n - 1 = {} /\ n <= n
    OBVIOUS
  <2>2. QED
    BY <2>1 DEF Reached
<1>3. ASSUME NEW k \in 1 .. Length, NEW p \in S
      PROVE  (IF k = p THEN p + Len(r.data[k]) ELSE p) \in S
  <2>1. CASE k # p
    BY <2>1
  <2>2. CASE k = p
    <3> DEFINE e == BlockEnd(r, k)
    <3>1. /\ e \in Nat /\ k \in Nat /\ k <= e /\ e = p + Len(r.data[k])
          /\ (k \in Blocks(r) <=> k < e)
      BY <1>1, <2>2, BlockNumbers DEF BlockEnd
    <3>2. /\ p \in Nat /\ n <= p /\ n .. p - 1 \subseteq Held(r)
          /\ \A b \in Blocks(r) : b < p => BlockEnd(r, b) <= p
      BY DEF Reached
    <3> HIDE DEF e
    <3>3. n .. e - 1 \subseteq Held(r)
      <4> SUFFICES ASSUME NEW x \in n .. e - 1 PROVE x \in Held(r)
        OBVIOUS
      <4>1. x \in Nat /\ (x \in n .. p - 1 \/ (k <= x /\ x < e))
        BY <2>2, <3>1, <3>2
      <4>2. k <= x /\ x < e => k \in Blocks(r)
        BY <3>1, <4>1
      <4>3. QED
        BY <1>1, <3>2, <4>1, <4>2, HeldIs DEF e
    <3>4. ASSUME NEW b \in Blocks(r), b < e PROVE BlockEnd(r, b) <= e
      <4>1. b \in Nat /\ BlockEnd(r, b) \in Nat
        BY <1>1, BlockNumbers
      <4>2. CASE b < k
        <5>1. BlockEnd(r, b) <= p
          BY <2>2, <3>2, <4>2
        <5>2. QED
          BY <2>2, <3>1, <3>2, <4>1, <5>1
      <4>3. CASE b = k
        BY <3>1, <4>3 DEF e
      <4>4. CASE b > k
        <5>1. k \in Blocks(r)
          BY <3>1, <3>4, <4>1, <4>4
        <5>2. e <= b
          BY <4>4, <5>1 DEF Placed, e
        <5>3. QED
          BY <3>1, <3>4, <4>1, <5>2
      <4>5. QED
        BY <3>1, <4>1, <4>2, <4>3, <4>4
    <3>5. n <= e
      BY <2>2, <3>1, <3>2
    <3>6. Reached(r, n, e)
      BY <3>1, <3>3, <3>4, <3>5 DEF Reached
    <3>7. QED
      BY <2>2, <3>1, <3>6
  <2>3. QED
    BY <2>1, <2>2
<1>4. PICK t \in [0 .. Length -> Nat] :
        /\ t[0] = n
        /\ \A k \in 1 .. Length :
              t[k] = Extended(r, t[k - 1], k)
        /\ t[Length] = Contiguous(r, n)
  <2>1. \A k \in 1 .. Length : \A p \in Nat : Extended(r, p, k) \in Nat
    BY <1>1, BlockNumbers DEF Extended
  <2>2. QED
    BY <1>1, <2>1, ContiguousTrace
<1> DEFINE T == {k \in 0 .. Length : t[k] \in S}
<1> HIDE DEF S
<1>5. 0 \in T
  BY <1>1, <1>2, <1>4
<1>6. ASSUME NEW k \in 1 .. Length, k - 1 \in T PROVE k \in T
  <2>1. k \in 0 .. Length /\ t[k - 1] \in S
    BY <1>1, <1>6
  <2>2. t[k] = (IF k = t[k - 1] THEN t[k - 1] + Len(r.data[k]) ELSE t[k - 1])
    BY <1>4 DEF Extended
  <2>3. t[k] \in S
    BY <1>3, <2>1, <2>2
  <2>4. QED
    BY <2>1, <2>3
<1>7. Length \in T
  <2> HIDE DEF T
  <2>1. Length \in 0 .. Length
    BY <1>1
  <2>2. \A k \in 0 .. Length : k \in T
    BY <1>1, <1>5, <1>6, UpTo
  <2>3. QED
    BY <2>1, <2>2
<1>8. QED
  BY <1>4, <1>7 DEF S

(* What is left of a segment, as a block of its own.                       *)
Fits(r, seg, part, end) ==
    /\ part \in Part /\ part.head < part.tail
    /\ part.head \in 1 .. Length /\ part.tail <= end
    /\ seg.seq <= part.head /\ part.tail <= End(seg)
    /\ r.next <= part.head
    /\ part.covered \subseteq Blocks(r)
    /\ \A b \in Blocks(r) :
           IF b \in part.covered
           THEN part.head < b /\ BlockEnd(r, b) <= part.tail
           ELSE BlockEnd(r, b) <= part.head \/ part.tail <= b
    /\ Blocks(r) = {} => part.head \in {seg.seq, r.next}
    /\ Blocks(r) # {} => part.tail <= MaxRxSequence(r)

LEMMA TrimmedFits ==
    ASSUME NEW end \in 1 .. Length + 1, NEW r, BufferInv(r, end), NEW seg, Sound(seg, end),
           Trimmed(r, seg).head < Trimmed(r, seg).tail
    PROVE  Fits(r, seg, Trimmed(r, seg), end)
<1> DEFINE part == Trimmed(r, seg)
<1>1. r \in Receiver /\ Placed(r, end) /\ seg \in Segment /\ End(seg) <= end
  BY DEF BufferInv, Sound
<1>2. part \in Part /\ TrimmedUpTo(r, seg, part, Length)
  BY <1>1, TrimmedSound
<1>3. part.head < part.tail
  OBVIOUS
<1> HIDE DEF part
<1>4. /\ Length \in Nat /\ end \in Nat /\ end <= Length + 1 /\ part.head \in Nat /\ part.tail \in Nat
      /\ seg.seq \in Nat /\ seg.seq >= 1 /\ End(seg) \in Nat
  <2>1. seg.seq \in 1 .. Length + 1 /\ Len(seg.data) \in Nat /\ Length \in Nat
    BY <1>1, WrittenType DEF Segment, SequenceNumber, Bytes
  <2>2. QED
    BY <1>2, <2>1 DEF Part, End
<1>5. /\ seg.seq <= part.head /\ r.next <= part.head
      /\ part.tail <= End(seg)
      /\ Blocks(r) = {} => part.head \in {seg.seq, r.next}
      /\ Blocks(r) # {} => part.tail <= MaxRxSequence(r)
      /\ part.covered \subseteq Blocks(r) \cap (1 .. Length)
      /\ \A b \in Blocks(r) : b <= Length =>
             IF b \in part.covered
             THEN part.head < b /\ BlockEnd(r, b) <= part.tail
             ELSE BlockEnd(r, b) <= part.head \/ part.tail <= b
  BY <1>2, <1>3 DEF TrimmedUpTo
<1>6. part.tail <= end /\ part.head \in 1 .. Length
  BY <1>1, <1>3, <1>4, <1>5
<1>7. \A b \in Blocks(r) : b <= Length
  BY <1>4 DEF Blocks
<1>8. QED
  BY <1>2, <1>3, <1>5, <1>6, <1>7 DEF Fits, part

(* The block that is stored.                                               *)
LEMMA StoredBlock ==
    ASSUME NEW end \in 1 .. Length + 1, NEW r, NEW seg, Sound(seg, end),
           NEW part, Fits(r, seg, part, end)
    PROVE  LET block == SubSeq(seg.data, part.head - seg.seq + 1, part.tail - seg.seq) IN
           /\ block \in Bytes /\ Len(block) = part.tail - part.head
           /\ Consecutive(part.head, block)
<1> DEFINE m == part.head - seg.seq
           n == part.tail - seg.seq
           q == seg.data
           S == 1 .. Length
           block == SubSeq(q, m + 1, n)
<1>1. /\ part.head \in Nat /\ part.tail \in Nat /\ seg.seq \in Nat /\ q \in Seq(S) /\ Len(q) \in Nat
      /\ End(seg) = seg.seq + Len(q)
      /\ part.head < part.tail /\ seg.seq <= part.head /\ part.tail <= End(seg)
  BY WrittenType DEF Fits, Part, Sound, Segment, SequenceNumber, Bytes, End
<1>2. /\ m \in Nat /\ n \in Nat /\ m <= n /\ n <= Len(q) /\ n - m = part.tail - part.head
      /\ seg.seq + m = part.head
  <2> DEFINE len == Len(q)
  <2>1. End(seg) = seg.seq + len /\ len \in Nat
    BY <1>1
  <2> HIDE DEF len
  <2>2. m \in Nat /\ n \in Nat /\ m <= n /\ n <= len /\ n - m = part.tail - part.head
        /\ seg.seq + m = part.head
    BY <1>1, <2>1
  <2>3. QED
    BY <2>2 DEF len
<1> HIDE DEF m, n, S
<1>3. /\ block \in Seq(S) /\ Len(block) = n - m /\ DOMAIN block = 1 .. n - m
      /\ \A i \in 1 .. n - m : block[i] = q[m + i]
  <2> HIDE DEF q
  <2>1. q \in Seq(S) /\ m \in Nat /\ n \in Nat /\ m <= n /\ n <= Len(q)
    BY <1>1, <1>2
  <2>2. QED
    BY <2>1, PartOfSeq
<1>4. ASSUME NEW i \in 1 .. n - m PROVE block[i] = part.head + i - 1
  <2>1. i \in Nat /\ m + i \in 1 .. Len(q)
    <3> DEFINE len == Len(q)
    <3>1. len \in Nat /\ n <= len
      BY <1>1, <1>2
    <3> HIDE DEF len
    <3>2. i \in Nat /\ m + i \in 1 .. len
      BY <1>2, <3>1
    <3>3. QED
      BY <3>2 DEF len
  <2>2. m + i \in DOMAIN q
    BY <1>1, <2>1
  <2>3. q[m + i] = seg.seq + (m + i) - 1
    BY <2>2 DEF Sound, Consecutive
  <2> HIDE DEF block
  <2>4. seg.seq + (m + i) - 1 = part.head + i - 1
    BY <1>1, <1>2, <2>1
  <2>5. QED
    BY <1>3, <2>3, <2>4
<1>5. Consecutive(part.head, block)
  <2> HIDE DEF block
  <2>1. QED
    BY <1>3, <1>4 DEF Consecutive
<1>6. QED
  BY <1>2, <1>3, <1>5 DEF m, n, S, Bytes

(* The buffer t is r after the block has been stored.                      *)
StoredAs(r, part, t) ==
    /\ t.data \in Buffers
    /\ Blocks(t) = (Blocks(r) \ part.covered) \cup {part.head}
    /\ BlockEnd(t, part.head) = part.tail /\ Consecutive(part.head, t.data[part.head])
    /\ \A b \in Blocks(t) : b # part.head => t.data[b] = r.data[b]
    /\ t.size = r.size - Erased(r, part.covered) + (part.tail - part.head)

LEMMA StoredBlocks ==
    ASSUME NEW end \in 1 .. Length + 1, NEW r \in Receiver, NEW seg, Sound(seg, end),
           NEW part, Fits(r, seg, part, end), NEW t, t = Stored(r, seg, part)
    PROVE  StoredAs(r, part, t)
<1> DEFINE block == SubSeq(seg.data, part.head - seg.seq + 1, part.tail - seg.seq)
           data == [b \in 1 .. Length |-> IF b = part.head THEN block
                                          ELSE IF b \in part.covered THEN << >> ELSE r.data[b]]
           size == r.size - Erased(r, part.covered) + (part.tail - part.head)
<1>1. t = [r EXCEPT !.data = data, !.size = size]
  BY DEF Stored
<1>2. /\ block \in Bytes /\ Len(block) = part.tail - part.head
      /\ Consecutive(part.head, block)
  BY StoredBlock
<1> HIDE DEF block, size
<1>3. t.data = data /\ t.size = size
  BY <1>1 DEF Receiver
<1>5. /\ part.head \in 1 .. Length /\ part.head \in Nat /\ part.tail \in Nat
      /\ part.head < part.tail /\ part.covered \subseteq Blocks(r)
      /\ part.head \notin part.covered
  <2>1. /\ part.head \in 1 .. Length /\ part.head \in Nat /\ part.tail \in Nat
        /\ part.head < part.tail /\ part.covered \subseteq Blocks(r)
    BY DEF Fits, Part
  <2>2. ASSUME part.head \in part.covered PROVE FALSE
    <3>1. part.head < part.head
      BY <2>1, <2>2 DEF Fits
    <3>2. QED
      BY <2>1, <3>1
  <2>3. QED
    BY <2>1, <2>2
<1>6. data \in Buffers
  <2>1. << >> \in Bytes /\ \A b \in 1 .. Length : r.data[b] \in Bytes
    <3>1. r.data \in [1 .. Length -> Bytes] /\ << >> \in Seq(1 .. Length)
      BY DEF Receiver
    <3>2. QED
      BY <3>1 DEF Bytes
  <2>2. QED
    BY <1>2, <2>1 DEF Buffers
<1>7. data[part.head] = block /\ block # << >>
  <2>1. data[part.head] = block
    BY <1>5
  <2>2. Len(block) # 0
    BY <1>2, <1>5
  <2>3. Len(<< >>) = 0
    OBVIOUS
  <2>4. QED
    BY <2>1, <2>2, <2>3
<1>8. Blocks(t) = (Blocks(r) \ part.covered) \cup {part.head}
  <2>1. \A b \in 1 .. Length :
           data[b] # << >> <=> b = part.head \/ (b \notin part.covered /\ r.data[b] # << >>)
    BY <1>5, <1>7
  <2> HIDE DEF data
  <2>2. QED
    BY <1>3, <1>5, <2>1 DEF Blocks
<1>9. BlockEnd(t, part.head) = part.tail
  <2> HIDE DEF data
  <2>1. BlockEnd(t, part.head) = part.head + (part.tail - part.head)
    BY <1>2, <1>3, <1>7 DEF BlockEnd
  <2>2. QED
    BY <1>5, <2>1
<1>10. \A b \in Blocks(t) : b # part.head => t.data[b] = r.data[b]
  <2>1. \A b \in Blocks(t) : b # part.head => b \in 1 .. Length /\ b \notin part.covered
    BY <1>8 DEF Blocks
  <2>2. QED
    BY <1>3, <2>1
<1>11. t.data[part.head] = block /\ t.data \in Buffers
  <2> HIDE DEF data
  <2>1. QED
    BY <1>3, <1>6, <1>7
<1>12. Consecutive(part.head, t.data[part.head])
  BY <1>2, <1>11
<1>13. t.size = r.size - Erased(r, part.covered) + (part.tail - part.head)
  BY <1>3 DEF size
<1>14. QED
  BY <1>8, <1>9, <1>10, <1>11, <1>12, <1>13 DEF StoredAs

LEMMA StoredHeld ==
    ASSUME NEW end \in 1 .. Length + 1, NEW r, BufferInv(r, end), NEW seg, Sound(seg, end),
           NEW part, Fits(r, seg, part, end), NEW t, t = Stored(r, seg, part)
    PROVE  /\ Placed(t, end)
           /\ \A b \in Blocks(t) : Unread(r) <= b /\ (b < r.next => BlockEnd(t, b) <= r.next)
           /\ Held(t) = Held(r) \cup (part.head .. part.tail - 1)
           /\ t.size = Cardinality(Held(t))
<1>1. /\ r \in Receiver /\ Placed(r, end) /\ r.data \in Buffers /\ r.size = Cardinality(Held(r))
      /\ \A b \in Blocks(r) : Unread(r) <= b /\ (b < r.next => BlockEnd(r, b) <= r.next)
  BY DEF BufferInv, Receiver, Buffers
<1>2. /\ t.data \in Buffers
      /\ Blocks(t) = (Blocks(r) \ part.covered) \cup {part.head}
      /\ BlockEnd(t, part.head) = part.tail /\ Consecutive(part.head, t.data[part.head])
      /\ \A b \in Blocks(t) : b # part.head => t.data[b] = r.data[b]
      /\ t.size = r.size - Erased(r, part.covered) + (part.tail - part.head)
  <2>1. r \in Receiver
    BY <1>1
  <2>2. StoredAs(r, part, t)
    BY <2>1, StoredBlocks
  <2>3. QED
    BY <2>2 DEF StoredAs
<1>3. /\ part.head \in 1 .. Length /\ part.head \in Nat /\ part.tail \in Nat
      /\ part.head < part.tail /\ part.tail <= end /\ r.next <= part.head
      /\ part.covered \subseteq Blocks(r)
      /\ part.covered \in SUBSET (1 .. Length)
      /\ \A b \in Blocks(r) :
             IF b \in part.covered
             THEN part.head < b /\ BlockEnd(r, b) <= part.tail
             ELSE BlockEnd(r, b) <= part.head \/ part.tail <= b
  BY DEF Fits, Part
<1>4. Blocks(r) \subseteq 1 .. Length /\ Blocks(t) \subseteq 1 .. Length
  BY DEF Blocks
<1>5. \A b \in Blocks(r) : b \in Nat /\ BlockEnd(r, b) \in Nat /\ b < BlockEnd(r, b)
  BY <1>1, <1>4, BlockNumbers
<1>6. \A b \in Blocks(t) : b # part.head =>
          /\ b \in Blocks(r) /\ b \notin part.covered /\ BlockEnd(t, b) = BlockEnd(r, b)
          /\ BlockEnd(r, b) <= part.head \/ part.tail <= b
  BY <1>2, <1>3 DEF BlockEnd
<1>7. Placed(t, end)
  <2> SUFFICES ASSUME NEW b \in Blocks(t)
               PROVE  /\ Consecutive(b, t.data[b])
                      /\ BlockEnd(t, b) <= end
                      /\ \A c \in Blocks(t) : b < c => BlockEnd(t, b) <= c
    BY DEF Placed
  <2>1. CASE b = part.head
    <3>1. ASSUME NEW c \in Blocks(t), b < c PROVE part.tail <= c
      <4>1. c \in Blocks(r) /\ (BlockEnd(r, c) <= part.head \/ part.tail <= c)
        BY <1>3, <1>6, <2>1, <3>1
      <4>2. QED
        BY <1>3, <1>5, <1>6, <2>1, <3>1, <4>1
    <3>2. QED
      BY <1>2, <1>3, <2>1, <3>1
  <2>2. CASE b # part.head
    <3>1. /\ b \in Blocks(r) /\ BlockEnd(t, b) = BlockEnd(r, b) /\ t.data[b] = r.data[b]
          /\ BlockEnd(r, b) <= part.head \/ part.tail <= b
      BY <1>2, <1>6, <2>2
    <3>2. Consecutive(b, t.data[b]) /\ BlockEnd(t, b) <= end
      BY <1>1, <3>1 DEF Placed
    <3>3. ASSUME NEW c \in Blocks(t), b < c PROVE BlockEnd(r, b) <= c
      <4>1. CASE c = part.head
        <5>1. b \in Nat /\ BlockEnd(r, b) \in Nat /\ b < part.head
          BY <1>5, <3>1, <3>3, <4>1
        <5>2. ~ (part.tail <= b)
          BY <1>3, <5>1
        <5>3. QED
          BY <3>1, <4>1, <5>2
      <4>2. CASE c # part.head
        BY <1>1, <1>6, <3>1, <3>3, <4>2 DEF Placed
      <4>3. QED
        BY <4>1, <4>2
    <3>4. QED
      BY <3>1, <3>2, <3>3
  <2>3. QED
    BY <2>1, <2>2
<1>8. ASSUME NEW b \in Blocks(t)
      PROVE  Unread(r) <= b /\ (b < r.next => BlockEnd(t, b) <= r.next)
  <2>1. r.next \in Nat /\ r.avail \in Nat
    <3>1. r.next \in 1 .. Length + 1 /\ r.avail \in 0 .. Length /\ Length \in Nat
      BY <1>1, WrittenType DEF Receiver, SequenceNumber
    <3>2. QED
      BY <3>1
  <2>2. CASE b = part.head
    BY <1>3, <2>1, <2>2 DEF Unread
  <2>3. CASE b # part.head
    BY <1>1, <1>6, <2>3
  <2>4. QED
    BY <2>2, <2>3
<1> DEFINE old == Held(r)
           gone == Span(r, part.covered)
           new == part.head .. part.tail - 1
<1>9. \A x \in new : x \in Nat /\ part.head <= x /\ x < part.tail
  BY <1>3
<1>10. gone \subseteq old /\ gone \subseteq new
  <2> SUFFICES ASSUME NEW x \in gone PROVE x \in old /\ x \in new
    OBVIOUS
  <2>1. PICK b \in part.covered : b <= x /\ x < BlockEnd(r, b)
    BY DEF Span
  <2>2. x \in Nat
    BY WrittenType DEF Span
  <2>3. /\ b \in Blocks(r) /\ part.head < b /\ BlockEnd(r, b) <= part.tail
        /\ b \in Nat /\ BlockEnd(r, b) \in Nat
    BY <1>3, <1>5
  <2>4. x \in old
    BY <1>1, <2>1, <2>2, <2>3, HeldIs
  <2>5. part.head <= x /\ x < part.tail
    BY <1>3, <2>1, <2>2, <2>3
  <2>6. QED
    BY <1>3, <2>2, <2>4, <2>5
<1>11. ASSUME NEW x, x \in old, x \notin gone
       PROVE  /\ x \notin new
              /\ \E b \in Blocks(t) : b <= x /\ x < BlockEnd(t, b)
  <2>1. PICK b \in Blocks(r) : x \in Nat /\ b <= x /\ x < BlockEnd(r, b)
    BY <1>1, <1>11, HeldIs
  <2>2. b \notin part.covered
    <3>1. x \in 1 .. Length
      <4>1. old \subseteq 1 .. end - 1 /\ end \in Nat /\ end <= Length + 1 /\ Length \in Nat
        BY <1>1, HeldRange, WrittenType
      <4>2. QED
        BY <1>11, <4>1
    <3>2. QED
      BY <1>11, <2>1, <3>1 DEF Span
  <2>3. BlockEnd(r, b) <= part.head \/ part.tail <= b
    BY <1>3, <2>2
  <2>4. b \in Nat /\ BlockEnd(r, b) \in Nat
    BY <1>5
  <2>5. x \notin new
    BY <1>3, <1>9, <2>1, <2>3, <2>4
  <2>6. b # part.head
    BY <1>3, <2>1, <2>3, <2>4
  <2>7. b \in Blocks(t) /\ BlockEnd(t, b) = BlockEnd(r, b)
    BY <1>2, <1>6, <2>2, <2>6
  <2>8. QED
    BY <2>1, <2>5, <2>7
<1>12. Held(t) = (old \ gone) \cup new
  <2>1. ASSUME NEW x, x \in Held(t) PROVE x \in (old \ gone) \cup new
    <3>1. PICK b \in Blocks(t) : x \in Nat /\ b <= x /\ x < BlockEnd(t, b)
      BY <1>2, <2>1, HeldIs
    <3>2. CASE b = part.head
      BY <1>2, <1>3, <3>1, <3>2
    <3>3. CASE b # part.head
      <4>1. /\ b \in Blocks(r) /\ BlockEnd(t, b) = BlockEnd(r, b)
            /\ BlockEnd(r, b) <= part.head \/ part.tail <= b
            /\ b \in Nat /\ BlockEnd(r, b) \in Nat
        BY <1>5, <1>6, <3>3
      <4>2. x \in old
        BY <1>1, <3>1, <4>1, HeldIs
      <4>3. x \notin new
        BY <1>3, <1>9, <3>1, <4>1
      <4>4. QED
        BY <1>10, <4>2, <4>3
    <3>4. QED
      BY <3>2, <3>3
  <2>2. ASSUME NEW x \in new PROVE x \in Held(t)
    <3>1. x \in Nat /\ part.head <= x /\ x < BlockEnd(t, part.head) /\ part.head \in Blocks(t)
      BY <1>2, <1>9
    <3>2. QED
      BY <1>2, <3>1, HeldIs
  <2>3. ASSUME NEW x, x \in old, x \notin gone PROVE x \in Held(t)
    <3>1. x \in Nat
      BY <1>1, <2>3, HeldIs
    <3>2. \E b \in Blocks(t) : b <= x /\ x < BlockEnd(t, b)
      BY <1>11, <2>3
    <3>3. QED
      BY <1>2, <3>1, <3>2, HeldIs
  <2> HIDE DEF old, gone, new
  <2>4. QED
    BY <2>1, <2>2, <2>3
<1>13. Held(t) = old \cup new
  <2> HIDE DEF old, gone, new
  <2>1. QED
    BY <1>10, <1>12
<1>14. t.size = Cardinality(Held(t))
  <2> DEFINE rest == old \ gone
             len == part.tail - part.head
  <2>1. IsFiniteSet(old) /\ Cardinality(old) \in Nat
    <3>1. IsFiniteSet(old)
      BY <1>1, HeldRange
    <3>2. QED
      BY <3>1, FS_CardinalityType
  <2>2. Erased(r, part.covered) = Cardinality(gone) /\ Cardinality(gone) \in Nat
    BY <1>1, <1>3, ErasedCounts, SpanFinite
  <2>3. IsFiniteSet(new) /\ Cardinality(new) = len
    <3> DEFINE last == part.tail - 1
    <3>1. part.head \in Int /\ last \in Int /\ ~ (part.head > last) /\ last - part.head + 1 = len
      BY <1>3
    <3> HIDE DEF last, len
    <3>2. /\ IsFiniteSet(part.head .. last)
          /\ Cardinality(part.head .. last) =
                IF part.head > last THEN 0 ELSE last - part.head + 1
      BY <3>1, FS_Interval
    <3>3. QED
      BY <3>1, <3>2 DEF last
  <2>4. rest \cap new = {} /\ old \cap gone = gone
    <3>1. \A x \in old : x \notin gone => x \notin new
      BY <1>11
    <3> HIDE DEF old, gone, new
    <3>2. QED
      BY <1>10, <3>1
  <2> HIDE DEF old, gone, new
  <2>5. IsFiniteSet(rest) /\ Cardinality(rest) = Cardinality(old) - Cardinality(gone)
    BY <2>1, <2>4, FS_Difference
  <2> HIDE DEF rest
  <2>6. Cardinality(rest \cup new) = Cardinality(rest) + Cardinality(new) - Cardinality({})
    BY <2>3, <2>4, <2>5, FS_Union
  <2>7. Cardinality({}) = 0 /\ len \in Int
    BY <1>3, FS_EmptySet
  <2> HIDE DEF len
  <2>8. Cardinality(rest \cup new) = Cardinality(old) - Cardinality(gone) + len
    BY <2>1, <2>2, <2>3, <2>5, <2>6, <2>7
  <2>9. Held(t) = rest \cup new
    BY <1>12 DEF rest
  <2>10. t.size = Cardinality(old) - Cardinality(gone) + len
    BY <1>1, <1>2, <2>2 DEF old, len
  <2>11. QED
    BY <2>8, <2>9, <2>10
<1>15. QED
  <2> HIDE DEF old, gone
  <2>1. QED
    BY <1>7, <1>8, <1>13, <1>14 DEF old

(* What is said of the blocks depends on them only.                        *)
LEMMA SameData ==
    ASSUME NEW r, NEW u, u.data = r.data
    PROVE  /\ Blocks(u) = Blocks(r) /\ Held(u) = Held(r) /\ FirstBlock(u) = FirstBlock(r)
           /\ \A b : BlockEnd(u, b) = BlockEnd(r, b)
           /\ \A end : Placed(r, end) => Placed(u, end)
<1>1. Blocks(u) = Blocks(r)
  BY DEF Blocks
<1>2. Held(u) = Held(r)
  BY <1>1 DEF Held
<1>3. \A b : BlockEnd(u, b) = BlockEnd(r, b)
  BY DEF BlockEnd
<1>4. \A end : Placed(r, end) => Placed(u, end)
  BY <1>1, <1>3 DEF Placed
<1>5. QED
  BY <1>1, <1>2, <1>3, <1>4 DEF FirstBlock

LEMMA BufferNumbers ==
    ASSUME NEW end \in 1 .. Length + 1, NEW r, BufferInv(r, end)
    PROVE  /\ r.next \in Nat /\ r.avail \in Nat /\ end \in Nat /\ Length \in Nat
           /\ end <= Length + 1 /\ r.avail < r.next /\ r.next <= end /\ 1 <= r.next
           /\ Unread(r) \in Nat /\ 1 <= Unread(r) /\ Unread(r) = r.next - r.avail
           /\ r.data \in Buffers
<1>1. /\ r.next \in 1 .. Length + 1 /\ r.avail \in 0 .. Length /\ r.data \in Buffers
      /\ r.avail < r.next /\ r.next <= end /\ Length \in Nat
  BY WrittenType DEF BufferInv, Receiver, SequenceNumber, Buffers
<1>2. QED
  BY <1>1 DEF Unread

(* The buffer u is r with the segment added: nothing has changed, or part  *)
(* of the segment has been stored.                                         *)
AddedTo(r, seg, u, end) ==
    \/ u = r
    \/ \E part : /\ Fits(r, seg, part, end) /\ StoredAs(r, part, u)
                 /\ Held(u) = Held(r) \cup (part.head .. part.tail - 1)

LEMMA AddSound ==
    ASSUME NEW end \in 1 .. Length + 1, NEW r, BufferInv(r, end), NEW seg, Sound(seg, end),
           NEW u, u = Add(r, seg)
    PROVE  /\ BufferInv(u, end) /\ AddedTo(r, seg, u, end)
           /\ r.next <= u.next /\ Unread(u) = Unread(r)
           /\ u.count = r.count
<1> DEFINE part == Trimmed(r, seg)
<1>1. CASE part.head >= part.tail
  <2>1. u = r
    BY <1>1 DEF Add, AddPart
  <2>2. r.next <= r.next
    BY BufferNumbers
  <2>3. QED
    BY <2>1, <2>2 DEF AddedTo
<1>2. CASE ~ (part.head >= part.tail)
  <2> DEFINE t == Stored(r, seg, part)
             n == Contiguous(t, t.next)
  <2>1. u = Advanced(t, n)
    BY <1>2 DEF Add, AddPart, AdvancedToGap
  <2>2. /\ r \in Receiver /\ Placed(r, end)
        /\ r.next \in Nat /\ r.avail \in Nat /\ end \in Nat /\ Length \in Nat
        /\ end <= Length + 1 /\ r.avail < r.next /\ r.next <= end /\ 1 <= r.next
        /\ Unread(r) \in Nat /\ 1 <= Unread(r) /\ Unread(r) = r.next - r.avail
    BY BufferNumbers DEF BufferInv
  <2>3. Fits(r, seg, part, end)
    <3>1. part.head \in Nat /\ part.tail \in Nat
      <4>1. part \in Part
        BY <2>2, TrimmedSound DEF Sound
      <4>2. QED
        BY <4>1 DEF Part
    <3>2. part.head < part.tail
      BY <1>2, <3>1
    <3>3. QED
      BY <3>2, TrimmedFits
  <2> HIDE DEF part
  <2>4. /\ t.next = r.next /\ t.avail = r.avail
        /\ t.read = r.read /\ t.count = r.count /\ t.timer = r.timer
        /\ DOMAIN t = DOMAIN r
    BY <2>2 DEF Stored, Receiver
  <2>5. StoredAs(r, part, t)
    BY <2>2, <2>3, StoredBlocks
  <2>6. /\ Placed(t, end)
        /\ \A b \in Blocks(t) : Unread(r) <= b /\ (b < r.next => BlockEnd(t, b) <= r.next)
        /\ Held(t) = Held(r) \cup (part.head .. part.tail - 1)
        /\ t.size = Cardinality(Held(t))
    BY <2>3, StoredHeld
  <2>7. t.data \in Buffers
    BY <2>5 DEF StoredAs
  <2> DEFINE d == t.data
             size == t.size
             avail == r.avail + (n - r.next)
  <2>8. u = [r EXCEPT !.data = d, !.size = size, !.next = n, !.avail = avail]
    BY <2>1, <2>2, <2>4 DEF Advanced, Stored, Receiver
  <2>9. Reached(t, r.next, n)
    <3> HIDE DEF t
    <3>1. QED
      BY <2>2, <2>4, <2>6, <2>7, ContiguousReached
  <2> HIDE DEF t, n
  <2>10. /\ n \in Nat /\ r.next <= n
         /\ r.next .. n - 1 \subseteq Held(t)
         /\ \A b \in Blocks(t) : b < n => BlockEnd(t, b) <= n
    BY <2>9 DEF Reached
  <2>11. Held(t) \subseteq 1 .. end - 1 /\ Cardinality(Held(t)) \in 0 .. Length
    BY <2>6, <2>7, HeldRange
  <2>12. n <= end
    <3>1. CASE n = r.next
      BY <2>2, <3>1
    <3>2. CASE n # r.next
      <4>1. n - 1 \in r.next .. n - 1
        BY <2>2, <2>10, <3>2
      <4>2. n - 1 \in 1 .. end - 1
        BY <2>10, <2>11, <4>1
      <4>3. QED
        BY <2>2, <2>10, <4>2
    <3>3. QED
      BY <3>1, <3>2
  <2>13. /\ avail \in 0 .. Length /\ n \in 1 .. Length + 1 /\ avail < n
         /\ n - avail = Unread(r)
    BY <2>2, <2>10, <2>12
  <2>14. size \in 0 .. Length
    BY <2>6, <2>11
  <2> HIDE DEF d, size, avail
  <2>15. /\ u \in Receiver /\ u.data = d /\ u.size = size /\ u.next = n /\ u.avail = avail
         /\ u.read = r.read /\ u.count = r.count
    BY <2>2, <2>7, <2>8, <2>13, <2>14 DEF Receiver, SequenceNumber, Buffers, d
  <2>16. u.data = t.data /\ u.size = t.size
    BY <2>15 DEF d, size
  <2>17. /\ Blocks(u) = Blocks(t) /\ Held(u) = Held(t)
         /\ \A b : BlockEnd(u, b) = BlockEnd(t, b)
         /\ Placed(u, end)
    BY <2>6, <2>16, SameData
  <2>18. Unread(u) = Unread(r)
    BY <2>13, <2>15 DEF Unread
  <2>19. u.read = [i \in 1 .. Unread(u) - 1 |-> i]
    BY <2>15, <2>18 DEF BufferInv
  <2>20. Unread(r) .. n - 1 \subseteq Held(t)
    <3>1. Unread(r) .. r.next - 1 \subseteq Held(t)
      BY <2>6 DEF BufferInv
    <3>2. Unread(r) .. n - 1 \subseteq (Unread(r) .. r.next - 1) \cup (r.next .. n - 1)
      BY <2>2, <2>10
    <3>3. QED
      BY <2>10, <3>1, <3>2
  <2>21. \A b \in Blocks(u) : Unread(u) <= b /\ (b < u.next => BlockEnd(u, b) <= u.next)
    BY <2>6, <2>10, <2>15, <2>17, <2>18
  <2>22. BufferInv(u, end)
    <3>1. Unread(u) .. u.next - 1 \subseteq Held(u)
      BY <2>15, <2>17, <2>18, <2>20
    <3>2. u.size = Cardinality(Held(u))
      BY <2>6, <2>16, <2>17
    <3>3. u.avail < u.next /\ u.next <= end
      BY <2>12, <2>13, <2>15
    <3>4. QED
      BY <2>15, <2>17, <2>19, <2>21, <3>1, <3>2, <3>3 DEF BufferInv
  <2>23. StoredAs(r, part, u)
    BY <2>5, <2>16, <2>17 DEF StoredAs
  <2>24. AddedTo(r, seg, u, end)
    BY <2>3, <2>6, <2>17, <2>23 DEF AddedTo
  <2>25. QED
    BY <2>10, <2>15, <2>18, <2>22, <2>24
<1>3. QED
  BY <1>1, <1>2

(* The blocks up to k give the bytes from the first one that is unread:    *)
(* all that are available, or those before the next block.                 *)
Gathered(r, c, k) ==
    /\ \A i \in 1 .. Len(c) : i <= r.avail => c[i] = Unread(r) + i - 1
    /\ \/ r.avail <= Len(c)
       \/ \A b \in Blocks(r) : IF b <= k THEN BlockEnd(r, b) <= Unread(r) + Len(c)
                               ELSE Unread(r) + Len(c) <= b

LEMMA GatheredStep ==
    ASSUME NEW end \in 1 .. Length + 1, NEW r, BufferInv(r, end), NEW k \in 1 .. Length,
           NEW c \in Seq(1 .. Length), Gathered(r, c, k - 1)
    PROVE  Gathered(r, c \o r.data[k], k)
<1> DEFINE d == r.data[k]
           both == c \o d
           U == Unread(r)
           S == 1 .. Length
           n == Len(c)
           m == Len(d)
<1>1. /\ r.next \in Nat /\ r.avail \in Nat /\ U \in Nat /\ r.next = U + r.avail
      /\ r.data \in Buffers /\ k \in Nat /\ Placed(r, end)
  BY BufferNumbers DEF BufferInv
<1>2. d \in Seq(S) /\ m \in Nat /\ n \in Nat /\ DOMAIN d = 1 .. m /\ BlockEnd(r, k) = k + m
      /\ (k \in Blocks(r) <=> k < BlockEnd(r, k))
  BY <1>1, BlockNumbers DEF BlockEnd
<1>3. \A b \in Blocks(r) : b \in Nat /\ BlockEnd(r, b) \in Nat /\ b < BlockEnd(r, b)
  BY <1>1, BlockNumbers DEF Blocks
<1>4. /\ Len(both) = n + m
      /\ \A i \in 1 .. n + m : both[i] = IF i <= n THEN c[i] ELSE d[i - n]
  <2> HIDE DEF S, d
  <2>1. QED
    BY <1>2, ConcatProperties
<1>5. /\ \A i \in 1 .. n : i <= r.avail => c[i] = U + i - 1
      /\ \/ r.avail <= n
         \/ \A b \in Blocks(r) : IF b <= k - 1 THEN BlockEnd(r, b) <= U + n ELSE U + n <= b
  BY DEF Gathered
<1> HIDE DEF both, d, U, S, n, m
<1>6. CASE r.avail <= n
  <2>1. ASSUME NEW i \in 1 .. n + m, i <= r.avail PROVE both[i] = U + i - 1
    <3>1. i \in 1 .. n
      BY <1>1, <1>2, <1>6, <2>1
    <3>2. i <= n
      BY <1>2, <3>1
    <3>3. QED
      BY <1>4, <1>5, <2>1, <3>1, <3>2
  <2>2. r.avail <= n + m
    BY <1>1, <1>2, <1>6
  <2>3. QED
    BY <1>4, <2>1, <2>2 DEF Gathered, both, U, d
<1>7. CASE ~ (r.avail <= n)
  <2>1. \A b \in Blocks(r) : IF b <= k - 1 THEN BlockEnd(r, b) <= U + n ELSE U + n <= b
    BY <1>5, <1>7
  <2>2. CASE k \notin Blocks(r)
    <3>1. m = 0
      BY <1>1, <1>2, <2>2
    <3>2. \A i \in 1 .. n + m : i <= r.avail => both[i] = U + i - 1
      BY <1>2, <1>4, <1>5, <3>1
    <3>3. \A b \in Blocks(r) : b <= k <=> b <= k - 1
      BY <1>1, <1>3, <2>2
    <3>4. \A b \in Blocks(r) : IF b <= k THEN BlockEnd(r, b) <= U + (n + m) ELSE U + (n + m) <= b
      BY <1>2, <2>1, <3>1, <3>3
    <3>5. QED
      BY <1>4, <3>2, <3>4 DEF Gathered, both, U, d
  <2>3. CASE k \in Blocks(r)
    <3>1. U + n = k
      <4> DEFINE x == U + n
      <4>1. x \in Nat /\ U <= x /\ x < r.next
        BY <1>1, <1>2, <1>7
      <4>2. x \in U .. r.next - 1
        BY <1>1, <4>1
      <4>3. U .. r.next - 1 \subseteq Held(r)
        BY DEF BufferInv, U
      <4> HIDE DEF x
      <4>4. PICK b \in Blocks(r) : b <= x /\ x < BlockEnd(r, b)
        BY <1>1, <4>2, <4>3, HeldIs
      <4>5. IF b <= k - 1 THEN BlockEnd(r, b) <= x ELSE x <= b
        BY <2>1 DEF x
      <4>6. IF k <= k - 1 THEN BlockEnd(r, k) <= x ELSE x <= k
        BY <2>1, <2>3 DEF x
      <4>7. x <= k /\ b = x /\ ~ (b <= k - 1)
        BY <1>1, <1>3, <4>1, <4>4, <4>5, <4>6
      <4>8. x = k
        BY <1>1, <1>3, <4>1, <4>7
      <4>9. QED
        BY <4>8 DEF x
    <3>2. \A j \in 1 .. m : d[j] = k + j - 1
      BY <1>1, <1>2, <2>3 DEF Placed, Consecutive, d
    <3>3. \A i \in 1 .. n + m : both[i] = U + i - 1
      <4> SUFFICES ASSUME NEW i \in 1 .. n + m PROVE both[i] = U + i - 1
        OBVIOUS
      <4>1. CASE i <= n
        <5>1. i \in 1 .. n /\ i <= r.avail
          BY <1>1, <1>2, <1>7, <4>1
        <5>2. both[i] = c[i]
          BY <1>4, <4>1
        <5>3. QED
          BY <1>5, <5>1, <5>2
      <4>2. CASE ~ (i <= n)
        <5>1. i - n \in 1 .. m
          BY <1>2, <4>2
        <5>2. both[i] = d[i - n]
          BY <1>4, <4>2
        <5>3. both[i] = k + (i - n) - 1
          BY <3>2, <5>1, <5>2
        <5>4. k + (i - n) - 1 = U + i - 1
          BY <1>1, <1>2, <3>1
        <5>5. QED
          BY <5>3, <5>4
      <4>3. QED
        BY <4>1, <4>2
    <3>4. ASSUME NEW b \in Blocks(r)
          PROVE  IF b <= k THEN BlockEnd(r, b) <= U + (n + m) ELSE U + (n + m) <= b
      <4>1. BlockEnd(r, k) = U + (n + m)
        BY <1>1, <1>2, <3>1
      <4>2. CASE b < k
        <5>1. BlockEnd(r, b) <= k
          BY <1>1, <2>3, <4>2 DEF Placed
        <5>2. QED
          BY <1>1, <1>2, <1>3, <3>1, <4>2, <5>1
      <4>3. CASE b = k
        <5>1. BlockEnd(r, k) \in Nat
          BY <1>3, <2>3
        <5>2. QED
          BY <1>1, <4>1, <4>3, <5>1
      <4>4. CASE b > k
        <5>1. BlockEnd(r, k) <= b
          BY <1>1, <2>3, <4>4 DEF Placed
        <5>2. QED
          BY <1>1, <1>3, <4>1, <4>4, <5>1
      <4>5. QED
        BY <1>1, <1>3, <4>2, <4>3, <4>4
    <3>5. QED
      BY <1>4, <3>3, <3>4 DEF Gathered, both, U, d
  <2>4. QED
    BY <2>2, <2>3
<1>8. QED
  BY <1>6, <1>7

(* What is available is gathered.                                          *)
LEMMA ContentAvailable ==
    ASSUME NEW end \in 1 .. Length + 1, NEW r, BufferInv(r, end)
    PROVE  /\ Content(r) \in Seq(1 .. Length) /\ r.avail <= Len(Content(r))
           /\ \A i \in 1 .. r.avail : Content(r)[i] = Unread(r) + i - 1
<1> DEFINE S == Seq(1 .. Length)
           U == Unread(r)
<1>1. /\ r.next \in Nat /\ r.avail \in Nat /\ U \in Nat /\ r.next = U + r.avail
      /\ r.data \in Buffers /\ Length \in Nat
  BY BufferNumbers
<1>2. r.data \in [1 .. Length -> S]
  BY <1>1 DEF Buffers, Bytes
<1>3. \A b \in Blocks(r) : b \in Nat /\ b \in 1 .. Length /\ BlockEnd(r, b) \in Nat
  BY <1>1, BlockNumbers DEF Blocks
<1>4. PICK t \in [0 .. Length -> S] :
        /\ t[0] = << >>
        /\ \A k \in 1 .. Length : t[k] = t[k - 1] \o r.data[k]
        /\ t[Length] = Content(r)
  <2>1. << >> \in S /\ \A k \in 1 .. Length : \A p \in S : p \o r.data[k] \in S
    <3>1. ASSUME NEW k \in 1 .. Length, NEW p \in S PROVE p \o r.data[k] \in S
      <4>1. r.data[k] \in S
        BY <1>2
      <4> DEFINE d == r.data[k]
                 T == 1 .. Length
      <4> HIDE DEF d, T
      <4>2. p \in Seq(T) /\ d \in Seq(T)
        BY <4>1 DEF d, T
      <4>3. p \o d \in Seq(T)
        BY <4>2, ConcatProperties
      <4>4. QED
        BY <4>3 DEF d, T
    <3>2. QED
      BY <3>1
  <2> HIDE DEF S
  <2>2. QED
    BY <1>1, <1>2, <2>1, ContentTrace
<1> DEFINE T == {k \in 0 .. Length : Gathered(r, t[k], k)}
<1>5. 0 \in T
  <2>1. Len(t[0]) = 0
    BY <1>4
  <2>2. \A b \in Blocks(r) : ~ (b <= 0) /\ U + 0 <= b
    BY <1>1, <1>3 DEF BufferInv
  <2>3. Gathered(r, t[0], 0)
    BY <2>1, <2>2 DEF Gathered
  <2>4. QED
    BY <1>1, <2>3
<1>6. ASSUME NEW k \in 1 .. Length, k - 1 \in T PROVE k \in T
  <2>1. k \in 0 .. Length /\ k - 1 \in 0 .. Length /\ Gathered(r, t[k - 1], k - 1)
        /\ t[k - 1] \in Seq(1 .. Length)
    BY <1>1, <1>4, <1>6
  <2>2. Gathered(r, t[k - 1] \o r.data[k], k)
    BY <2>1, GatheredStep
  <2>3. Gathered(r, t[k], k)
    BY <1>4, <2>2
  <2>4. QED
    BY <2>1, <2>3
<1>7. Gathered(r, Content(r), Length) /\ Content(r) \in S
  <2> HIDE DEF T
  <2>1. Length \in 0 .. Length
    BY <1>1
  <2>2. \A k \in 0 .. Length : k \in T
    BY <1>1, <1>5, <1>6, UpTo
  <2>3. QED
    BY <1>4, <2>1, <2>2 DEF T
<1> DEFINE c == Content(r)
           n == Len(c)
<1>8. n \in Nat
  BY <1>7
<1>9. r.avail <= n
  <2> SUFFICES ASSUME ~ (r.avail <= n) PROVE FALSE
    OBVIOUS
  <2>1. \A b \in Blocks(r) : IF b <= Length THEN BlockEnd(r, b) <= U + n ELSE U + n <= b
    BY <1>7 DEF Gathered
  <2> DEFINE x == U + n
  <2> HIDE DEF n
  <2>2. x \in Nat /\ x \in U .. r.next - 1
    BY <1>1, <1>8
  <2>3. U .. r.next - 1 \subseteq Held(r)
    BY DEF BufferInv
  <2> HIDE DEF x
  <2>4. PICK b \in Blocks(r) : b <= x /\ x < BlockEnd(r, b)
    BY <1>1, <2>2, <2>3, HeldIs
  <2>5. BlockEnd(r, b) <= x
    BY <1>3, <2>1 DEF x
  <2>6. QED
    BY <1>3, <2>2, <2>4, <2>5
<1>10. \A i \in 1 .. r.avail : c[i] = U + i - 1
  <2>1. \A i \in 1 .. n : i <= r.avail => c[i] = U + i - 1
    BY <1>7 DEF Gathered
  <2> HIDE DEF n, c, U
  <2>2. QED
    BY <1>1, <1>8, <1>9, <2>1
<1>11. QED
  BY <1>7, <1>9, <1>10

(* The blocks of t are what remains of those of r from start on.           *)
ExtractedTo(r, start, t) ==
    /\ t.data \in Buffers
    /\ \A b \in Blocks(t) :
           /\ start <= b /\ Consecutive(b, t.data[b])
           /\ \E c \in Blocks(r) : /\ c <= b /\ BlockEnd(t, b) = BlockEnd(r, c)
                                   /\ b = c \/ b = start
    /\ \A c \in Blocks(r) : start < BlockEnd(r, c) =>
           \E b \in Blocks(t) : /\ BlockEnd(t, b) = BlockEnd(r, c)
                                /\ b = c \/ (c < start /\ b = start)

LEMMA ExtractedHeld ==
    ASSUME NEW end \in 1 .. Length + 1, NEW r, r.data \in Buffers, Placed(r, end),
           NEW start \in Nat, NEW t, ExtractedTo(r, start, t)
    PROVE  /\ Placed(t, end)
           /\ \A x : x \in Held(t) <=> x \in Held(r) /\ start <= x
<1>1. /\ t.data \in Buffers
      /\ \A b \in Blocks(t) :
             /\ start <= b /\ Consecutive(b, t.data[b])
             /\ \E c \in Blocks(r) : /\ c <= b /\ BlockEnd(t, b) = BlockEnd(r, c)
                                     /\ b = c \/ b = start
      /\ \A c \in Blocks(r) : start < BlockEnd(r, c) =>
             \E b \in Blocks(t) : /\ BlockEnd(t, b) = BlockEnd(r, c)
                                  /\ b = c \/ (c < start /\ b = start)
  BY DEF ExtractedTo
<1>2. \A b \in Blocks(r) : b \in Nat /\ BlockEnd(r, b) \in Nat
  BY BlockNumbers DEF Blocks
<1>3. \A b \in Blocks(t) : b \in Nat /\ BlockEnd(t, b) \in Nat
  BY <1>1, BlockNumbers DEF Blocks
<1>4. Placed(t, end)
  <2> SUFFICES ASSUME NEW b \in Blocks(t)
               PROVE  /\ BlockEnd(t, b) <= end
                      /\ \A d \in Blocks(t) : b < d => BlockEnd(t, b) <= d
    BY <1>1 DEF Placed
  <2>1. PICK c \in Blocks(r) : c <= b /\ BlockEnd(t, b) = BlockEnd(r, c)
    BY <1>1
  <2>2. ASSUME NEW d \in Blocks(t), b < d PROVE BlockEnd(r, c) <= d
    <3>1. start <= b /\ d # start
      BY <1>1, <1>3, <2>2
    <3>2. d \in Blocks(r)
      BY <1>1, <3>1
    <3>3. c < d
      BY <1>2, <1>3, <2>1, <2>2
    <3>4. QED
      BY <3>2, <3>3 DEF Placed
  <2>3. BlockEnd(r, c) <= end
    BY DEF Placed
  <2>4. QED
    BY <2>1, <2>2, <2>3
<1>5. ASSUME NEW x, x \in Held(t) PROVE x \in Held(r) /\ start <= x
  <2>1. PICK b \in Blocks(t) : x \in Nat /\ b <= x /\ x < BlockEnd(t, b)
    BY <1>1, <1>5, HeldIs
  <2>2. PICK c \in Blocks(r) : c <= b /\ BlockEnd(t, b) = BlockEnd(r, c)
    BY <1>1
  <2>3. start <= x /\ c <= x /\ x < BlockEnd(r, c)
    BY <1>1, <1>2, <1>3, <2>1, <2>2
  <2>4. QED
    BY <2>1, <2>3, HeldIs
<1>6. ASSUME NEW x, x \in Held(r), start <= x PROVE x \in Held(t)
  <2>1. PICK c \in Blocks(r) : x \in Nat /\ c <= x /\ x < BlockEnd(r, c)
    BY <1>6, HeldIs
  <2>2. start < BlockEnd(r, c)
    BY <1>2, <1>6, <2>1
  <2>3. PICK b \in Blocks(t) : /\ BlockEnd(t, b) = BlockEnd(r, c)
                               /\ b = c \/ (c < start /\ b = start)
    BY <1>1, <2>2
  <2>4. b <= x /\ x < BlockEnd(t, b)
    BY <1>6, <2>1, <2>3
  <2>5. QED
    BY <1>1, <2>1, <2>4, HeldIs
<1>7. QED
  BY <1>4, <1>5, <1>6

(* The block that is cut, if there is one.                                 *)
CutBlocks(r, start) == {b \in Blocks(r) : b < start /\ start < b + Len(r.data[b])}

Rest(r, start) ==
    LET c == Min(CutBlocks(r, start)) IN SubSeq(r.data[c], start - c + 1, Len(r.data[c]))

LEMMA CutBlock ==
    ASSUME NEW end \in 1 .. Length + 1, NEW r, r.data \in Buffers, Placed(r, end),
           NEW start \in Nat, CutBlocks(r, start) # {}
    PROVE  \E c \in Blocks(r) :
               /\ CutBlocks(r, start) = {c} /\ c < start /\ start < BlockEnd(r, c)
               /\ start \in 1 .. Length /\ start \notin Blocks(r)
               /\ Rest(r, start) \in Bytes /\ Rest(r, start) # << >>
               /\ start + Len(Rest(r, start)) = BlockEnd(r, c)
               /\ Consecutive(start, Rest(r, start))
<1> DEFINE cut == CutBlocks(r, start)
           c == Min(cut)
           q == r.data[c]
           S == 1 .. Length
           m == start - c
           len == Len(q)
           rest == SubSeq(q, m + 1, len)
<1>1. \A b \in Blocks(r) : b \in Nat /\ b >= 1 /\ b \in 1 .. Length /\ BlockEnd(r, b) \in Nat
  BY BlockNumbers, WrittenType DEF Blocks
<1>2. \A b \in cut : b \in Blocks(r) /\ b < start /\ start < BlockEnd(r, b)
  BY DEF CutBlocks, BlockEnd
<1>3. c \in cut
  <2>1. cut \in SUBSET Nat
    BY <1>1, <1>2
  <2> HIDE DEF cut
  <2>2. cut # {}
    BY DEF cut
  <2>3. QED
    BY <2>1, <2>2, MinIsLeast
<1> HIDE DEF cut, c
<1>4. c \in Blocks(r) /\ c < start /\ start < BlockEnd(r, c) /\ c \in Nat /\ c >= 1
      /\ c \in 1 .. Length
  BY <1>1, <1>2, <1>3
<1>5. cut = {c}
  <2> SUFFICES ASSUME NEW b \in cut, b # c PROVE FALSE
    BY <1>3
  <2>1. b < c => BlockEnd(r, b) <= c
    BY <1>2, <1>4 DEF Placed
  <2>2. c < b => BlockEnd(r, c) <= b
    BY <1>2, <1>4 DEF Placed
  <2>3. b \in Blocks(r) /\ b < start /\ start < BlockEnd(r, b)
    BY <1>2
  <2>4. b \in Nat /\ BlockEnd(r, b) \in Nat /\ BlockEnd(r, c) \in Nat
    BY <1>1, <1>4, <2>3
  <2>5. b < c \/ c < b
    BY <1>4, <2>4
  <2>6. QED
    BY <1>4, <2>1, <2>2, <2>3, <2>4, <2>5
<1>6. /\ Length \in Nat /\ len \in Nat /\ q \in Seq(S) /\ BlockEnd(r, c) = c + len /\ DOMAIN q = 1 .. len
      /\ BlockEnd(r, c) <= end /\ end \in Nat /\ end <= Length + 1
  <2>1. Len(r.data[c]) \in Nat /\ r.data[c] \in Seq(1 .. Length)
        /\ DOMAIN r.data[c] = 1 .. Len(r.data[c])
    BY <1>4, BlockNumbers
  <2>2. BlockEnd(r, c) = c + Len(r.data[c])
    BY DEF BlockEnd
  <2>3. Length \in Nat /\ BlockEnd(r, c) <= end /\ end \in Nat /\ end <= Length + 1
    BY <1>4, WrittenType DEF Placed
  <2>4. QED
    BY <2>1, <2>2, <2>3
<1>7. \A i \in 1 .. len : q[i] = c + i - 1
  BY <1>4, <1>6 DEF Placed, Consecutive
<1>8. start \in 1 .. Length /\ start \notin Blocks(r)
  <2>1. start \in Blocks(r) => BlockEnd(r, c) <= start
    BY <1>4 DEF Placed
  <2> HIDE DEF len
  <2>2. QED
    BY <1>1, <1>4, <1>6, <2>1
<1>9. Rest(r, start) = rest
  BY DEF Rest, c, cut
<1> HIDE DEF len
<1>10. m \in Nat /\ m < len /\ c + m = start
  BY <1>4, <1>6
<1> HIDE DEF m, S, q
<1>11. /\ rest \in Seq(S) /\ Len(rest) = len - m /\ DOMAIN rest = 1 .. len - m
       /\ \A i \in 1 .. len - m : rest[i] = q[m + i]
  <2>1. m \in Nat /\ len \in Nat /\ m <= len /\ len <= Len(q) /\ q \in Seq(S)
    BY <1>6, <1>10 DEF len
  <2>2. QED
    BY <2>1, PartOfSeq
<1>12. ASSUME NEW i \in 1 .. len - m PROVE rest[i] = start + i - 1
  <2>1. m + i \in 1 .. len /\ c + (m + i) - 1 = start + i - 1
    BY <1>4, <1>6, <1>10
  <2>2. q[m + i] = c + (m + i) - 1
    BY <1>7, <2>1
  <2> HIDE DEF rest
  <2>3. QED
    BY <1>11, <2>1, <2>2
<1> HIDE DEF rest
<1>13. rest # << >> /\ start + Len(rest) = BlockEnd(r, c)
  <2> DEFINE left == Len(rest)
  <2>0. left = len - m
    BY <1>11
  <2> HIDE DEF left
  <2>1. left # 0 /\ start + left = c + len
    BY <1>4, <1>6, <1>10, <2>0
  <2>2. Len(<< >>) = 0
    OBVIOUS
  <2>3. QED
    BY <1>6, <2>1, <2>2 DEF left
<1>14. Consecutive(start, rest)
  BY <1>11, <1>12 DEF Consecutive
<1>15. rest \in Bytes
  BY <1>11 DEF Bytes, S
<1>16. QED
  BY <1>4, <1>5, <1>8, <1>9, <1>13, <1>14, <1>15 DEF cut

LEMMA ExtractedBlocks ==
    ASSUME NEW end \in 1 .. Length + 1, NEW r, r.data \in Buffers, Placed(r, end),
           NEW start \in Nat, NEW t,
           t.data = [b \in 1 .. Length |->
                       IF b < start THEN << >>
                       ELSE IF b = start /\ CutBlocks(r, start) # {} THEN Rest(r, start)
                       ELSE r.data[b]]
    PROVE  ExtractedTo(r, start, t)
<1> DEFINE cut == CutBlocks(r, start)
<1>1. \A b \in Blocks(r) : b \in Nat /\ b \in 1 .. Length /\ BlockEnd(r, b) \in Nat
  BY BlockNumbers DEF Blocks
<1>2. \A b \in 1 .. Length : b \in Nat
  BY WrittenType
<1>3. \A b \in Blocks(r) : Consecutive(b, r.data[b])
  BY DEF Placed
<1>4. << >> \in Bytes /\ \A b \in 1 .. Length : r.data[b] \in Bytes
  <2>1. << >> \in Seq(1 .. Length)
    OBVIOUS
  <2>2. QED
    BY <2>1 DEF Buffers, Bytes
<1>5. CASE cut = {}
  <2>1. t.data = [b \in 1 .. Length |-> IF b < start THEN << >> ELSE r.data[b]]
    BY <1>5
  <2>2. t.data \in Buffers
    BY <1>4, <2>1 DEF Buffers
  <2>3. \A b \in 1 .. Length : b \in Blocks(t) <=> start <= b /\ b \in Blocks(r)
    BY <1>2, <2>1 DEF Blocks
  <2>4. \A b \in Blocks(t) : /\ b \in Blocks(r) /\ start <= b /\ t.data[b] = r.data[b]
                             /\ BlockEnd(t, b) = BlockEnd(r, b) /\ b <= b
    <3> SUFFICES ASSUME NEW b \in Blocks(t)
                 PROVE  /\ b \in Blocks(r) /\ start <= b /\ t.data[b] = r.data[b]
                        /\ BlockEnd(t, b) = BlockEnd(r, b) /\ b <= b
      OBVIOUS
    <3>1. b \in 1 .. Length /\ b \in Nat
      BY <1>2 DEF Blocks
    <3>2. b \in Blocks(r) /\ start <= b
      BY <2>3, <3>1
    <3>3. t.data[b] = r.data[b]
      BY <2>1, <3>1, <3>2
    <3>4. QED
      BY <3>1, <3>2, <3>3 DEF BlockEnd
  <2>5. ASSUME NEW c \in Blocks(r), start < BlockEnd(r, c)
        PROVE  c \in Blocks(t)
    <3>1. c \notin cut
      BY <1>5
    <3>2. start <= c
      BY <1>1, <2>5, <3>1 DEF CutBlocks, BlockEnd
    <3>3. QED
      BY <1>1, <2>3, <3>2
  <2>6. QED
    BY <1>3, <2>2, <2>4, <2>5 DEF ExtractedTo
<1>6. CASE cut # {}
  <2> DEFINE rest == Rest(r, start)
  <2>1. PICK c \in Blocks(r) :
          /\ cut = {c} /\ c < start /\ start < BlockEnd(r, c)
          /\ start \in 1 .. Length /\ start \notin Blocks(r)
          /\ rest \in Bytes /\ rest # << >>
          /\ start + Len(rest) = BlockEnd(r, c)
          /\ Consecutive(start, rest)
    BY <1>6, CutBlock
  <2> HIDE DEF rest
  <2>2. t.data = [b \in 1 .. Length |->
                    IF b < start THEN << >> ELSE IF b = start THEN rest ELSE r.data[b]]
    BY <1>6 DEF rest
  <2>3. t.data \in Buffers
    BY <1>4, <2>1, <2>2 DEF Buffers
  <2>4. \A b \in 1 .. Length : b \in Blocks(t) <=> b = start \/ (start < b /\ b \in Blocks(r))
    BY <1>2, <2>1, <2>2 DEF Blocks
  <2>5. t.data[start] = rest /\ BlockEnd(t, start) = BlockEnd(r, c) /\ start \in Blocks(t)
    <3>1. t.data[start] = rest
      BY <1>2, <2>1, <2>2
    <3>2. QED
      BY <2>1, <2>4, <3>1 DEF BlockEnd
  <2>6. \A b \in Blocks(t) : b # start =>
             /\ b \in Blocks(r) /\ start < b /\ t.data[b] = r.data[b]
             /\ BlockEnd(t, b) = BlockEnd(r, b) /\ b <= b
    <3> SUFFICES ASSUME NEW b \in Blocks(t), b # start
                 PROVE  /\ b \in Blocks(r) /\ start < b /\ t.data[b] = r.data[b]
                        /\ BlockEnd(t, b) = BlockEnd(r, b) /\ b <= b
      OBVIOUS
    <3>1. b \in 1 .. Length /\ b \in Nat
      BY <1>2 DEF Blocks
    <3>2. b \in Blocks(r) /\ start < b
      BY <2>4, <3>1
    <3>3. t.data[b] = r.data[b]
      BY <2>2, <3>1, <3>2
    <3>4. QED
      BY <3>1, <3>2, <3>3 DEF BlockEnd
  <2>7. ASSUME NEW b \in Blocks(t)
        PROVE  /\ start <= b /\ Consecutive(b, t.data[b])
               /\ \E d \in Blocks(r) : /\ d <= b /\ BlockEnd(t, b) = BlockEnd(r, d)
                                       /\ b = d \/ b = start
    <3>1. CASE b = start
      <4>1. c <= start /\ start <= start
        BY <1>1, <2>1
      <4>2. QED
        BY <2>1, <2>5, <3>1, <4>1
    <3>2. CASE b # start
      <4>1. /\ b \in Blocks(r) /\ start < b /\ t.data[b] = r.data[b]
            /\ BlockEnd(t, b) = BlockEnd(r, b) /\ b <= b
        BY <2>6, <3>2
      <4>2. start <= b
        BY <1>1, <4>1
      <4>3. QED
        BY <1>3, <4>1, <4>2
    <3>3. QED
      BY <3>1, <3>2
  <2>8. ASSUME NEW d \in Blocks(r), start < BlockEnd(r, d)
        PROVE  \E b \in Blocks(t) : /\ BlockEnd(t, b) = BlockEnd(r, d)
                                    /\ b = d \/ (d < start /\ b = start)
    <3>1. CASE d < start
      <4>1. d \in cut
        BY <2>8, <3>1 DEF CutBlocks, BlockEnd
      <4>2. d = c
        BY <2>1, <4>1
      <4>3. QED
        BY <2>5, <3>1, <4>2
    <3>2. CASE ~ (d < start)
      <4>1. start < d
        BY <1>1, <2>1, <3>2
      <4>2. d \in Blocks(t) /\ d # start
        BY <1>1, <2>4, <4>1
      <4>3. BlockEnd(t, d) = BlockEnd(r, d)
        BY <2>6, <4>2
      <4>4. QED
        BY <4>2, <4>3
    <3>3. QED
      BY <3>1, <3>2
  <2>9. QED
    BY <2>3, <2>7, <2>8 DEF ExtractedTo
<1>7. QED
  BY <1>5, <1>6

LEMMA FirstAvailable ==
    ASSUME NEW end \in 1 .. Length + 1, NEW r, BufferInv(r, end), r.avail > 0
    PROVE  Unread(r) \in Blocks(r) /\ FirstBlock(r) = Unread(r)
<1>1. /\ r.next \in Nat /\ r.avail \in Nat /\ Unread(r) \in Nat /\ Unread(r) = r.next - r.avail
      /\ r.data \in Buffers
  BY BufferNumbers
<1> DEFINE U == Unread(r)
<1> HIDE DEF U
<1>2. U \in Nat /\ U \in U .. r.next - 1
  BY <1>1 DEF U
<1>3. U \in Held(r)
  BY <1>2 DEF BufferInv, U
<1>4. PICK b \in Blocks(r) : b <= U /\ U < BlockEnd(r, b)
  BY <1>1, <1>3, HeldIs
<1>5. \A c \in Blocks(r) : U <= c /\ c \in Nat
  BY <1>1, BlockNumbers DEF BufferInv, Blocks, U
<1>6. b = U
  BY <1>2, <1>4, <1>5
<1>7. FirstBlock(r) \in Blocks(r) /\ FirstBlock(r) <= b
  BY FirstBlockIs
<1>8. FirstBlock(r) = U
  <2> DEFINE f == FirstBlock(r)
  <2> HIDE DEF f
  <2>1. f \in Nat /\ U <= f /\ f <= U
    BY <1>5, <1>6, <1>7 DEF f
  <2>2. f = U
    BY <1>2, <2>1
  <2>3. QED
    BY <2>2 DEF f
<1>9. QED
  BY <1>6, <1>8 DEF U

LEMMA ExtractSound ==
    ASSUME NEW end \in 1 .. Length + 1, NEW r, BufferInv(r, end), r.avail > 0,
           NEW maxSize \in Nat \ {0}, NEW t, t = Extract(r, maxSize)
    PROVE  /\ BufferInv(t, end) /\ t.next = r.next /\ t.count = r.count
           /\ Unread(r) < Unread(t) /\ ExtractedTo(r, Unread(t), t)
           /\ t.size <= r.size
<1> DEFINE size == Min({maxSize, r.avail})
           U == Unread(r)
           start == U + size
           data == [b \in 1 .. Length |->
                      IF b < start THEN << >>
                      ELSE IF b = start /\ CutBlocks(r, start) # {} THEN Rest(r, start)
                      ELSE r.data[b]]
           bytes == SubSeq(Content(r), 0 + 1, size)
<1>1. /\ r.next \in Nat /\ r.avail \in Nat /\ end \in Nat /\ Length \in Nat
      /\ end <= Length + 1 /\ r.avail < r.next /\ r.next <= end
      /\ U \in Nat /\ 1 <= U /\ r.next = U + r.avail
      /\ r.data \in Buffers
  BY BufferNumbers
<1>2. /\ r \in Receiver /\ Placed(r, end) /\ r.size = Cardinality(Held(r)) /\ r.size \in 0 .. Length
      /\ r.read = [i \in 1 .. U - 1 |-> i]
      /\ U .. r.next - 1 \subseteq Held(r)
      /\ \A b \in Blocks(r) : U <= b /\ (b < r.next => BlockEnd(r, b) <= r.next)
  BY DEF BufferInv, Receiver
<1>3. /\ Content(r) \in Seq(1 .. Length) /\ r.avail <= Len(Content(r))
      /\ \A i \in 1 .. r.avail : Content(r)[i] = U + i - 1
  BY ContentAvailable
<1>4. FirstBlock(r) = U
  BY FirstAvailable
<1>5. size \in Nat /\ 1 <= size /\ size <= r.avail
  <2>1. size = IF maxSize <= r.avail THEN maxSize ELSE r.avail
    BY <1>1, MinOfTwo
  <2> HIDE DEF size
  <2>2. QED
    BY <1>1, <2>1
<1>6. t = [r EXCEPT !.data = data, !.size = @ - size, !.avail = @ - size, !.read = @ \o bytes]
  <2>1. FirstBlock(r) + size = start
    BY <1>4
  <2>2. {b \in Blocks(r) : b < start /\ start < b + Len(r.data[b])} = CutBlocks(r, start)
    BY DEF CutBlocks
  <2>3. 0 + 1 = 1
    OBVIOUS
  <2> HIDE DEF size, U
  <2>4. QED
    BY <1>4, <2>3 DEF Extract, CutBlocks, Rest, size
<1> HIDE DEF size, U
<1>7. start \in Nat /\ U < start /\ start <= r.next
  BY <1>1, <1>5
<1>8. /\ bytes \in Seq(1 .. Length) /\ Len(bytes) = size
      /\ \A i \in 1 .. size : bytes[i] = U + i - 1
  <2> DEFINE S == 1 .. Length
             q == Content(r)
  <2>1. q \in Seq(S) /\ Len(q) \in Nat /\ size <= Len(q)
    <3>1. q \in Seq(S) /\ Len(q) \in Nat
      BY <1>3
    <3> DEFINE len == Len(q)
    <3>2. r.avail <= len
      BY <1>3
    <3> HIDE DEF len, q
    <3>3. size <= len
      BY <1>1, <1>5, <3>1, <3>2 DEF len
    <3>4. QED
      BY <3>1, <3>3 DEF len
  <2>2. \A i \in 1 .. size : q[0 + i] = U + i - 1
    <3> SUFFICES ASSUME NEW i \in 1 .. size PROVE q[0 + i] = U + i - 1
      OBVIOUS
    <3>1. i \in 1 .. r.avail /\ 0 + i = i
      BY <1>1, <1>5
    <3>2. QED
      BY <1>3, <3>1
  <2> HIDE DEF S, q
  <2>3. 0 \in Nat /\ 0 <= size /\ size - 0 = size
    BY <1>5
  <2>4. /\ SubSeq(q, 0 + 1, size) \in Seq(S)
        /\ Len(SubSeq(q, 0 + 1, size)) = size
        /\ \A i \in 1 .. size : SubSeq(q, 0 + 1, size)[i] = q[0 + i]
    BY <1>5, <2>1, <2>3, PartOfSeq
  <2>5. bytes = SubSeq(q, 0 + 1, size)
    BY DEF q
  <2> HIDE DEF bytes
  <2>6. QED
    BY <2>2, <2>4, <2>5 DEF S
<1> HIDE DEF bytes
<1>9. r.read \o bytes = [i \in 1 .. start - 1 |-> i] /\ r.read \o bytes \in Bytes
  <2> DEFINE q == r.read
             S == 1 .. Length
             both == q \o bytes
             u == U - 1
  <2>1. u \in Nat /\ u <= Length /\ u + size = start - 1 /\ start - 1 <= Length
    BY <1>1, <1>5, <1>7
  <2> HIDE DEF u
  <2>2. q = [i \in 1 .. u |-> i]
    BY <1>2 DEF u
  <2>3. q \in Seq(S) /\ Len(q) = u /\ \A i \in 1 .. u : q[i] = i
    <3> HIDE DEF q
    <3>1. \A i \in 1 .. u : i \in S
      BY <1>1, <2>1
    <3> HIDE DEF S
    <3>2. q \in [1 .. u -> S]
      BY <2>2, <3>1
    <3>3. QED
      BY <2>1, <2>2, <3>2
  <2> HIDE DEF q, S
  <2>4. /\ both \in Seq(S) /\ Len(both) = u + size
        /\ \A i \in 1 .. u + size : both[i] = IF i <= u THEN q[i] ELSE bytes[i - u]
    BY <1>8, <2>3, ConcatProperties DEF S
  <2> HIDE DEF both
  <2>5. \A i \in 1 .. u + size : both[i] = i
    <3> SUFFICES ASSUME NEW i \in 1 .. u + size PROVE both[i] = i
      OBVIOUS
    <3>1. i \in Nat
      BY <1>5, <2>1
    <3>2. CASE i <= u
      <4>1. i \in 1 .. u
        BY <2>1, <3>1, <3>2
      <4>2. QED
        BY <2>3, <2>4, <3>2, <4>1
    <3>3. CASE ~ (i <= u)
      <4>1. i - u \in 1 .. size /\ U + (i - u) - 1 = i
        BY <1>1, <1>5, <2>1, <3>1, <3>3 DEF u
      <4>2. both[i] = bytes[i - u]
        BY <2>4, <3>3
      <4>3. QED
        BY <1>8, <4>1, <4>2
    <3>4. QED
      BY <3>2, <3>3
  <2>6. both = [i \in 1 .. u + size |-> both[i]]
    <3>1. both \in [1 .. u + size -> S]
      BY <2>4
    <3>2. QED
      BY <3>1
  <2>7. both = [i \in 1 .. u + size |-> i]
    BY <2>5, <2>6
  <2>8. QED
    BY <2>1, <2>4, <2>7 DEF both, q, S, Bytes
<1>10. t.data = data
  BY <1>2, <1>6 DEF Receiver
<1> HIDE DEF start
<1>11. ExtractedTo(r, start, t)
  BY <1>1, <1>2, <1>7, <1>10, ExtractedBlocks
<1>12. t.data \in Buffers
  BY <1>11 DEF ExtractedTo
<1>13. /\ Placed(t, end)
       /\ \A x : x \in Held(t) <=> x \in Held(r) /\ start <= x
  BY <1>1, <1>2, <1>7, <1>11, ExtractedHeld
<1>14. r.size - size = Cardinality(Held(t))
  <2> DEFINE new == Held(t)
             old == Held(r)
             gone == U .. start - 1
  <2>1. old \subseteq 1 .. end - 1 /\ IsFiniteSet(old)
    BY <1>1, <1>2, HeldRange
  <2>2. \A x \in old : x \in Nat /\ U <= x
    <3> SUFFICES ASSUME NEW x \in old PROVE x \in Nat /\ U <= x
      OBVIOUS
    <3>1. PICK b \in Blocks(r) : x \in Nat /\ b <= x
      BY <1>1, HeldIs
    <3>2. b \in Nat /\ U <= b
      BY <1>1, <1>2, BlockNumbers DEF Blocks
    <3>3. QED
      BY <1>1, <3>1, <3>2
  <2>3. gone \subseteq old
    <3>1. U .. start - 1 \subseteq U .. r.next - 1
      BY <1>1, <1>7
    <3>2. QED
      BY <1>2, <3>1
  <2>4. \A x \in Nat : U <= x => (x \in gone <=> ~ (start <= x))
    BY <1>1, <1>7
  <2>5. \A x : x \in new <=> x \in old /\ start <= x
    BY <1>13
  <2>6. IsFiniteSet(gone) /\ Cardinality(gone) = size
    <3> DEFINE last == start - 1
    <3>1. U \in Int /\ last \in Int /\ ~ (U > last) /\ last - U + 1 = size
      BY <1>1, <1>5, <1>7 DEF start
    <3> HIDE DEF last
    <3>2. /\ IsFiniteSet(U .. last)
          /\ Cardinality(U .. last) = IF U > last THEN 0 ELSE last - U + 1
      BY <3>1, FS_Interval
    <3>3. QED
      BY <3>1, <3>2 DEF last
  <2>7. Cardinality(old) = r.size
    BY <1>2
  <2> HIDE DEF new, old, gone
  <2>8. new = old \ gone
    BY <2>2, <2>4, <2>5
  <2>9. old \cap gone = gone
    BY <2>3
  <2>10. Cardinality(old \ gone) = Cardinality(old) - Cardinality(old \cap gone)
    BY <2>1, <2>6, FS_Difference
  <2>11. QED
    BY <2>6, <2>7, <2>8, <2>9, <2>10 DEF new
<1>15. Cardinality(Held(t)) \in 0 .. Length
  BY <1>12, <1>13, HeldRange
<1>16. r.size - size \in 0 .. Length /\ r.size - size <= r.size /\ r.avail - size \in 0 .. Length
       /\ r.next - (r.avail - size) = start /\ r.avail - size < r.next
  <2> DEFINE avail == r.avail
             total == r.size
             next == r.next
  <2>1. /\ avail \in Nat /\ next \in Nat /\ total \in 0 .. Length /\ avail < next
        /\ next = U + avail /\ next <= Length + 1 /\ U >= 1
        /\ size <= avail
    BY <1>1, <1>2, <1>5
  <2>2. total - size \in 0 .. Length
    BY <1>14, <1>15
  <2> HIDE DEF avail, total, next
  <2>3. /\ total - size <= total /\ avail - size \in 0 .. Length
        /\ next - (avail - size) = U + size /\ avail - size < next
    BY <1>1, <1>5, <2>1, <2>2
  <2>4. QED
    BY <2>2, <2>3 DEF avail, total, next, start
<1> DEFINE left == r.size - size
           avail == r.avail - size
           read == r.read \o bytes
<1> HIDE DEF data
<1>17. t = [r EXCEPT !.data = data, !.size = left, !.avail = avail, !.read = read]
  BY <1>2, <1>6 DEF Receiver
<1>18. left \in 0 .. Length /\ avail \in 0 .. Length /\ read \in Bytes /\ data \in Buffers
  BY <1>9, <1>10, <1>12, <1>16
<1> HIDE DEF left, avail, read
<1>19. /\ t \in Receiver /\ t.size = left /\ t.avail = avail /\ t.read = read
       /\ t.next = r.next /\ t.count = r.count
  BY <1>2, <1>17, <1>18 DEF Receiver, Buffers
<1>20. Unread(t) = start
  BY <1>16, <1>19 DEF Unread, avail
<1>21. ASSUME NEW b \in Blocks(t)
       PROVE  start <= b /\ (b < r.next => BlockEnd(t, b) <= r.next)
  <2>1. PICK c \in Blocks(r) : c <= b /\ BlockEnd(t, b) = BlockEnd(r, c)
    BY <1>11 DEF ExtractedTo
  <2>2. c \in Nat /\ b \in Nat /\ start <= b
    BY <1>1, <1>11, <1>12, BlockNumbers DEF Blocks, ExtractedTo
  <2>3. b < r.next => c < r.next
    BY <1>1, <2>1, <2>2
  <2>4. QED
    BY <1>2, <2>1, <2>2, <2>3
<1>22. start .. r.next - 1 \subseteq Held(t)
  <2> SUFFICES ASSUME NEW x \in start .. r.next - 1 PROVE x \in Held(t)
    OBVIOUS
  <2>1. x \in U .. r.next - 1 /\ start <= x
    BY <1>1, <1>7
  <2>2. QED
    BY <1>2, <1>13, <2>1
<1>23. BufferInv(t, end)
  <2>1. t.avail < t.next /\ t.next <= end
    BY <1>1, <1>16, <1>19 DEF avail
  <2>2. t.read = [i \in 1 .. Unread(t) - 1 |-> i]
    BY <1>9, <1>19, <1>20 DEF read
  <2>3. t.size = Cardinality(Held(t))
    BY <1>14, <1>19 DEF left
  <2>4. QED
    BY <1>13, <1>19, <1>20, <1>21, <1>22, <2>1, <2>2, <2>3 DEF BufferInv
<1>24. t.size <= r.size
  BY <1>16, <1>19 DEF left
<1>25. QED
  BY <1>7, <1>11, <1>19, <1>20, <1>23, <1>24 DEF U

(* How far beyond the first unread byte the blocks lie.  Without limited   *)
(* transmit no block goes beyond the window.  With it a block begins       *)
(* within the window of the next byte, or of some byte that is held and    *)
(* itself in that window: the first block decides on what is accepted.     *)
Windowed(r, limited) ==
    \A b \in Blocks(r) :
        /\ limited \/ BlockEnd(r, b) <= Unread(r) + RcvBufSize
        /\ BlockEnd(r, b) < Unread(r) + 2 * RcvBufSize
        /\ \/ b < r.next + RcvBufSize
           \/ \E c \in Held(r) : c < r.next + RcvBufSize /\ b < c + RcvBufSize

(* The first block begins within the window.                               *)
LEMMA FirstInWindow ==
    ASSUME NEW end \in 1 .. Length + 1, NEW r, BufferInv(r, end), Blocks(r) # {},
           NEW limited, Windowed(r, limited)
    PROVE  /\ FirstBlock(r) \in Held(r) /\ FirstBlock(r) \in Nat
           /\ r.avail > 0 => FirstBlock(r) = Unread(r)
           /\ FirstBlock(r) < r.next + RcvBufSize
<1> DEFINE f == FirstBlock(r)
<1>1. f \in Blocks(r) /\ \A b \in Blocks(r) : f <= b
  BY FirstBlockIs
<1>2. /\ r.data \in Buffers /\ r.next \in Nat /\ RcvBufSize \in Nat
  BY BufferNumbers, WindowsFit
<1>3. \A b \in Blocks(r) : b \in Nat /\ b < BlockEnd(r, b)
  BY <1>2, BlockNumbers DEF Blocks
<1>4. f \in Nat /\ f \in Held(r)
  <2>1. f \in Nat /\ f <= f /\ f < BlockEnd(r, f)
    BY <1>1, <1>3
  <2> HIDE DEF f
  <2>2. QED
    BY <1>1, <1>2, <2>1, HeldIs
<1>5. f < r.next + RcvBufSize
  <2>1. CASE f < r.next + RcvBufSize
    BY <2>1
  <2>2. CASE \E c \in Held(r) : c < r.next + RcvBufSize /\ f < c + RcvBufSize
    <3>1. PICK c \in Held(r) : c < r.next + RcvBufSize
      BY <2>2
    <3>2. PICK b \in Blocks(r) : c \in Nat /\ b <= c
      BY <1>2, HeldIs
    <3>3. b \in Nat /\ f <= b
      BY <1>1, <1>3
    <3> HIDE DEF f
    <3>4. QED
      BY <1>2, <1>4, <3>1, <3>2, <3>3
  <2>3. QED
    BY <1>1, <2>1, <2>2 DEF Windowed
<1>6. QED
  BY <1>4, <1>5, FirstAvailable

LEMMA AddWindowed ==
    ASSUME NEW end \in 1 .. Length + 1, NEW r, BufferInv(r, end),
           NEW seg, Sound(seg, end), ~ OutOfRange(r, seg),
           NEW limited, Windowed(r, limited), limited \/ End(seg) <= r.next + RcvBufSize,
           NEW u, u = Add(r, seg)
    PROVE  Windowed(u, limited)
<1> DEFINE R == RcvBufSize
           U == Unread(r)
<1>1. /\ BufferInv(u, end) /\ AddedTo(r, seg, u, end)
      /\ r.next <= u.next /\ Unread(u) = U
  BY AddSound
<1>2. /\ r.next \in Nat /\ r.avail \in Nat /\ U \in Nat /\ r.next = U + r.avail
      /\ r.data \in Buffers /\ u.next \in Nat /\ u.data \in Buffers
  BY <1>1, BufferNumbers
<1>3. SegmentSize \in Nat \ {0} /\ R \in Nat /\ SegmentSize <= R
  BY WindowsFit
<1>4. CASE u = r
  BY <1>4
<1>5. CASE u # r
  <2>1. PICK part : /\ Fits(r, seg, part, end) /\ StoredAs(r, part, u)
                    /\ Held(u) = Held(r) \cup (part.head .. part.tail - 1)
    BY <1>1, <1>5 DEF AddedTo
  <2>2. /\ Blocks(u) = (Blocks(r) \ part.covered) \cup {part.head}
        /\ BlockEnd(u, part.head) = part.tail
        /\ \A b \in Blocks(u) : b # part.head => u.data[b] = r.data[b]
    BY <2>1 DEF StoredAs
  <2>3. /\ part.head \in Nat /\ part.tail \in Nat /\ part.head < part.tail
        /\ part.tail <= End(seg)
        /\ Blocks(r) = {} => part.head \in {seg.seq, r.next}
        /\ Blocks(r) # {} => part.tail <= MaxRxSequence(r)
    BY <2>1 DEF Fits, Part
  <2>4. /\ seg.seq \in Nat /\ End(seg) \in Nat /\ End(seg) <= seg.seq + SegmentSize
        /\ ~ (MaxRxSequence(r) <= seg.seq)
    <3>1. seg.seq \in 1 .. Length + 1 /\ Len(seg.data) \in Nat /\ Len(seg.data) <= SegmentSize
          /\ Length \in Nat
      BY WrittenType DEF Sound, Segment, SequenceNumber, Bytes
    <3> DEFINE m == MaxRxSequence(r)
               len == Len(seg.data)
    <3>2. ~ (m <= seg.seq)
      BY DEF OutOfRange
    <3> HIDE DEF m, len
    <3>3. seg.seq \in Nat
      BY <3>1
    <3>4. End(seg) = seg.seq + len
      BY DEF End, len
    <3>5. len \in Nat /\ len <= SegmentSize
      BY <3>1 DEF len
    <3>6. End(seg) \in Nat /\ End(seg) <= seg.seq + SegmentSize
      BY <1>3, <3>3, <3>4, <3>5
    <3>7. QED
      BY <3>2, <3>3, <3>6 DEF m
  <2>5. r.avail > 0 => Blocks(r) # {}
    BY FirstAvailable
  <2>6. CASE Blocks(r) = {}
    <3>1. r.avail = 0 /\ U = r.next
      BY <1>2, <2>5, <2>6
    <3>2. MaxRxSequence(r) = r.next + R
      BY <2>6 DEF MaxRxSequence
    <3>3. seg.seq < r.next + R
      BY <1>2, <1>3, <2>4, <3>2
    <3>4. part.head < r.next + R
      BY <1>2, <1>3, <2>3, <2>6, <3>3
    <3>5. Blocks(u) = {part.head}
      BY <2>2, <2>6
    <3>6. limited \/ part.tail <= U + R
      <4>1. CASE limited
        BY <4>1
      <4>2. CASE End(seg) <= r.next + R
        BY <1>2, <1>3, <2>3, <2>4, <3>1, <4>2
      <4>3. QED
        BY <4>1, <4>2
    <3>7. part.tail < U + 2 * R
      BY <1>2, <1>3, <2>3, <2>4, <3>1, <3>3
    <3>8. part.head < u.next + R
      BY <1>1, <1>2, <1>3, <2>3, <3>4
    <3>9. QED
      BY <1>1, <2>2, <3>5, <3>6, <3>7, <3>8 DEF Windowed
  <2>7. CASE Blocks(r) # {}
    <3> DEFINE f == FirstBlock(r)
    <3>1. f \in Held(r) /\ f \in Nat /\ (r.avail > 0 => f = U) /\ f < r.next + R
      BY <2>7, FirstInWindow
    <3>2. part.tail <= f + R
      BY <2>3, <2>7, FirstBlockIs
    <3> HIDE DEF f
    <3>3. part.tail < U + 2 * R
      BY <1>2, <1>3, <2>3, <3>1, <3>2
    <3>4. limited \/ part.tail <= U + R
      <4>1. CASE limited
        BY <4>1
      <4>2. CASE r.avail > 0
        BY <1>2, <1>3, <2>3, <3>1, <3>2, <4>2
      <4>3. CASE End(seg) <= r.next + R /\ ~ (r.avail > 0)
        BY <1>2, <1>3, <2>3, <2>4, <4>3
      <4>4. QED
        BY <4>1, <4>2, <4>3
    <3>5. f \in Held(u) /\ f < u.next + R /\ part.head < f + R
      BY <1>1, <1>2, <1>3, <2>1, <2>3, <3>1, <3>2
    <3>6. ASSUME NEW b \in Blocks(u)
          PROVE  /\ limited \/ BlockEnd(u, b) <= U + R
                 /\ BlockEnd(u, b) < U + 2 * R
                 /\ \/ b < u.next + R
                    \/ \E c \in Held(u) : c < u.next + R /\ b < c + R
      <4>1. CASE b = part.head
        BY <2>2, <3>3, <3>4, <3>5, <4>1
      <4>2. CASE b # part.head
        <5>1. b \in Blocks(r) /\ BlockEnd(u, b) = BlockEnd(r, b)
          BY <2>2, <4>2 DEF BlockEnd
        <5>2. /\ limited \/ BlockEnd(r, b) <= U + R
              /\ BlockEnd(r, b) < U + 2 * R
              /\ \/ b < r.next + R
                 \/ \E c \in Held(r) : c < r.next + R /\ b < c + R
          BY <5>1 DEF Windowed
        <5>3. b \in Nat
          BY <1>2, <5>1, BlockNumbers DEF Blocks
        <5>4. CASE b < r.next + R
          <6>1. b < u.next + R
            BY <1>1, <1>2, <1>3, <5>3, <5>4
          <6>2. QED
            BY <5>1, <5>2, <6>1
        <5>5. CASE \E c \in Held(r) : c < r.next + R /\ b < c + R
          <6>1. PICK c \in Held(r) : c < r.next + R /\ b < c + R
            BY <5>5
          <6>2. c \in Nat /\ c \in Held(u)
            BY <1>2, <2>1, HeldIs
          <6>3. c < u.next + R
            BY <1>1, <1>2, <1>3, <6>1, <6>2
          <6>4. QED
            BY <5>1, <5>2, <6>1, <6>2, <6>3
        <5>6. QED
          BY <5>2, <5>4, <5>5
      <4>3. QED
        BY <4>1, <4>2
    <3>7. QED
      BY <1>1, <3>6 DEF Windowed
  <2>8. QED
    BY <2>6, <2>7
<1>6. QED
  BY <1>4, <1>5

LEMMA ExtractWindowed ==
    ASSUME NEW end \in 1 .. Length + 1, NEW r, BufferInv(r, end), r.avail > 0,
           NEW maxSize \in Nat \ {0}, NEW t, t = Extract(r, maxSize),
           NEW limited, Windowed(r, limited)
    PROVE  Windowed(t, limited)
<1> DEFINE R == RcvBufSize
           U == Unread(r)
           start == Unread(t)
<1>1. /\ BufferInv(t, end) /\ t.next = r.next /\ U < start /\ ExtractedTo(r, start, t)
  BY ExtractSound
<1>2. /\ r.next \in Nat /\ U \in Nat /\ start \in Nat /\ start <= r.next
      /\ r.data \in Buffers /\ t.data \in Buffers /\ R \in Nat \ {0} /\ Placed(r, end)
  <2>1. /\ t.avail \in Nat /\ t.next \in Nat /\ start \in Nat /\ start = t.next - t.avail
        /\ t.data \in Buffers
    BY <1>1, BufferNumbers
  <2>2. r.next \in Nat /\ U \in Nat /\ r.data \in Buffers /\ Placed(r, end)
    BY BufferNumbers DEF BufferInv
  <2>3. R \in Nat \ {0}
    BY WindowsFit
  <2> HIDE DEF start, U
  <2>4. start <= r.next
    BY <1>1, <2>1, <2>2
  <2>5. QED
    BY <2>1, <2>2, <2>3, <2>4
<1> HIDE DEF start, U
<1>3. \A x : x \in Held(t) <=> x \in Held(r) /\ start <= x
  BY <1>1, <1>2, ExtractedHeld
<1>4. ASSUME NEW b \in Blocks(t)
      PROVE  /\ limited \/ BlockEnd(t, b) <= start + R
             /\ BlockEnd(t, b) < start + 2 * R
             /\ \/ b < t.next + R
                \/ \E c \in Held(t) : c < t.next + R /\ b < c + R
  <2>1. PICK d \in Blocks(r) : /\ BlockEnd(t, b) = BlockEnd(r, d)
                               /\ b = d \/ b = start
    BY <1>1 DEF ExtractedTo
  <2>2. /\ limited \/ BlockEnd(r, d) <= U + R
        /\ BlockEnd(r, d) < U + 2 * R
        /\ \/ d < r.next + R
           \/ \E c \in Held(r) : c < r.next + R /\ d < c + R
    BY DEF Windowed, U
  <2>3. BlockEnd(r, d) \in Nat /\ d \in Nat
    BY <1>2, BlockNumbers DEF Blocks
  <2>4. limited \/ BlockEnd(t, b) <= start + R
    <3>1. CASE limited
      BY <3>1
    <3>2. CASE BlockEnd(r, d) <= U + R
      BY <1>1, <1>2, <2>1, <2>3, <3>2
    <3>3. QED
      BY <2>2, <3>1, <3>2
  <2>5. BlockEnd(t, b) < start + 2 * R
    BY <1>1, <1>2, <2>1, <2>2, <2>3
  <2>6. CASE b = start
    <3>1. b < t.next + R
      BY <1>1, <1>2, <2>6
    <3>2. QED
      BY <2>4, <2>5, <3>1
  <2>7. CASE b = d /\ b < r.next + R
    BY <1>1, <2>4, <2>5, <2>7
  <2>8. CASE b = d /\ \E c \in Held(r) : c < r.next + R /\ d < c + R
    <3>1. PICK c \in Held(r) : c < r.next + R /\ b < c + R
      BY <2>8
    <3>2. c \in Nat
      BY <1>2, HeldIs
    <3>3. CASE start <= c
      BY <1>1, <1>3, <2>4, <2>5, <3>1, <3>3
    <3>4. CASE ~ (start <= c)
      <4>1. b < t.next + R
        BY <1>1, <1>2, <2>3, <2>8, <3>1, <3>2, <3>4
      <4>2. QED
        BY <2>4, <2>5, <4>1
    <3>5. QED
      BY <3>3, <3>4
  <2>9. QED
    BY <2>1, <2>2, <2>6, <2>7, <2>8
<1>5. QED
  BY <1>4 DEF Windowed, start

(* What is held lies in that range.                                        *)
LEMMA WindowedSize ==
    ASSUME NEW end \in 1 .. Length + 1, NEW r, BufferInv(r, end),
           NEW limited, Windowed(r, limited)
    PROVE  /\ ~ limited => r.size <= RcvBufSize
           /\ r.size < 2 * RcvBufSize
<1> DEFINE R == RcvBufSize
           U == Unread(r)
           held == Held(r)
<1>1. /\ U \in Nat /\ r.data \in Buffers /\ r.size = Cardinality(held) /\ R \in Nat \ {0}
      /\ Placed(r, end)
  BY BufferNumbers, WindowsFit DEF BufferInv
<1>2. ASSUME NEW n \in Nat, \A b \in Blocks(r) : BlockEnd(r, b) <= U + n
      PROVE  r.size <= n
  <2> DEFINE last == U + n - 1
  <2>1. U \in Int /\ last \in Int /\ (IF U > last THEN 0 ELSE last - U + 1) = n
    BY <1>1
  <2>2. held \subseteq U .. last
    <3> SUFFICES ASSUME NEW x \in held PROVE x \in U .. last
      OBVIOUS
    <3>1. PICK b \in Blocks(r) : x \in Nat /\ b <= x /\ x < BlockEnd(r, b)
      BY <1>1, HeldIs
    <3>2. b \in Nat /\ BlockEnd(r, b) \in Nat /\ U <= b
      BY <1>1, BlockNumbers DEF Blocks, BufferInv
    <3>3. BlockEnd(r, b) <= U + n
      BY <1>2
    <3> HIDE DEF U
    <3>4. QED
      BY <1>1, <3>1, <3>2, <3>3
  <2> HIDE DEF last, U, held
  <2>3. IsFiniteSet(U .. last) /\ Cardinality(U .. last) = n
    BY <2>1, FS_Interval
  <2>4. Cardinality(held) <= n
    BY <2>2, <2>3, FS_Subset
  <2>5. QED
    BY <1>1, <2>4
<1>3. ~ limited => r.size <= R
  BY <1>1, <1>2 DEF Windowed
<1>4. r.size < 2 * R
  <2>1. ASSUME NEW b \in Blocks(r) PROVE BlockEnd(r, b) <= U + (2 * R - 1)
    <3>1. BlockEnd(r, b) < U + 2 * R
      BY DEF Windowed
    <3>2. BlockEnd(r, b) \in Nat
      BY <1>1, BlockNumbers DEF Blocks
    <3> HIDE DEF U
    <3>3. QED
      BY <1>1, <3>1, <3>2
  <2>2. 2 * R - 1 \in Nat
    BY <1>1
  <2>3. r.size <= 2 * R - 1
    BY <1>2, <2>1, <2>2
  <2>4. r.size \in Int
    BY DEF BufferInv, Receiver
  <2>5. QED
    BY <1>1, <2>3, <2>4
<1>5. QED
  BY <1>3, <1>4

(* The delayed acknowledgment is no part of the buffer, and it may well    *)
(* hold less than has been sent.                                           *)
LEMMA SameBufferInv ==
    ASSUME NEW end, NEW r, BufferInv(r, end), NEW u \in Receiver,
           u.next = r.next, u.avail = r.avail, u.size = r.size, u.data = r.data, u.read = r.read
    PROVE  /\ BufferInv(u, end)
           /\ \A limited : Windowed(r, limited) => Windowed(u, limited)
<1>1. Unread(u) = Unread(r)
  BY DEF Unread
<1>2. /\ Blocks(u) = Blocks(r) /\ Held(u) = Held(r)
      /\ \A b : BlockEnd(u, b) = BlockEnd(r, b)
      /\ Placed(r, end) => Placed(u, end)
  BY SameData
<1>3. BufferInv(u, end)
  BY <1>1, <1>2 DEF BufferInv
<1>4. ASSUME NEW limited, Windowed(r, limited) PROVE Windowed(u, limited)
  BY <1>1, <1>2, <1>4 DEF Windowed
<1>5. QED
  BY <1>3, <1>4

LEMMA LaterEnd ==
    ASSUME NEW end \in 1 .. Length + 1, NEW r, BufferInv(r, end),
           NEW later \in 1 .. Length + 1, end <= later
    PROVE  BufferInv(r, later)
<1>1. r.next \in Nat /\ r.next <= end /\ end \in Nat /\ Length \in Nat /\ r.data \in Buffers
  BY BufferNumbers
<1>2. later \in Nat /\ r.next <= later
  BY <1>1
<1>3. Placed(r, later)
  <2> SUFFICES ASSUME NEW b \in Blocks(r) PROVE BlockEnd(r, b) <= later
    BY DEF BufferInv, Placed
  <2>1. BlockEnd(r, b) \in Nat /\ BlockEnd(r, b) <= end
    BY <1>1, BlockNumbers DEF BufferInv, Placed, Blocks
  <2>2. QED
    BY <1>1, <1>2, <2>1
<1>4. QED
  BY <1>2, <1>3 DEF BufferInv

-----------------------------------------------------------------------------
(* The connection.                                                         *)

(* What is under way has been sent, within the window of the receiver, who *)
(* has acknowledged no more than there is without a gap.                   *)
NetworkInv ==
    /\ \A seg \in segments :
           /\ Sound(seg, snd.high)
           /\ snd.options.limitedTx \/ End(seg) <= rcv.next + RcvBufSize
    /\ acks \subseteq 1 .. rcv.next
    /\ snd.head <= rcv.next

Inv ==
    /\ SenderInv(snd)
    /\ BufferInv(rcv, snd.high)
    /\ Windowed(rcv, snd.options.limitedTx)
    /\ NetworkInv

LEMMA InitInv == Init => Inv
<1> SUFFICES ASSUME Init PROVE Inv
  OBVIOUS
<1>1. Length \in Nat /\ Len(Writes) \in Nat /\ Written(0) = 0
  <2>1. Length \in Nat /\ Len(Writes) \in Nat /\ Writes \in Seq(Nat)
    BY WrittenType, TcpAssumption
  <2>2. PICK w \in [0 .. Len(Writes) -> Nat] :
          /\ w[0] = 0
          /\ \A n \in 0 .. Len(Writes) : Written(n) = w[n]
    BY WrittenTrace
  <2>3. QED
    BY <2>1, <2>2
<1>2. /\ snd.writes = 0 /\ snd.head = 1 /\ snd.data = << >> /\ snd.next = 1 /\ snd.high = 1
      /\ snd.cong = "OPEN" /\ snd.dup = 0 /\ snd.first = TRUE
  BY DEF Init
<1>3. snd \in Sender
  <2>1. /\ 0 \in 0 .. Len(Writes) /\ 1 \in 1 .. Length + 1 /\ 0 \in 0 .. Length + 1
        /\ << >> \in Seq(1 .. Length)
        /\ 0 \in 0 .. ReTxThreshold + 1 /\ DataRetries \in 0 .. DataRetries
    BY <1>1, TcpAssumption
  <2>2. QED
    BY <2>1 DEF Init, Sender, SequenceNumber, Bytes
<1>4. EndOf(snd) = 1
  BY <1>2 DEF EndOf
<1>5. SenderInv(snd)
  <2>1. Consecutive(snd.head, snd.data)
    BY <1>2 DEF Consecutive
  <2>2. QED
    BY <1>1, <1>2, <1>3, <1>4, <2>1 DEF SenderInv, SendBufferInv
<1>6. /\ rcv = [next |-> 1, size |-> 0, avail |-> 0,
                data |-> [b \in 1 .. Length |-> << >>], read |-> << >>,
                count |-> DelAckMaxCount, timer |-> FALSE]
  BY DEF Init
<1>7. /\ rcv.next = 1 /\ rcv.size = 0 /\ rcv.avail = 0 /\ rcv.read = << >>
      /\ \A b \in 1 .. Length : rcv.data[b] = << >>
  BY <1>6
<1>8. rcv \in Receiver
  <2>1. /\ 1 \in 1 .. Length + 1 /\ 0 \in 0 .. Length
        /\ DelAckMaxCount \in 0 .. DelAckMaxCount
    BY <1>1, TcpAssumption
  <2>2. << >> \in Bytes
    <3>1. << >> \in Seq(1 .. Length)
      OBVIOUS
    <3>2. QED
      BY <3>1 DEF Bytes
  <2>3. QED
    BY <1>6, <2>1, <2>2 DEF Receiver, SequenceNumber
<1>9. Blocks(rcv) = {}
  BY <1>7 DEF Blocks
<1>10. Held(rcv) = {}
  BY <1>9 DEF Held
<1>11. BufferInv(rcv, snd.high) /\ Windowed(rcv, snd.options.limitedTx)
  <2>1. Placed(rcv, snd.high) /\ Windowed(rcv, snd.options.limitedTx)
    BY <1>9 DEF Placed, Windowed
  <2>2. Unread(rcv) = 1
    BY <1>7 DEF Unread
  <2>3. rcv.read = [i \in 1 .. Unread(rcv) - 1 |-> i]
    BY <1>7, <2>2
  <2>4. Unread(rcv) .. rcv.next - 1 \subseteq Held(rcv)
    BY <1>7, <2>2
  <2>5. rcv.size = Cardinality(Held(rcv))
    BY <1>7, <1>10, FS_EmptySet
  <2>6. rcv.avail < rcv.next /\ rcv.next <= snd.high
    BY <1>2, <1>7
  <2>7. QED
    BY <1>8, <1>9, <2>1, <2>3, <2>4, <2>5, <2>6 DEF BufferInv
<1>12. NetworkInv
  BY <1>2, <1>7 DEF NetworkInv, Init
<1>13. QED
  BY <1>5, <1>11, <1>12 DEF Inv

LEMMA EndsInRange ==
    ASSUME NEW s, SenderInv(s)
    PROVE  /\ s.high \in 1 .. Length + 1 /\ s.high \in Nat /\ s.high <= EndOf(s)
           /\ EndOf(s) \in Nat /\ s.head \in Nat /\ s.head <= EndOf(s)
<1>1. SendBufferInv(s) /\ s.high \in 1 .. Length + 1 /\ s.high <= EndOf(s)
  BY DEF SenderInv, SendBufferInv, Sender, SequenceNumber
<1>2. EndOf(s) \in 1 .. Length + 1 /\ s.head \in 1 .. EndOf(s) /\ Length \in Nat
  BY <1>1, EndOfType, WrittenType
<1>3. QED
  BY <1>1, <1>2

(* A step of the sender.                                                   *)
LEMMA SenderInvStep ==
    ASSUME Inv, SenderStep, snd'.head <= rcv.next, rcv' = rcv, acks' \subseteq acks
    PROVE  Inv'
<1>1. /\ SenderInv(snd) /\ BufferInv(rcv, snd.high) /\ NetworkInv
      /\ Windowed(rcv, snd.options.limitedTx)
  BY DEF Inv
<1>2. /\ SenderInv(snd') /\ snd.high <= snd'.high /\ snd'.options = snd.options
      /\ \A seg \in segments' : seg \in segments \/ Sent(seg, snd')
  BY DEF SenderStep
<1>3. /\ snd.high \in 1 .. Length + 1 /\ snd'.high \in 1 .. Length + 1 /\ snd'.head \in Nat
      /\ snd.high \in Nat /\ snd'.high \in Nat
  BY <1>1, <1>2, EndsInRange
<1>4. BufferInv(rcv, snd'.high) /\ rcv.next \in Nat /\ RcvBufSize \in Nat
  BY <1>1, <1>2, <1>3, LaterEnd, BufferNumbers, WindowsFit
<1>5. ASSUME NEW seg \in segments'
      PROVE  /\ Sound(seg, snd'.high)
             /\ snd'.options.limitedTx \/ End(seg) <= rcv.next + RcvBufSize
  <2>1. CASE seg \in segments
    <3>1. /\ Sound(seg, snd.high)
          /\ snd.options.limitedTx \/ End(seg) <= rcv.next + RcvBufSize
      BY <1>1, <2>1 DEF NetworkInv
    <3>2. End(seg) \in Nat
      <4>1. seg.seq \in 1 .. Length + 1 /\ Len(seg.data) \in Nat /\ Length \in Nat
        BY <3>1, WrittenType DEF Sound, Segment, SequenceNumber, Bytes
      <4>2. QED
        BY <4>1 DEF End
    <3>3. End(seg) <= snd'.high
      BY <1>2, <1>3, <3>1, <3>2 DEF Sound
    <3>4. QED
      BY <1>2, <3>1, <3>3 DEF Sound
  <2>2. CASE Sent(seg, snd')
    <3>1. /\ Sound(seg, snd'.high)
          /\ snd'.options.limitedTx \/ End(seg) <= snd'.head + RcvBufSize
      BY <2>2 DEF Sent, WellSent, Sound
    <3>2. End(seg) \in Nat
      <4>1. seg.seq \in 1 .. Length + 1 /\ Len(seg.data) \in Nat /\ Length \in Nat
        BY <3>1, WrittenType DEF Sound, Segment, SequenceNumber, Bytes
      <4>2. QED
        BY <4>1 DEF End
    <3>3. End(seg) <= snd'.head + RcvBufSize => End(seg) <= rcv.next + RcvBufSize
      BY <1>3, <1>4, <3>2
    <3>4. QED
      BY <3>1, <3>3
  <2>3. QED
    BY <1>2, <2>1, <2>2
<1>6. acks' \subseteq 1 .. rcv.next
  BY <1>1 DEF NetworkInv
<1>7. NetworkInv'
  BY <1>5, <1>6 DEF NetworkInv
<1>8. BufferInv(rcv, snd.high)' /\ Windowed(rcv, snd.options.limitedTx)'
  BY <1>1, <1>2, <1>4
<1>9. SenderInv(snd)'
  BY <1>2
<1>10. QED
  BY <1>7, <1>8, <1>9 DEF Inv

(* A step of the receiver.                                                 *)
LEMMA ReceiverInvStep ==
    ASSUME Inv, BufferInv(rcv', snd.high), Windowed(rcv', snd.options.limitedTx),
           rcv.next <= rcv'.next, snd' = snd, segments' \subseteq segments,
           acks' \subseteq acks \cup {rcv'.next}
    PROVE  Inv'
<1>1. SenderInv(snd) /\ BufferInv(rcv, snd.high) /\ NetworkInv
  BY DEF Inv
<1>2. snd.high \in 1 .. Length + 1 /\ snd.head \in Nat
  BY <1>1, EndsInRange
<1>3. /\ rcv.next \in Nat /\ rcv'.next \in Nat /\ rcv'.next >= 1 /\ RcvBufSize \in Nat
  BY <1>1, <1>2, BufferNumbers, WindowsFit
<1>4. ASSUME NEW seg \in segments'
      PROVE  /\ Sound(seg, snd.high)
             /\ snd.options.limitedTx \/ End(seg) <= rcv'.next + RcvBufSize
  <2>1. /\ Sound(seg, snd.high)
        /\ snd.options.limitedTx \/ End(seg) <= rcv.next + RcvBufSize
    BY <1>1 DEF NetworkInv
  <2>2. End(seg) \in Nat
    <3>1. seg.seq \in 1 .. Length + 1 /\ Len(seg.data) \in Nat /\ Length \in Nat
      BY <2>1, WrittenType DEF Sound, Segment, SequenceNumber, Bytes
    <3>2. QED
      BY <3>1 DEF End
  <2>3. End(seg) <= rcv.next + RcvBufSize => End(seg) <= rcv'.next + RcvBufSize
    BY <1>3, <2>2
  <2>4. QED
    BY <2>1, <2>3
<1>5. acks' \subseteq 1 .. rcv'.next
  <2>1. acks \subseteq 1 .. rcv.next
    BY <1>1 DEF NetworkInv
  <2>2. 1 .. rcv.next \subseteq 1 .. rcv'.next /\ rcv'.next \in 1 .. rcv'.next
    BY <1>3
  <2>3. QED
    BY <2>1, <2>2
<1>6. snd.head <= rcv'.next
  <2>1. snd.head <= rcv.next
    BY <1>1 DEF NetworkInv
  <2>2. QED
    BY <1>2, <1>3, <2>1
<1>7. NetworkInv'
  BY <1>4, <1>5, <1>6 DEF NetworkInv
<1>8. SenderInv(snd)' /\ BufferInv(rcv, snd.high)' /\ Windowed(rcv, snd.options.limitedTx)'
  BY <1>1
<1>9. QED
  BY <1>7, <1>8 DEF Inv

LEMMA ReceivedAckInv ==
    ASSUME Inv, NEW n \in acks, ReceivedAck(n)
    PROVE  Inv'
<1>1. SenderInv(snd) /\ BufferInv(rcv, snd.high) /\ NetworkInv
  BY DEF Inv
<1>2. /\ snd.high \in 1 .. Length + 1 /\ snd.high \in Nat /\ snd.high <= EndOf(snd)
      /\ EndOf(snd) \in Nat /\ snd.head \in Nat
  BY <1>1, EndsInRange
<1>3. rcv.next \in Nat /\ rcv.next <= snd.high
  BY <1>1, <1>2, BufferNumbers
<1>4. n \in Nat /\ n <= rcv.next /\ snd.head <= rcv.next
  <2>1. n \in 1 .. rcv.next /\ snd.head <= rcv.next
    BY <1>1 DEF NetworkInv
  <2>2. QED
    BY <1>3, <2>1
<1>5. rcv' = rcv /\ acks' \subseteq acks
  BY DEF ReceivedAck
<1>6. CASE HandleDupAck
  <2>1. SenderStep /\ snd'.head = snd.head
    BY <1>1, <1>6, HandleDupAckStep
  <2>2. QED
    BY <1>4, <1>5, <2>1, SenderInvStep
<1>7. CASE n > snd.head /\ HandleNewAck(n)
  <2>1. n \in snd.head .. EndOf(snd)
    BY <1>2, <1>3, <1>4, <1>7
  <2>2. SenderStep /\ snd'.head = n
    BY <1>1, <1>7, <2>1, HandleNewAckStep
  <2>3. QED
    BY <1>4, <1>5, <2>2, SenderInvStep
<1>8. CASE UNCHANGED <<snd, segments>>
  <2>1. SenderStep /\ snd'.head = snd.head
    BY <1>1, <1>2, <1>8 DEF SenderStep
  <2>2. QED
    BY <1>4, <1>5, <2>1, SenderInvStep
<1>9. QED
  BY <1>6, <1>7, <1>8 DEF ReceivedAck

LEMMA AckedSame ==
    ASSUME NEW r \in Receiver
    PROVE  /\ Acked(r) \in Receiver
           /\ Acked(r).next = r.next /\ Acked(r).avail = r.avail /\ Acked(r).size = r.size
           /\ Acked(r).data = r.data /\ Acked(r).read = r.read
<1>1. 0 \in 0 .. DelAckMaxCount
  BY TcpAssumption
<1>2. QED
  BY <1>1 DEF Acked, Receiver

LEMMA ReceivedDataInv ==
    ASSUME Inv, NEW seg \in segments, ReceivedData(seg)
    PROVE  Inv'
<1> DEFINE end == snd.high
           added == Add(rcv, seg)
           limited == snd.options.limitedTx
<1>1. /\ SenderInv(snd) /\ BufferInv(rcv, end) /\ NetworkInv /\ Windowed(rcv, limited)
  BY DEF Inv
<1>2. end \in 1 .. Length + 1
  BY <1>1, EndsInRange
<1>3. /\ Sound(seg, end) /\ (limited \/ End(seg) <= rcv.next + RcvBufSize)
  BY <1>1 DEF NetworkInv
<1>4. snd' = snd /\ segments' \subseteq segments /\ ReceivedDataInto(seg, added)
  BY DEF ReceivedData
<1> HIDE DEF end, added, limited
<1>5. BufferInv(added, end) /\ rcv.next <= added.next /\ added.count = rcv.count
  BY <1>1, <1>2, <1>3, AddSound DEF added
<1>6. /\ rcv \in Receiver /\ added \in Receiver /\ rcv.next \in Nat /\ rcv.next <= rcv.next
  BY <1>1, <1>2, <1>5, BufferNumbers DEF BufferInv
<1>7. ASSUME rcv' = Acked(rcv), Acknowledge(rcv.next) PROVE Inv'
  <2>1. /\ rcv' \in Receiver
        /\ rcv'.next = rcv.next /\ rcv'.avail = rcv.avail /\ rcv'.size = rcv.size
        /\ rcv'.data = rcv.data /\ rcv'.read = rcv.read
    BY <1>6, <1>7, AckedSame
  <2>2. BufferInv(rcv', end) /\ Windowed(rcv', limited)
    BY <1>1, <2>1, SameBufferInv
  <2>3. acks' \subseteq acks \cup {rcv'.next}
    BY <1>7, <2>1 DEF Acknowledge
  <2>4. QED
    BY <1>4, <1>6, <2>1, <2>2, <2>3, ReceiverInvStep DEF end, limited
<1>8. ASSUME ~ OutOfRange(rcv, seg), rcv' = Acked(added), Acknowledge(added.next) PROVE Inv'
  <2>1. /\ rcv' \in Receiver
        /\ rcv'.next = added.next /\ rcv'.avail = added.avail /\ rcv'.size = added.size
        /\ rcv'.data = added.data /\ rcv'.read = added.read
    BY <1>6, <1>8, AckedSame
  <2>2. Windowed(added, limited)
    BY <1>1, <1>2, <1>3, <1>8, AddWindowed DEF added
  <2>3. BufferInv(rcv', end) /\ Windowed(rcv', limited)
    BY <1>5, <2>1, <2>2, SameBufferInv
  <2>4. acks' \subseteq acks \cup {rcv'.next}
    BY <1>8, <2>1 DEF Acknowledge
  <2>5. QED
    BY <1>4, <1>5, <2>1, <2>3, <2>4, ReceiverInvStep DEF end, limited
<1>9. ASSUME ~ OutOfRange(rcv, seg), rcv.count + 1 < DelAckMaxCount,
             rcv' = [added EXCEPT !.count = @ + 1, !.timer = TRUE], UNCHANGED acks
      PROVE  Inv'
  <2>1. added.count + 1 \in 0 .. DelAckMaxCount
    <3>1. added.count \in 0 .. DelAckMaxCount /\ DelAckMaxCount \in Nat
      BY <1>6, TcpAssumption DEF Receiver
    <3>2. QED
      BY <1>5, <1>9, <3>1
  <2>2. /\ rcv' \in Receiver
        /\ rcv'.next = added.next /\ rcv'.avail = added.avail /\ rcv'.size = added.size
        /\ rcv'.data = added.data /\ rcv'.read = added.read
    BY <1>6, <1>9, <2>1 DEF Receiver
  <2>3. Windowed(added, limited)
    BY <1>1, <1>2, <1>3, <1>9, AddWindowed DEF added
  <2>4. BufferInv(rcv', end) /\ Windowed(rcv', limited)
    BY <1>5, <2>2, <2>3, SameBufferInv
  <2>5. acks' \subseteq acks \cup {rcv'.next}
    BY <1>9
  <2>6. QED
    BY <1>4, <1>5, <2>2, <2>4, <2>5, ReceiverInvStep DEF end, limited
<1>10. QED
  BY <1>4, <1>7, <1>8, <1>9 DEF ReceivedDataInto

LEMMA DelAckTimeoutInv ==
    ASSUME Inv, DelAckTimeout
    PROVE  Inv'
<1>1. /\ SenderInv(snd) /\ BufferInv(rcv, snd.high) /\ Windowed(rcv, snd.options.limitedTx)
      /\ rcv \in Receiver
  BY DEF Inv, BufferInv
<1>2. rcv.next \in Nat /\ rcv.next <= rcv.next
  BY <1>1, EndsInRange, BufferNumbers
<1>3. rcv' = Acked(rcv) /\ Acknowledge(rcv.next) /\ snd' = snd /\ segments' = segments
  BY DEF DelAckTimeout
<1>4. /\ rcv' \in Receiver
      /\ rcv'.next = rcv.next /\ rcv'.avail = rcv.avail /\ rcv'.size = rcv.size
      /\ rcv'.data = rcv.data /\ rcv'.read = rcv.read
  BY <1>1, <1>3, AckedSame
<1>5. BufferInv(rcv', snd.high) /\ Windowed(rcv', snd.options.limitedTx)
  BY <1>1, <1>4, SameBufferInv
<1>6. acks' \subseteq acks \cup {rcv'.next}
  BY <1>3, <1>4 DEF Acknowledge
<1>7. QED
  BY <1>2, <1>3, <1>4, <1>5, <1>6, ReceiverInvStep

LEMMA RecvInv ==
    ASSUME Inv, NEW maxSize \in ReadSizes, Recv(maxSize)
    PROVE  Inv'
<1>1. SenderInv(snd) /\ BufferInv(rcv, snd.high) /\ Windowed(rcv, snd.options.limitedTx)
  BY DEF Inv
<1>2. snd.high \in 1 .. Length + 1 /\ maxSize \in Nat \ {0}
  BY <1>1, EndsInRange, TcpAssumption
<1>3. /\ rcv.avail > 0 /\ rcv' = Extract(rcv, maxSize)
      /\ snd' = snd /\ segments' = segments /\ acks' = acks
  BY DEF Recv
<1>4. BufferInv(rcv', snd.high) /\ rcv'.next = rcv.next
  BY <1>1, <1>2, <1>3, ExtractSound
<1>5. Windowed(rcv', snd.options.limitedTx)
  BY <1>1, <1>2, <1>3, ExtractWindowed
<1>6. rcv.next <= rcv'.next
  <2>1. rcv.next \in Nat
    BY <1>1, <1>2, BufferNumbers
  <2>2. QED
    BY <1>4, <2>1
<1>7. QED
  BY <1>3, <1>4, <1>5, <1>6, ReceiverInvStep

LEMMA NextInv ==
    ASSUME Inv, [Next]_vars
    PROVE  Inv'
<1>1. SenderInv(snd) /\ NetworkInv
  BY DEF Inv
<1>2. snd.head <= rcv.next
  BY <1>1 DEF NetworkInv
<1>3. CASE Send
  <2>1. SenderStep /\ snd'.head = snd.head
    BY <1>1, <1>3, SendStep
  <2>2. rcv' = rcv /\ acks' \subseteq acks
    BY <1>3 DEF Send
  <2>3. QED
    BY <1>2, <2>1, <2>2, SenderInvStep
<1>4. CASE SendPendingData
  <2>1. SenderStep /\ snd'.head = snd.head
    BY <1>1, <1>4, SendPendingDataStep
  <2>2. rcv' = rcv /\ acks' \subseteq acks
    BY <1>4 DEF SendPendingData
  <2>3. QED
    BY <1>2, <2>1, <2>2, SenderInvStep
<1>5. CASE ReTxTimeout
  <2>1. SenderStep /\ snd'.head = snd.head
    BY <1>1, <1>5, ReTxTimeoutStep
  <2>2. rcv' = rcv /\ acks' \subseteq acks
    BY <1>5 DEF ReTxTimeout
  <2>3. QED
    BY <1>2, <2>1, <2>2, SenderInvStep
<1>6. CASE DelAckTimeout
  BY <1>6, DelAckTimeoutInv
<1>7. ASSUME NEW n \in acks, ReceivedAck(n) PROVE Inv'
  BY <1>7, ReceivedAckInv
<1>8. ASSUME NEW seg \in segments, ReceivedData(seg) PROVE Inv'
  BY <1>8, ReceivedDataInv
<1>9. ASSUME NEW maxSize \in ReadSizes, Recv(maxSize) PROVE Inv'
  BY <1>9, RecvInv
<1>10. CASE UNCHANGED vars
  BY <1>10 DEF vars, Inv, NetworkInv
<1>11. QED
  BY <1>3, <1>4, <1>5, <1>6, <1>7, <1>8, <1>9, <1>10 DEF Next

THEOREM InvCorrect == Spec => []Inv
<1>1. Init => Inv
  BY InitInv
<1>2. Inv /\ [Next]_vars => Inv'
  BY NextInv
<1>3. QED
  BY <1>1, <1>2, PTL DEF Spec

(* The variables keep their types, and the assertions of ReceivedAck hold: *)
(* a socket in OPEN has counted no duplicates, and a partial               *)
(* acknowledgment belongs to a recovery.                                   *)
THEOREM TypeCorrect == Spec => []TypeOK
<1>1. Inv => TypeOK
  <2> SUFFICES ASSUME Inv PROVE TypeOK
    OBVIOUS
  <2>1. SenderInv(snd) /\ BufferInv(rcv, snd.high) /\ NetworkInv
    BY DEF Inv
  <2>2. segments \subseteq Segment
    BY <2>1 DEF NetworkInv, Sound
  <2>3. acks \subseteq SequenceNumber
    <3>1. rcv.next \in 1 .. Length + 1 /\ Length \in Nat /\ acks \subseteq 1 .. rcv.next
      BY <2>1, WrittenType DEF NetworkInv, BufferInv, Receiver, SequenceNumber
    <3>2. 1 .. rcv.next \subseteq 1 .. Length + 1
      BY <3>1
    <3>3. QED
      BY <3>1, <3>2 DEF SequenceNumber
  <2>4. QED
    BY <2>1, <2>2, <2>3 DEF TypeOK, SenderInv, SendBufferInv, BufferInv
<1>2. QED
  BY <1>1, InvCorrect, PTL

(* The application reads the bytes that were written, in order, none twice *)
(* and none left out, however segments and acknowledgments are lost,       *)
(* reordered, cut and retransmitted; and what is acknowledged has been     *)
(* read or is held, by buffers whose counters are right.                   *)
THEOREM StreamCorrect == Spec => []StreamInOrder
<1>1. Inv => StreamInOrder
  <2> SUFFICES ASSUME Inv PROVE StreamInOrder
    OBVIOUS
  <2>1. SenderInv(snd) /\ BufferInv(rcv, snd.high) /\ NetworkInv
    BY DEF Inv
  <2>2. /\ rcv.next \in Nat /\ rcv.avail \in Nat
        /\ Unread(rcv) \in Nat /\ 1 <= Unread(rcv) /\ Unread(rcv) = rcv.next - rcv.avail
    BY <2>1, EndsInRange, BufferNumbers
  <2>3. rcv.read = [i \in 1 .. Unread(rcv) - 1 |-> i]
    BY <2>1 DEF BufferInv
  <2> DEFINE n == Unread(rcv) - 1
  <2>4. n \in Nat /\ rcv.next - 1 - rcv.avail = n /\ n + 1 = Unread(rcv)
    BY <2>2
  <2> HIDE DEF n
  <2>5. rcv.read = [i \in 1 .. n |-> i]
    BY <2>3 DEF n
  <2>6. Len(rcv.read) = n
    BY <2>4, <2>5
  <2>7. \A b \in Blocks(rcv) : \A i \in DOMAIN rcv.data[b] : rcv.data[b][i] = b + i - 1
    BY <2>1 DEF BufferInv, Placed, Consecutive
  <2>8. Len(rcv.read) + 1 .. rcv.next - 1 \subseteq Held(rcv)
    BY <2>1, <2>4, <2>6 DEF BufferInv
  <2>9. rcv.size = Cardinality(Held(rcv)) /\ snd.head <= rcv.next
    BY <2>1 DEF BufferInv, NetworkInv
  <2>10. QED
    BY <2>4, <2>5, <2>7, <2>8, <2>9 DEF StreamInOrder
<1>2. QED
  BY <1>1, InvCorrect, PTL

(* The receive buffer never holds more than its size if the sender keeps   *)
(* to the window, and less than twice its size if limited transmit does    *)
(* not.                                                                    *)
THEOREM HeldCorrect == Spec => []HeldWithinBuffer
<1>1. Inv => HeldWithinBuffer
  <2> SUFFICES ASSUME Inv PROVE HeldWithinBuffer
    OBVIOUS
  <2>1. /\ SenderInv(snd) /\ BufferInv(rcv, snd.high)
        /\ Windowed(rcv, snd.options.limitedTx)
    BY DEF Inv
  <2>2. QED
    BY <2>1, EndsInRange, WindowedSize DEF HeldWithinBuffer
<1>2. QED
  BY <1>1, InvCorrect, PTL

-----------------------------------------------------------------------------
(* The sockets implement the stream of bytes of ByteStream.                *)

(* A connection in OPEN or DISORDER has all its retransmissions left, and  *)
(* one in RECOVERY has made one: so a partial acknowledgment, which makes  *)
(* another, does not drop the connection whose bytes it discards.  One     *)
(* that has been given up retransmits nothing more.                        *)
RetryInv(s) ==
    /\ ~ s.dropped => /\ s.cong \in {"OPEN", "DISORDER"} => s.retries = DataRetries
                      /\ s.cong = "RECOVERY" => s.retries >= DataRetries - 1
    /\ s.dropped => ~ s.retx

(* What the stream sees of the sending socket s is the same of t, but more *)
(* may have been sent, or the connection given up.                         *)
SameStream(s, t) ==
    /\ t.writes = s.writes /\ t.head = s.head /\ t.data = s.data
    /\ s.dropped => t.dropped
    /\ t.dropped => t.high = s.high

LEMMA RetriesNumbers ==
    ASSUME NEW s \in Sender
    PROVE  /\ s.retries \in Nat /\ s.retries <= DataRetries /\ s.dropped \in BOOLEAN
           /\ DataRetries \in Nat /\ DataRetries >= 2
  BY TcpAssumption DEF Sender

LEMMA SendDataPacketsKeeps ==
    ASSUME NEW s \in Sender, ~ s.dropped, NEW sent, NEW t, t = SendDataPackets(s, sent)
    PROVE  SameStream(s, t) /\ t.cong = s.cong /\ t.retries = s.retries /\ t.dropped = s.dropped
<1> DEFINE top == Max({s.next} \cup {End(seg) : seg \in sent})
           high == Max({s.high} \cup {End(seg) : seg \in sent})
           retx == s.retx \/ sent # {}
<1>1. t = [s EXCEPT !.next = top, !.high = high, !.retx = retx]
  BY DEF SendDataPackets
<1> HIDE DEF top, high, retx
<1>2. QED
  BY <1>1 DEF Sender, SameStream

LEMMA DoRetransmitKeeps ==
    ASSUME NEW s \in Sender, ~ s.dropped, NEW t, t = DoRetransmit(s)
    PROVE  /\ SameStream(s, t) /\ t.cong = s.cong
           /\ s.retries # 0 => t.dropped = s.dropped /\ t.retries = s.retries - 1
           /\ s.retries = 0 => t.dropped /\ ~ t.retx
<1>1. CASE s.retries = 0
  <2>1. t = [s EXCEPT !.dropped = TRUE, !.retx = FALSE, !.pending = FALSE]
    BY <1>1 DEF DoRetransmit
  <2>2. QED
    BY <1>1, <2>1 DEF Sender, SameStream
<1>2. CASE s.retries # 0
  <2> DEFINE u == [s EXCEPT !.retries = @ - 1]
             sent == {CopyFromSequence(s, s.head, SegmentSize)}
  <2>1. t = SendDataPackets(u, sent)
    BY <1>2 DEF DoRetransmit
  <2>2. s.retries - 1 \in 0 .. DataRetries
    BY <1>2, RetriesNumbers
  <2>3. /\ u \in Sender /\ u.writes = s.writes /\ u.head = s.head /\ u.data = s.data
        /\ u.cong = s.cong /\ u.retries = s.retries - 1 /\ u.dropped = s.dropped
    BY <2>2 DEF Sender
  <2> HIDE DEF u, sent
  <2>4. SameStream(u, t) /\ t.cong = u.cong /\ t.retries = u.retries /\ t.dropped = u.dropped
    BY <2>1, <2>3, SendDataPacketsKeeps
  <2>5. QED
    BY <1>2, <2>3, <2>4 DEF SameStream
<1>3. QED
  BY <1>1, <1>2

(* Sending from a socket that still has the buffer of snd.                 *)
LEMMA SendSegmentsKeeps ==
    ASSUME NEW s \in Sender, SameStream(snd, s), ~ s.dropped, RetryInv(s),
           NEW sent, SendSegments(s, sent)
    PROVE  SameStream(snd, snd') /\ RetryInv(snd')
<1>1. SameStream(s, snd') /\ snd'.cong = s.cong /\ snd'.retries = s.retries
      /\ snd'.dropped = s.dropped
  <2>1. snd' = SendDataPackets(s, sent)
    BY DEF SendSegments
  <2>2. QED
    BY <2>1, SendDataPacketsKeeps
<1>2. QED
  BY <1>1 DEF SameStream, RetryInv

LEMMA SendPendingDataKeeps ==
    ASSUME snd \in Sender, RetryInv(snd), SendPendingData
    PROVE  SameStream(snd, snd') /\ RetryInv(snd')
<1> DEFINE s == [snd EXCEPT !.pending = FALSE]
<1>1. s \in Sender /\ SameStream(snd, s) /\ s.dropped = snd.dropped /\ RetryInv(s)
  BY DEF Sender, SameStream, RetryInv
<1>2. CASE snd' = s
  BY <1>1, <1>2
<1>3. ASSUME ~ snd.dropped,
             NEW window \in Windows, SendSegments(s, PendingData(snd, window))
      PROVE  SameStream(snd, snd') /\ RetryInv(snd')
  <2> DEFINE sent == PendingData(snd, window)
  <2>1. SendSegments(s, sent)
    BY <1>3
  <2> HIDE DEF s, sent
  <2>2. QED
    BY <1>1, <1>3, <2>1, SendSegmentsKeeps
<1>4. QED
  BY <1>2, <1>3 DEF SendPendingData

LEMMA ReTxTimeoutKeeps ==
    ASSUME snd \in Sender, RetryInv(snd), ReTxTimeout
    PROVE  SameStream(snd, snd') /\ RetryInv(snd')
<1> DEFINE expired == [snd EXCEPT !.retx = FALSE]
           s == [expired EXCEPT !.recover = expired.high, !.cong = "LOSS",
                                !.next = expired.head, !.dup = 0]
<1> ~ snd.dropped
  BY DEF ReTxTimeout, RetryInv
<1>1. CASE snd' = expired
  BY <1>1 DEF Sender, SameStream, RetryInv
<1>2. CASE snd' = DoRetransmit(s)
  <2>1. snd.high \in 0 .. Length + 1 /\ 0 \in 0 .. ReTxThreshold + 1
    <3>1. /\ Length \in Nat /\ ReTxThreshold \in Nat /\ snd.high \in 1 .. Length + 1
      BY WrittenType, TcpAssumption DEF Sender, SequenceNumber
    <3>2. QED
      BY <3>1
  <2>2. s = [snd EXCEPT !.retx = FALSE, !.recover = snd.high, !.cong = "LOSS",
                        !.next = snd.head, !.dup = 0]
    BY DEF Sender
  <2> HIDE DEF s
  <2>3. /\ s \in Sender /\ SameStream(snd, s) /\ s.cong = "LOSS"
        /\ ~ s.dropped /\ s.high = snd.high
    BY <2>1, <2>2 DEF Sender, SameStream
  <2>4. /\ SameStream(s, snd') /\ snd'.cong = s.cong
        /\ s.retries # 0 => snd'.dropped = s.dropped
        /\ s.retries = 0 => snd'.dropped /\ ~ snd'.retx
    BY <1>2, <2>3, DoRetransmitKeeps
  <2>5. QED
    BY <2>3, <2>4 DEF SameStream, RetryInv
<1>3. QED
  BY <1>1, <1>2 DEF ReTxTimeout, Retransmit

LEMMA HandleDupAckKeeps ==
    ASSUME snd \in Sender, RetryInv(snd), ~ snd.dropped, HandleDupAck
    PROVE  SameStream(snd, snd') /\ RetryInv(snd')
<1> DEFINE c == CountDupAck(snd)
<1>1. c = [snd EXCEPT !.dup = c.dup] /\ c \in Sender
  BY CountDupAckType
<1> HIDE DEF c
<1>2. /\ SameStream(snd, c) /\ c.cong = snd.cong /\ c.retries = snd.retries
      /\ c.dropped = snd.dropped /\ c.high = snd.high
  BY <1>1 DEF Sender, SameStream
<1>3. CASE SendSegments([c EXCEPT !.cong = "DISORDER"], LimitedTransmit(snd))
           /\ snd.cong \in {"OPEN", "DISORDER"}
  <2> DEFINE s == [c EXCEPT !.cong = "DISORDER"]
             sent == LimitedTransmit(snd)
  <2>1. SendSegments(s, sent)
    BY <1>3
  <2>2. s \in Sender /\ SameStream(snd, s) /\ s.retries = snd.retries /\ s.dropped = snd.dropped
        /\ s.cong = "DISORDER"
    BY <1>1, <1>2 DEF Sender, SameStream
  <2> HIDE DEF s, sent
  <2>3. RetryInv(s)
    BY <1>3, <2>2 DEF RetryInv
  <2>4. QED
    BY <2>1, <2>2, <2>3, SendSegmentsKeeps
<1>4. CASE snd' = DoRetransmit([c EXCEPT !.recover = snd.high, !.cong = "RECOVERY"])
           /\ snd.cong = "DISORDER"
  <2> DEFINE s == [c EXCEPT !.recover = snd.high, !.cong = "RECOVERY"]
  <2>1. snd.high \in 0 .. Length + 1
    <3>1. Length \in Nat /\ snd.high \in 1 .. Length + 1
      BY WrittenType DEF Sender, SequenceNumber
    <3>2. QED
      BY <3>1
  <2>2. s \in Sender /\ SameStream(snd, s) /\ s.retries = snd.retries /\ s.dropped = snd.dropped
        /\ s.cong = "RECOVERY" /\ s.high = snd.high
    BY <1>1, <1>2, <2>1 DEF Sender, SameStream
  <2>3. snd' = DoRetransmit(s)
    BY <1>4
  <2> HIDE DEF s
  <2>4. /\ SameStream(s, snd') /\ snd'.cong = s.cong
        /\ s.retries # 0 => snd'.dropped = s.dropped /\ snd'.retries = s.retries - 1
        /\ s.retries = 0 => snd'.dropped /\ ~ snd'.retx
    BY <2>2, <2>3, DoRetransmitKeeps
  <2>5. RetryInv(snd')
    <3> SUFFICES snd'.retries >= DataRetries - 1 \/ (snd'.dropped /\ ~ snd'.retx)
      BY <2>2, <2>4 DEF RetryInv
    <3>1. SUFFICES ASSUME ~ (snd'.dropped /\ ~ snd'.retx) PROVE snd'.retries >= DataRetries - 1
      BY <2>2, <2>4 DEF RetryInv
    <3>2. ~ snd.dropped /\ snd'.retries = snd.retries - 1
      BY <2>2, <2>4, <3>1
    <3>3. snd.retries = DataRetries
      BY <1>4, <3>2 DEF RetryInv
    <3>4. QED
      BY <3>2, <3>3, RetriesNumbers
  <2>6. QED
    BY <2>2, <2>4, <2>5 DEF SameStream
<1>5. CASE \E window \in Windows : SendSegments(snd, PendingData(snd, window))
  <2>1. PICK window \in Windows : SendSegments(snd, PendingData(snd, window))
    BY <1>5
  <2> DEFINE sent == PendingData(snd, window)
  <2>2. SendSegments(snd, sent) /\ SameStream(snd, snd)
    BY <2>1 DEF SameStream
  <2> HIDE DEF sent
  <2>3. QED
    BY <2>2, SendSegmentsKeeps
<1>6. CASE UNCHANGED <<snd, segments>>
  BY <1>6 DEF SameStream
<1>7. QED
  <2>1. \/ /\ SendSegments([c EXCEPT !.cong = "DISORDER"], LimitedTransmit(snd))
           /\ snd.cong \in {"OPEN", "DISORDER"}
        \/ /\ snd' = DoRetransmit([c EXCEPT !.recover = snd.high, !.cong = "RECOVERY"])
           /\ snd.cong = "DISORDER"
        \/ \E window \in Windows : SendSegments(snd, PendingData(snd, window))
        \/ UNCHANGED <<snd, segments>>
    BY DEF HandleDupAck, c
  <2>2. QED
    BY <1>3, <1>4, <1>5, <1>6, <2>1

LEMMA NewAckKeeps ==
    ASSUME NEW s \in Sender, NEW n, NEW reset \in BOOLEAN, NEW t, t = NewAck(s, n, reset)
    PROVE  /\ t.writes = s.writes /\ t.dropped = s.dropped /\ t.cong = s.cong
           /\ t.retries = DataRetries
<1> DEFINE d == DiscardUpTo(s, n)
           part == SubSeq(s.data, n - s.head + 1, Len(s.data))
           next == Max({d.next, n})
           retx == d.data # << >> /\ (d.retx \/ reset)
<1>1. d = [s EXCEPT !.head = n, !.data = part]
  BY DEF DiscardUpTo
<1>2. t = [d EXCEPT !.next = next, !.retx = retx, !.retries = DataRetries, !.pending = TRUE]
  BY DEF NewAck
<1> HIDE DEF d, part, next, retx
<1>3. t = [s EXCEPT !.head = n, !.data = part, !.next = next, !.retx = retx,
                    !.retries = DataRetries, !.pending = TRUE]
  BY <1>1, <1>2 DEF Sender
<1>4. QED
  BY <1>3 DEF Sender

LEMMA HandleNewAckKeeps ==
    ASSUME SenderInv(snd), RetryInv(snd), ~ snd.dropped,
           NEW n \in snd.head .. EndOf(snd), HandleNewAck(n)
    PROVE  snd'.writes = snd.writes /\ snd'.dropped = snd.dropped /\ RetryInv(snd')
<1>1. SendBufferInv(snd) /\ snd \in Sender
  BY DEF SenderInv, SendBufferInv
<1>2. CASE snd' = NewAck(Reopened(snd), n, TRUE)
  <2> DEFINE s == Reopened(snd)
  <2>1. s \in Sender /\ s.writes = snd.writes /\ s.dropped = snd.dropped
    <3> DEFINE dup == IF snd.cong = "OPEN" THEN snd.dup ELSE 0
               first == snd.first \/ snd.cong \in {"RECOVERY", "LOSS"}
    <3>1. s = [snd EXCEPT !.cong = "OPEN", !.first = first, !.dup = dup]
      BY DEF Reopened
    <3>2. dup \in 0 .. ReTxThreshold + 1 /\ first \in BOOLEAN
      <4>1. ReTxThreshold \in Nat /\ snd.dup \in 0 .. ReTxThreshold + 1 /\ 0 \in 0 .. ReTxThreshold + 1
        BY <1>1, TcpAssumption DEF Sender
      <4>2. first \in BOOLEAN
        BY Zenon
      <4>3. QED
        BY <4>1, <4>2
    <3> HIDE DEF s, dup, first
    <3>3. QED
      BY <1>1, <3>1, <3>2 DEF Sender
  <2>2. snd' = NewAck(s, n, TRUE) /\ TRUE \in BOOLEAN
    BY <1>2
  <2> HIDE DEF s
  <2>3. /\ snd'.writes = s.writes /\ snd'.dropped = s.dropped /\ snd'.retries = DataRetries
    BY <2>1, <2>2, NewAckKeeps
  <2>4. QED
    BY <1>1, <2>1, <2>3, RetriesNumbers DEF RetryInv
<1>3. CASE /\ snd' = [NewAck(DoRetransmit(DiscardUpTo(snd, n)), n, snd.first) EXCEPT !.first = FALSE]
           /\ snd.cong = "RECOVERY"
  <2> DEFINE rest == DiscardUpTo(snd, n)
             d == DoRetransmit(rest)
             a == NewAck(d, n, snd.first)
  <2>1. SendBufferInv(rest) /\ rest = [snd EXCEPT !.head = n, !.data = rest.data]
    BY <1>1, DiscardSound
  <2>2. snd' = [a EXCEPT !.first = FALSE]
    BY <1>3
  <2> HIDE DEF rest
  <2>3. /\ rest \in Sender /\ rest.writes = snd.writes /\ rest.dropped = snd.dropped
        /\ rest.retries = snd.retries
    <3>1. rest \in Sender
      BY <2>1 DEF SendBufferInv
    <3>2. QED
      BY <1>1, <2>1, <3>1 DEF Sender
  <2>4. rest.retries # 0
    <3>1. snd.retries >= DataRetries - 1
      BY <1>3 DEF RetryInv
    <3>2. QED
      BY <1>1, <2>3, <3>1, RetriesNumbers
  <2>5. d.writes = snd.writes /\ d.dropped = snd.dropped
    BY <2>3, <2>4, DoRetransmitKeeps DEF SameStream
  <2>6. SendBufferInv(d)
    BY <2>1, DoRetransmitSound
  <2> HIDE DEF d
  <2>7. d \in Sender
    BY <2>6 DEF SendBufferInv
  <2>8. a.writes = snd.writes /\ a.dropped = snd.dropped /\ a.retries = DataRetries
    <3>1. snd.first \in BOOLEAN
      BY <1>1 DEF Sender
    <3>2. QED
      BY <2>5, <2>7, <3>1, NewAckKeeps
  <2>9. a \in Sender
    <3>1. d.head = n /\ EndOf(d) = EndOf(snd)
      <4>1. rest.head = n /\ EndOf(rest) = EndOf(snd)
        BY <1>1, DiscardSound DEF rest
      <4>2. d.head = rest.head /\ d.data = rest.data
        BY <2>1, DoRetransmitSound DEF d
      <4>3. QED
        BY <4>1, <4>2 DEF EndOf
    <3>2. n \in d.head .. EndOf(d) /\ snd.first \in BOOLEAN
      BY <1>1, <3>1, EndsInRange DEF Sender
    <3>3. QED
      BY <2>6, <3>2, NewAckSound DEF SendBufferInv
  <2> HIDE DEF a
  <2>10. /\ snd'.writes = a.writes /\ snd'.dropped = a.dropped /\ snd'.retries = a.retries
    BY <2>2, <2>9 DEF Sender
  <2>11. QED
    BY <1>1, <2>8, <2>10, RetriesNumbers DEF RetryInv
<1>4. QED
  BY <1>2, <1>3, Zenon DEF HandleNewAck

-----------------------------------------------------------------------------
(* Each step of the sockets is a step of the stream, or none.              *)

SameReceiver == rcv'.next = rcv.next /\ rcv'.read = rcv.read

(* How many bytes have been written, as the stream sees it.                *)
LEMMA WrittenBytes ==
    ASSUME NEW s, SenderInv(s)
    PROVE  /\ s.head + Len(s.data) - 1 = Written(s.writes)
           /\ s.head + Len(s.data) - 1 = EndOf(s) - 1
           /\ Written(s.writes) \in Nat /\ s.head - 1 \in Nat /\ Len(s.data) \in Nat
           /\ s.writes \in 0 .. Len(Writes)
<1>1. /\ SendBufferInv(s) /\ s \in Sender /\ s.head \in 1 .. EndOf(s)
      /\ EndOf(s) \in 1 .. Length + 1 /\ Len(s.data) \in Nat
  BY EndOfType DEF SenderInv, SendBufferInv
<1>2. /\ EndOf(s) = Written(s.writes) + 1 /\ s.writes \in 0 .. Len(Writes)
      /\ EndOf(s) = s.head + Len(s.data)
  BY <1>1 DEF SendBufferInv, Sender, EndOf
<1>3. Written(s.writes) \in 0 .. Length /\ Length \in Nat
  BY <1>2, WrittenType
<1> DEFINE len == Len(s.data)
           head == s.head
<1>4. /\ head \in Nat /\ head >= 1 /\ len \in Nat /\ Written(s.writes) \in Nat
      /\ head + len = Written(s.writes) + 1 /\ EndOf(s) = head + len
  <2>1. s.head \in Nat /\ s.head >= 1
    BY <1>1, <1>3
  <2>2. QED
    BY <1>1, <1>2, <1>3, <2>1
<1> HIDE DEF len, head
<1>5. /\ head + len - 1 = Written(s.writes) /\ head + len - 1 = EndOf(s) - 1
      /\ head - 1 \in Nat
  BY <1>4
<1>6. QED
  BY <1>2, <1>4, <1>5 DEF len, head

(* Steps of the sender that only send, once more or for the first time, or *)
(* give up.                                                                *)
LEMMA KeepsStream ==
    ASSUME SenderInv(snd), SenderStep, SameStream(snd, snd'), SameReceiver
    PROVE  [Stream!Next]_Stream!vars
<1>1. /\ SenderInv(snd') /\ snd.high <= snd'.high
      /\ snd.dropped \in BOOLEAN /\ snd'.dropped \in BOOLEAN
  BY DEF SenderStep, SenderInv, SendBufferInv, Sender
<1>2. CASE snd'.dropped = snd.dropped /\ snd'.high = snd.high
  BY <1>2 DEF SameStream, SameReceiver, Stream!vars
<1>3. CASE snd'.dropped = snd.dropped /\ snd'.high # snd.high
  <2>1. ~ snd.dropped
    BY <1>3 DEF SameStream
  <2>2. snd'.high - 1 \in snd.high - 1 + 1 .. EndOf(snd') - 1
    BY <1>1, <1>3, EndsInRange
  <2>3. EndOf(snd') - 1 = snd.head + Len(snd.data) - 1
    <3>1. EndOf(snd') = EndOf(snd)
      BY DEF SameStream, EndOf
    <3>2. QED
      BY <3>1, WrittenBytes
  <2>4. Stream!Transmit
    BY <1>3, <2>1, <2>2, <2>3 DEF SameStream, SameReceiver, Stream!Transmit
  <2>5. QED
    BY <2>4 DEF Stream!Next
<1>4. CASE snd'.dropped # snd.dropped
  <2>1. (~ snd.dropped) = TRUE /\ (~ snd'.dropped) = FALSE /\ snd'.high = snd.high
    BY <1>1, <1>4 DEF SameStream
  <2>2. Stream!GiveUp
    BY <2>1 DEF SameStream, SameReceiver, Stream!GiveUp
  <2>3. QED
    BY <2>2 DEF Stream!Next
<1>5. QED
  BY <1>2, <1>3, <1>4

LEMMA SendWrites ==
    ASSUME Inv, SenderInv(snd'), Send
    PROVE  Stream!Write
<1> DEFINE size == Writes[snd.writes + 1]
           more == [i \in 1 .. size |-> Written(snd.writes) + i]
<1>1. /\ snd' = [snd EXCEPT !.writes = @ + 1, !.pending = TRUE, !.data = @ \o more]
      /\ snd.writes < Len(Writes) /\ Len(snd.data) + size <= SndBufSize
      /\ rcv' = rcv
  BY DEF Send
<1> HIDE DEF more
<1>2. SenderInv(snd) /\ snd \in Sender
  BY DEF Inv, SenderInv, SendBufferInv
<1>3. /\ snd.head + Len(snd.data) - 1 = Written(snd.writes) /\ Written(snd.writes) \in Nat
      /\ snd.head - 1 \in Nat /\ snd.writes \in 0 .. Len(Writes) /\ Len(snd.data) \in Nat
      /\ snd'.head + Len(snd'.data) - 1 = Written(snd'.writes)
  BY <1>2, WrittenBytes
<1>4. snd'.writes = snd.writes + 1 /\ snd'.head = snd.head
      /\ snd'.dropped = snd.dropped /\ snd'.high = snd.high
  BY <1>1, <1>2 DEF Sender
<1>5. size \in Nat \ {0} /\ Written(snd.writes + 1) = Written(snd.writes) + size
  <2>1. Writes \in Seq(Nat \ {0}) /\ Len(Writes) \in Nat
    BY TcpAssumption
  <2> DEFINE w == snd.writes
  <2>2. w \in Nat /\ w + 1 \in 0 .. Len(Writes) /\ w + 1 \in 1 .. Len(Writes)
    BY <1>1, <1>3, <2>1
  <2>3. size \in Nat \ {0}
    BY <2>1, <2>2
  <2> HIDE DEF w
  <2>4. Written(w + 1) = Written(w) + Writes[w + 1]
    BY <2>1, <2>2, WrittenStep
  <2>5. QED
    BY <2>3, <2>4 DEF w
<1> HIDE DEF size
<1>6. Written(snd'.writes) \in Written(snd.writes) + 1 .. snd.head - 1 + SndBufSize
  <2> DEFINE len == Len(snd.data)
             head == snd.head
             w == Written(snd.writes)
  <2>1. /\ w = head + len - 1 /\ len + size <= SndBufSize /\ SndBufSize \in Nat
        /\ len \in Nat /\ head \in Nat /\ w \in Nat
    <3>1. head \in Nat
      BY <1>2, SenderNumbers
    <3>2. QED
      BY <1>1, <1>3, <3>1, TcpAssumption
  <2> HIDE DEF len, head, w
  <2>2. w + size \in w + 1 .. head - 1 + SndBufSize
    BY <1>5, <2>1
  <2>3. Written(snd'.writes) = w + size
    BY <1>4, <1>5 DEF w
  <2>4. QED
    BY <2>2, <2>3 DEF w, head
<1>7. snd'.head + Len(snd'.data) - 1 \in snd.head + Len(snd.data) - 1 + 1 .. snd.head - 1 + SndBufSize
  BY <1>3, <1>6, Zenon
<1>8. QED
  BY <1>1, <1>4, <1>7 DEF Stream!Write

LEMMA ReceivedAckStream ==
    ASSUME Inv, RetryInv(snd), Inv', NEW n \in acks, ReceivedAck(n)
    PROVE  [Stream!Next]_Stream!vars /\ RetryInv(snd')
<1>1. /\ SenderInv(snd) /\ SenderInv(snd') /\ snd \in Sender /\ snd' \in Sender
      /\ BufferInv(rcv, snd.high) /\ NetworkInv
  BY DEF Inv, SenderInv, SendBufferInv
<1>2. SameReceiver
  BY DEF ReceivedAck, SameReceiver
<1>3. CASE ~ snd.dropped /\ HandleDupAck
  <2>1. SameStream(snd, snd') /\ RetryInv(snd') /\ SenderStep
    BY <1>1, <1>3, HandleDupAckKeeps, HandleDupAckStep
  <2>2. QED
    BY <1>1, <1>2, <2>1, KeepsStream
<1>4. CASE UNCHANGED <<snd, segments>>
  BY <1>2, <1>4 DEF SameReceiver, Stream!vars
<1>5. CASE ~ snd.dropped /\ n > snd.head /\ HandleNewAck(n)
  <2>1. /\ snd.high \in 1 .. Length + 1 /\ snd.high \in Nat /\ snd.high <= EndOf(snd)
        /\ EndOf(snd) \in Nat /\ snd.head \in Nat
    BY <1>1, EndsInRange
  <2>2. rcv.next \in Nat /\ rcv.next <= snd.high
    BY <1>1, <2>1, BufferNumbers
  <2>3. n \in Nat /\ n <= rcv.next
    <3>1. n \in 1 .. rcv.next
      BY <1>1 DEF NetworkInv
    <3>2. QED
      BY <2>2, <3>1
  <2>4. n \in snd.head .. EndOf(snd)
    BY <1>5, <2>1, <2>2, <2>3
  <2>5. snd'.head = n /\ snd.high <= snd'.high
    BY <1>1, <1>5, <2>4, HandleNewAckStep DEF SenderStep
  <2>6. snd'.writes = snd.writes /\ snd'.dropped = snd.dropped /\ RetryInv(snd')
    BY <1>1, <1>5, <2>4, HandleNewAckKeeps
  <2>7. snd'.head + Len(snd'.data) - 1 = snd.head + Len(snd.data) - 1
    <3>1. /\ snd'.head + Len(snd'.data) - 1 = Written(snd'.writes)
          /\ snd.head + Len(snd.data) - 1 = Written(snd.writes)
      BY <1>1, WrittenBytes
    <3>2. QED
      BY <2>6, <3>1
  <2>8. snd'.head - 1 \in snd.head - 1 + 1 .. rcv.next - 1
    BY <1>5, <2>1, <2>2, <2>3, <2>5
  <2>9. snd'.high - 1 \in snd.high - 1 .. snd.head + Len(snd.data) - 1
    <3>1. /\ snd'.high \in Nat /\ snd'.high <= EndOf(snd') /\ EndOf(snd') \in Nat
          /\ snd'.head + Len(snd'.data) - 1 = EndOf(snd') - 1
      BY <1>1, EndsInRange, WrittenBytes
    <3>2. snd'.high - 1 \in snd.high - 1 .. EndOf(snd') - 1
      BY <2>1, <2>5, <3>1
    <3>3. QED
      BY <2>7, <3>1, <3>2
  <2>10. Stream!Release
    BY <1>2, <1>5, <2>6, <2>7, <2>8, <2>9 DEF Stream!Release, SameReceiver
  <2>11. QED
    BY <2>6, <2>10 DEF Stream!Next
<1>6. QED
  BY <1>3, <1>4, <1>5 DEF ReceivedAck

LEMMA ReceiverStream ==
    ASSUME Inv, Inv', snd' = snd, rcv.next <= rcv'.next, Unread(rcv') = Unread(rcv)
    PROVE  [Stream!Next]_Stream!vars
<1>1. /\ SenderInv(snd) /\ BufferInv(rcv, snd.high) /\ BufferInv(rcv', snd.high)
  BY DEF Inv
<1>2. rcv'.read = rcv.read
  BY <1>1 DEF BufferInv
<1>3. /\ rcv.next \in Nat /\ rcv'.next \in Nat /\ rcv'.next <= snd.high
      /\ snd.high \in Nat
  BY <1>1, EndsInRange, BufferNumbers
<1>4. CASE rcv'.next = rcv.next
  BY <1>2, <1>4 DEF Stream!vars
<1>5. CASE rcv'.next # rcv.next
  <2>1. rcv'.next - 1 \in rcv.next - 1 + 1 .. snd.high - 1
    BY <1>3, <1>5
  <2>2. Stream!Accept
    BY <1>2, <2>1 DEF Stream!Accept
  <2>3. QED
    BY <2>2 DEF Stream!Next
<1>6. QED
  BY <1>4, <1>5

LEMMA ReceivedDataStream ==
    ASSUME Inv, Inv', NEW seg \in segments, ReceivedData(seg)
    PROVE  [Stream!Next]_Stream!vars
<1> DEFINE added == Add(rcv, seg)
<1>1. /\ SenderInv(snd) /\ BufferInv(rcv, snd.high) /\ NetworkInv /\ rcv \in Receiver
  BY DEF Inv, BufferInv
<1>2. snd.high \in 1 .. Length + 1 /\ Sound(seg, snd.high)
  BY <1>1, EndsInRange DEF NetworkInv
<1>3. snd' = snd /\ ReceivedDataInto(seg, added)
  BY DEF ReceivedData
<1> HIDE DEF added
<1>4. /\ BufferInv(added, snd.high) /\ rcv.next <= added.next /\ Unread(added) = Unread(rcv)
      /\ added \in Receiver /\ rcv.next \in Nat
  <2>1. /\ BufferInv(added, snd.high) /\ rcv.next <= added.next /\ Unread(added) = Unread(rcv)
    BY <1>1, <1>2, AddSound DEF added
  <2>2. QED
    BY <1>1, <1>2, <2>1, BufferNumbers DEF BufferInv
<1>5. rcv.next <= rcv'.next /\ Unread(rcv') = Unread(rcv)
  <2>1. CASE rcv' = Acked(rcv)
    <3>1. rcv'.next = rcv.next /\ rcv'.avail = rcv.avail
      BY <1>1, <2>1, AckedSame
    <3>2. QED
      BY <1>4, <3>1 DEF Unread
  <2>2. CASE rcv' = Acked(added)
    <3>1. rcv'.next = added.next /\ rcv'.avail = added.avail
      BY <1>4, <2>2, AckedSame
    <3>2. QED
      BY <1>4, <3>1 DEF Unread
  <2>3. CASE rcv' = [added EXCEPT !.count = @ + 1, !.timer = TRUE]
    <3>1. rcv'.next = added.next /\ rcv'.avail = added.avail
      BY <1>4, <2>3 DEF Receiver
    <3>2. QED
      BY <1>4, <3>1 DEF Unread
  <2>4. QED
    BY <1>3, <2>1, <2>2, <2>3 DEF ReceivedDataInto
<1>6. QED
  BY <1>3, <1>5, ReceiverStream

LEMMA DelAckTimeoutStream ==
    ASSUME Inv, Inv', DelAckTimeout
    PROVE  [Stream!Next]_Stream!vars
<1>1. rcv \in Receiver
  BY DEF Inv, BufferInv
<1>2. snd' = snd /\ rcv' = Acked(rcv)
  BY DEF DelAckTimeout
<1>3. rcv'.next = rcv.next /\ rcv'.read = rcv.read
  BY <1>1, <1>2, AckedSame
<1>4. QED
  BY <1>2, <1>3 DEF Stream!vars

LEMMA RecvReads ==
    ASSUME Inv, Inv', NEW maxSize \in ReadSizes, Recv(maxSize)
    PROVE  Stream!Read
<1>1. /\ SenderInv(snd) /\ BufferInv(rcv, snd.high) /\ snd.high \in 1 .. Length + 1
  BY EndsInRange DEF Inv
<1>2. rcv.avail > 0 /\ rcv' = Extract(rcv, maxSize) /\ snd' = snd
  BY DEF Recv
<1>3. maxSize \in Nat \ {0}
  BY TcpAssumption
<1>4. BufferInv(rcv', snd.high) /\ rcv'.next = rcv.next /\ Unread(rcv) < Unread(rcv')
  BY <1>1, <1>2, <1>3, ExtractSound
<1> DEFINE m == Unread(rcv) - 1
           n == Unread(rcv') - 1
<1>5. /\ m \in Nat /\ n \in Nat /\ m < n /\ n <= rcv.next - 1
  <2>1. /\ Unread(rcv) \in Nat /\ 1 <= Unread(rcv)
    BY <1>1, BufferNumbers
  <2>2. /\ Unread(rcv') \in Nat /\ 1 <= Unread(rcv') /\ Unread(rcv') = rcv'.next - rcv'.avail
        /\ rcv'.next \in Nat /\ rcv'.avail \in Nat
    BY <1>1, <1>4, BufferNumbers
  <2>3. QED
    BY <1>4, <2>1, <2>2
<1>6. rcv.read = [i \in 1 .. m |-> i] /\ rcv'.read = [i \in 1 .. n |-> i]
  BY <1>1, <1>4 DEF BufferInv
<1> HIDE DEF m, n
<1>7. Len(rcv.read) = m
  BY <1>5, <1>6
<1>8. n \in Len(rcv.read) + 1 .. rcv.next - 1
  <2>1. rcv.next \in Nat
    BY <1>1, BufferNumbers
  <2>2. QED
    BY <1>5, <1>7, <2>1
<1>9. QED
  BY <1>2, <1>4, <1>6, <1>8 DEF Stream!Read, Stream!Prefix

LEMMA StreamInit == Init => Stream!Init /\ RetryInv(snd)
<1> SUFFICES ASSUME Init PROVE Stream!Init /\ RetryInv(snd)
  OBVIOUS
<1>1. /\ snd.head = 1 /\ snd.high = 1 /\ snd.data = << >> /\ snd.dropped = FALSE
      /\ snd.retx = FALSE
      /\ snd.cong = "OPEN" /\ snd.retries = DataRetries
      /\ rcv.next = 1 /\ rcv.read = << >>
  BY DEF Init
<1>2. Stream!Init
  <2>1. Len(snd.data) = 0
    BY <1>1
  <2>2. snd.head + Len(snd.data) - 1 = 0 /\ snd.head - 1 = 0 /\ snd.high - 1 = 0 /\ rcv.next - 1 = 0
    BY <1>1, <2>1
  <2>3. (~ snd.dropped) = TRUE
    BY <1>1
  <2>4. QED
    BY <1>1, <2>2, <2>3 DEF Stream!Init
<1>3. QED
  BY <1>1, <1>2 DEF RetryInv

LEMMA StreamStep ==
    ASSUME Inv, RetryInv(snd), [Next]_vars
    PROVE  [Stream!Next]_Stream!vars /\ RetryInv(snd')
<1>1. Inv'
  BY NextInv
<1>2. SenderInv(snd) /\ SenderInv(snd') /\ snd \in Sender /\ snd' \in Sender
  BY <1>1 DEF Inv, SenderInv, SendBufferInv
<1>3. CASE Send
  <2>1. Stream!Write
    BY <1>2, <1>3, SendWrites
  <2>2. /\ snd'.dropped = snd.dropped /\ snd'.cong = snd.cong /\ snd'.retries = snd.retries
        /\ snd'.retx = snd.retx
    <3> DEFINE data == snd.data \o [i \in 1 .. Writes[snd.writes + 1] |-> Written(snd.writes) + i]
    <3>1. snd' = [snd EXCEPT !.writes = @ + 1, !.pending = TRUE, !.data = data]
      BY <1>3 DEF Send
    <3> HIDE DEF data
    <3>2. QED
      BY <1>2, <3>1 DEF Sender
  <2>3. QED
    BY <2>1, <2>2 DEF Stream!Next, RetryInv
<1>4. CASE SendPendingData
  <2>1. SameStream(snd, snd') /\ RetryInv(snd') /\ SenderStep
    BY <1>2, <1>4, SendPendingDataKeeps, SendPendingDataStep
  <2>2. SameReceiver
    BY <1>4 DEF SendPendingData, SameReceiver
  <2>3. QED
    BY <1>2, <2>1, <2>2, KeepsStream
<1>5. CASE ReTxTimeout
  <2>1. SameStream(snd, snd') /\ RetryInv(snd') /\ SenderStep
    BY <1>2, <1>5, ReTxTimeoutKeeps, ReTxTimeoutStep
  <2>2. SameReceiver
    BY <1>5 DEF ReTxTimeout, SameReceiver
  <2>3. QED
    BY <1>2, <2>1, <2>2, KeepsStream
<1>6. CASE DelAckTimeout
  <2>1. snd' = snd
    BY <1>6 DEF DelAckTimeout
  <2>2. QED
    BY <1>1, <1>6, <2>1, DelAckTimeoutStream
<1>7. ASSUME NEW n \in acks, ReceivedAck(n) PROVE [Stream!Next]_Stream!vars /\ RetryInv(snd')
  BY <1>1, <1>7, ReceivedAckStream
<1>8. ASSUME NEW seg \in segments, ReceivedData(seg)
      PROVE  [Stream!Next]_Stream!vars /\ RetryInv(snd')
  <2>1. snd' = snd
    BY <1>8 DEF ReceivedData
  <2>2. QED
    BY <1>1, <1>8, <2>1, ReceivedDataStream
<1>9. ASSUME NEW maxSize \in ReadSizes, Recv(maxSize)
      PROVE  [Stream!Next]_Stream!vars /\ RetryInv(snd')
  <2>1. snd' = snd
    BY <1>9 DEF Recv
  <2>2. Stream!Read
    BY <1>1, <1>9, RecvReads
  <2>3. QED
    BY <2>1, <2>2 DEF Stream!Next
<1>10. CASE UNCHANGED vars
  BY <1>10 DEF vars, Stream!vars
<1>11. QED
  BY <1>3, <1>4, <1>5, <1>6, <1>7, <1>8, <1>9, <1>10 DEF Next

(* The connection is a stream of bytes: whatever the network loses,        *)
(* repeats or reorders, every step of the sockets writes, sends, accepts,  *)
(* releases or reads bytes of the stream, never one before its turn, or    *)
(* gives it up once and for all.  A socket that has given up still takes   *)
(* bytes from its application, but sends and releases none.                *)
THEOREM StreamRefinement == Spec => CarriesStream
<1>1. Init => Stream!Init /\ RetryInv(snd)
  BY StreamInit
<1>2. Inv /\ RetryInv(snd) /\ [Next]_vars => [Stream!Next]_Stream!vars /\ RetryInv(snd)'
  BY StreamStep
<1>3. QED
  BY <1>1, <1>2, InvCorrect, PTL DEF Spec, CarriesStream, Stream!Spec
=============================================================================
