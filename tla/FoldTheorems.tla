---------------------------- MODULE FoldTheorems ----------------------------
(***************************************************************************)
(* Induction and folds, in a form that the provers can use: a property is  *)
(* a set of numbers, and the operator that is folded is given as a         *)
(* function of a position in the sequence and of the value so far.         *)
(***************************************************************************)
EXTENDS Integers, SequencesExt, SequenceTheorems, WellFoundedInduction, TLAPS

(* The order of the natural numbers, as a set of pairs.                    *)
Less == {ss \in Nat \X Nat : ss[1] < ss[2]}

LEMMA LessWellFounded == IsWellFoundedOn(Less, Nat)
  BY NatLessThanWellFounded DEF OpToRel, Less

(* Every set of natural numbers has a least element.                       *)
LEMMA LeastElement ==
    ASSUME NEW T \in SUBSET Nat, T # {}
    PROVE  \E x \in T : \A y \in T : x <= y
<1>1. PICK x \in T : \A y \in T : ~ (<<y, x>> \in Less)
  BY LessWellFounded, WFMin
<1>2. ASSUME NEW y \in T PROVE x <= y
  <2>1. x \in Nat /\ y \in Nat
    OBVIOUS
  <2>2. y < x => <<y, x>> \in Less
    BY <2>1 DEF Less
  <2>3. QED
    BY <1>1, <2>1, <2>2
<1>3. QED
  BY <1>2

(* Induction for the property of being in T.                               *)
LEMMA SetInduction ==
    ASSUME NEW T \in SUBSET Nat, 0 \in T, \A n \in T : n + 1 \in T
    PROVE  T = Nat
<1> SUFFICES ASSUME T # Nat PROVE FALSE
  OBVIOUS
<1>1. PICK x \in Nat \ T : \A y \in Nat \ T : x <= y
  BY LeastElement
<1>2. x - 1 \in T /\ x # 0
  BY <1>1
<1>3. QED
  BY <1>1, <1>2

-----------------------------------------------------------------------------
(* FoldLeft takes its values on the sets 1 .. k by removing the largest    *)
(* element, as MapThenFoldSet does for any set.  iter does so, too: the    *)
(* k-th step is the function step[k] on S.                                 *)
IsIter(iter, n, S, base, step) ==
    /\ iter \in [SUBSET (1 .. n) -> S]
    /\ iter = [s \in SUBSET (1 .. n) |->
                 IF s = {} THEN base ELSE step[Max(s)][iter[s \ {Max(s)}]]]

(* The largest element, in the set and found where one expects it.         *)
LEMMA MaxIsLast ==
   ASSUME NEW n \in Nat, NEW s \in SUBSET (1 .. n), n \in s
   PROVE Max(s) = n
<1>1. \A y \in s : n >= y
  OBVIOUS
<1>2. \A x \in s : (\A y \in s : x >= y) => x = n
  OBVIOUS
<1> DEFINE P(x) == x \in s /\ \A y \in s : x >= y
<1>3. P(n)
  BY <1>1
<1>4. P(CHOOSE x : P(x))
  BY <1>3, Zenon
<1>5. Max(s) = CHOOSE x : P(x)
  BY Zenon DEF Max
<1>6. QED
  BY <1>2, <1>4, <1>5

LEMMA MaxIsGreatest ==
    ASSUME NEW n \in Nat, NEW s \in SUBSET (1 .. n), s # {}
    PROVE  Max(s) \in s /\ \A y \in s : y <= Max(s)
<1> DEFINE T == {n - x : x \in s}
<1>1. T \in SUBSET Nat
  <2>1. \A x \in s : x \in Nat /\ x <= n
    OBVIOUS
  <2>2. QED
    BY <2>1
<1>2. T # {}
  OBVIOUS
<1>3. PICK z \in T : \A y \in T : z <= y
  <2> HIDE DEF T
  <2>1. QED
    BY <1>1, <1>2, LeastElement
<1>4. PICK m \in s : z = n - m
  OBVIOUS
<1>5. \A y \in s : m >= y
  BY <1>3, <1>4
<1> DEFINE P(x) == x \in s /\ \A y \in s : x >= y
<1>6. P(m)
  BY <1>5
<1>7. P(CHOOSE x : P(x))
  BY <1>6, Zenon
<1>8. Max(s) = CHOOSE x : P(x)
  BY Zenon DEF Max
<1>9. QED
  BY <1>7, <1>8

LEMMA MaxInSet ==
    ASSUME NEW n \in Nat, NEW s \in SUBSET (1 .. n), s # {}
    PROVE  Max(s) \in s
  BY MaxIsGreatest

(* Such a function exists if every step takes S to S.                      *)
LEMMA IterExists ==
    ASSUME NEW S, NEW base \in S, NEW N \in Nat, NEW step \in [1 .. N -> [S -> S]]
    PROVE  \E iter : IsIter(iter, N, S, base, step)
<1> DEFINE T == {n \in Nat : n <= N => \E iter : IsIter(iter, n, S, base, step)}
<1>1. 0 \in T
  <2> DEFINE it == [s \in SUBSET (1 .. 0) |-> base]
  <2>1. \A s \in SUBSET (1 .. 0) : s = {}
    OBVIOUS
  <2>2. it = [s \in SUBSET (1 .. 0) |->
              IF s = {} THEN base ELSE step[Max(s)][it[s \ {Max(s)}]]]
    BY <2>1
  <2>3. it \in [SUBSET (1 .. 0) -> S]
    OBVIOUS
  <2> HIDE DEF it
  <2>4. QED
    BY <2>2, <2>3 DEF IsIter
<1>2. ASSUME NEW n \in T PROVE n + 1 \in T
  <2> SUFFICES ASSUME n + 1 <= N PROVE \E iter : IsIter(iter, n + 1, S, base, step)
    OBVIOUS
  <2>1. PICK it : IsIter(it, n, S, base, step)
    OBVIOUS
  <2> DEFINE new == [s \in SUBSET (1 .. n + 1) |->
         IF n + 1 \in s THEN step[n + 1][it[s \ {n + 1}]] ELSE it[s]]
             val(s) == IF s = {} THEN base ELSE step[Max(s)][new[s \ {Max(s)}]]
  <2>2. ASSUME NEW s \in SUBSET (1 .. n + 1) PROVE new[s] = val(s)
    <3>1. CASE n + 1 \in s
      <4>1. Max(s) = n + 1
        BY <3>1, MaxIsLast
      <4>2. s \ {n + 1} \in SUBSET (1 .. n) /\ s \ {n + 1} \in SUBSET (1 .. n + 1)
        OBVIOUS
      <4>3. new[s \ {n + 1}] = it[s \ {n + 1}]
        BY <4>2
      <4>4. QED
        BY <3>1, <4>1, <4>3
    <3>2. CASE n + 1 \notin s
      <4>1. s \in SUBSET (1 .. n) /\ new[s] = it[s]
        BY <3>2
      <4>2. CASE s = {}
        BY <4>1, <4>2, <2>1 DEF IsIter
      <4>3. CASE s # {}
        <5>1. it[s] = step[Max(s)][it[s \ {Max(s)}]]
          BY <4>1, <4>3, <2>1 DEF IsIter
        <5>2. new[s \ {Max(s)}] = it[s \ {Max(s)}]
          BY <3>2
        <5>3. QED
          BY <4>1, <4>3, <5>1, <5>2
      <4>4. QED
        BY <4>2, <4>3
    <3>3. QED
      BY <3>1, <3>2
  <2>3. new = [s \in SUBSET (1 .. n + 1) |-> val(s)]
    <3>1. new = [s \in SUBSET (1 .. n + 1) |-> new[s]]
      OBVIOUS
    <3> HIDE DEF new
    <3>2. QED
      BY <2>2, <3>1
  <2>4. new \in [SUBSET (1 .. n + 1) -> S]
    <3>1. ASSUME NEW s \in SUBSET (1 .. n + 1)
          PROVE  (IF n + 1 \in s THEN step[n + 1][it[s \ {n + 1}]] ELSE it[s]) \in S
      <4>1. s \ {n + 1} \in SUBSET (1 .. n) /\ n + 1 \in 1 .. N
        OBVIOUS
      <4>2. it[s \ {n + 1}] \in S
        BY <4>1, <2>1 DEF IsIter
      <4>3. step[n + 1][it[s \ {n + 1}]] \in S
        BY <4>1, <4>2
      <4>4. n + 1 \notin s => s \in SUBSET (1 .. n)
        OBVIOUS
      <4>5. QED
        BY <4>3, <4>4, <2>1 DEF IsIter
    <3>2. QED
      BY <3>1
  <2>5. IsIter(new, n + 1, S, base, step)
    <3> HIDE DEF new
    <3>1. QED
      BY <2>3, <2>4 DEF IsIter
  <2>6. QED
    BY <2>5, Zenon
<1>3. T = Nat
  <2> HIDE DEF T
  <2>1. T \in SUBSET Nat
    BY DEF T
  <2>2. QED
    BY <1>1, <1>2, <2>1, SetInduction
<1>4. N \in T
  <2> HIDE DEF T
  <2>1. QED
    BY <1>3
<1>5. QED
  BY <1>4

(* A function that satisfies the equations, if only as long as its values  *)
(* are in S.                                                               *)
Folds(iter, n, S, base, step) ==
    /\ iter[{}] = base
    /\ \A s \in SUBSET (1 .. n) : s # {} /\ iter[s \ {Max(s)}] \in S =>
           iter[s] = step[Max(s)][iter[s \ {Max(s)}]]

(* The values one after the other: t[k] is the one after k elements.       *)
IsTrace(t, n, S, base, step) ==
    /\ t \in [0 .. n -> S]
    /\ t[0] = base
    /\ \A k \in 1 .. n : t[k] = step[k][t[k - 1]]

(* Such a function has its values in S, and they are computed step by step.*)
LEMMA FoldTrace ==
    ASSUME NEW S, NEW base \in S, NEW N \in Nat, NEW step \in [1 .. N -> [S -> S]],
           NEW iter, Folds(iter, N, S, base, step)
    PROVE  \E t : IsTrace(t, N, S, base, step) /\ t[N] = iter[1 .. N]
<1> USE DEF Folds
<1>1. ASSUME NEW k \in 1 .. N, iter[1 .. k - 1] \in S
      PROVE  iter[1 .. k] = step[k][iter[1 .. k - 1]] /\ iter[1 .. k] \in S
  <2>1. 1 .. k \subseteq 1 .. N /\ k \in 1 .. k
    OBVIOUS
  <2>2. Max(1 .. k) = k
    BY <2>1, MaxIsLast
  <2>3. (1 .. k) \ {k} = 1 .. k - 1
    OBVIOUS
  <2>4. iter[1 .. k] = step[k][iter[1 .. k - 1]]
    <3> DEFINE s == 1 .. k
    <3>1. s \in SUBSET (1 .. N) /\ s # {} /\ Max(s) = k /\ s \ {Max(s)} = 1 .. k - 1
      BY <2>1, <2>2, <2>3
    <3> HIDE DEF s
    <3>2. iter[s] = step[Max(s)][iter[s \ {Max(s)}]]
      BY <1>1, <3>1
    <3>3. iter[s] = step[k][iter[1 .. k - 1]]
      BY <3>1, <3>2
    <3>4. QED
      BY <3>3 DEF s
  <2>5. step[k][iter[1 .. k - 1]] \in S
    BY <1>1
  <2>6. QED
    BY <2>4, <2>5
<1> DEFINE T == {k \in Nat : k <= N => iter[1 .. k] \in S}
<1>2. T = Nat
  <2>1. 1 .. 0 = {}
    OBVIOUS
  <2>2. 0 \in T
    BY <2>1
  <2>3. ASSUME NEW k \in T PROVE k + 1 \in T
    <3>1. CASE k + 1 <= N
      <4>1. iter[1 .. k] \in S /\ (k + 1) - 1 = k /\ k + 1 \in 1 .. N
        BY <3>1
      <4>2. QED
        BY <4>1, <1>1
    <3>2. QED
      BY <3>1
  <2>4. T \in SUBSET Nat
    OBVIOUS
  <2> HIDE DEF T
  <2>5. QED
    BY <2>2, <2>3, <2>4, SetInduction
<1>3. \A k \in 0 .. N : iter[1 .. k] \in S
  BY <1>2
<1> DEFINE t == [k \in 0 .. N |-> iter[1 .. k]]
<1>4. t \in [0 .. N -> S]
  BY <1>3
<1>5. t[0] = base /\ t[N] = iter[1 .. N]
  <2>1. 1 .. 0 = {}
    OBVIOUS
  <2>2. QED
    BY <2>1
<1>6. ASSUME NEW k \in 1 .. N PROVE t[k] = step[k][t[k - 1]]
  <2>1. k - 1 \in 0 .. N /\ k \in 0 .. N
    OBVIOUS
  <2>2. QED
    BY <2>1, <1>1, <1>3
<1>7. QED
  <2> HIDE DEF t
  <2>1. IsTrace(t, N, S, base, step)
    BY <1>4, <1>5, <1>6 DEF IsTrace
  <2>2. QED
    BY <2>1, <1>5, Zenon

(* The result, at least, is in S.                                          *)
LEMMA FoldIn ==
    ASSUME NEW S, NEW base \in S, NEW N \in Nat, NEW step \in [1 .. N -> [S -> S]],
           NEW iter, Folds(iter, N, S, base, step)
    PROVE  iter[1 .. N] \in S
<1>1. PICK t : IsTrace(t, N, S, base, step) /\ t[N] = iter[1 .. N]
  BY FoldTrace
<1>2. t \in [0 .. N -> S] /\ N \in 0 .. N
  BY <1>1 DEF IsTrace
<1>3. QED
  BY <1>1, <1>2

-----------------------------------------------------------------------------
(* Induction up to a bound.                                                *)
LEMMA UpTo ==
    ASSUME NEW N \in Nat, NEW T, 0 \in T, \A k \in 1 .. N : k - 1 \in T => k \in T
    PROVE  \A k \in 0 .. N : k \in T
<1> DEFINE U == {k \in Nat : k <= N => k \in T}
<1>1. ASSUME NEW k \in U PROVE k + 1 \in U
  <2>1. CASE k + 1 <= N
    <3>1. k + 1 \in 1 .. N /\ (k + 1) - 1 = k /\ k \in T
      BY <2>1
    <3>2. QED
      BY <3>1
  <2>2. QED
    BY <2>1
<1>2. U = Nat
  <2>1. U \in SUBSET Nat /\ 0 \in U
    OBVIOUS
  <2> HIDE DEF U
  <2>2. QED
    BY <1>1, <2>1, SetInduction
<1>3. QED
  BY <1>2

(* A function that is computed from the upper end of an interval down: a   *)
(* value is either given by base or made from the one at a later place.    *)
Downward(lo, hi, S, stop, base, next, step) ==
    /\ lo \in Int /\ hi \in Int /\ lo <= hi /\ base \in S
    /\ stop \subseteq lo .. hi /\ hi \in stop
    /\ next \in [(lo .. hi) \ stop -> lo .. hi]
    /\ step \in [(lo .. hi) \ stop -> [S -> S]]
    /\ \A n \in (lo .. hi) \ stop : next[n] > n

IsDownward(f, lo, hi, S, stop, base, next, step) ==
    /\ f \in [lo .. hi -> S]
    /\ \A n \in lo .. hi : f[n] = IF n \in stop THEN base ELSE step[n][f[next[n]]]

LEMMA DownwardExists ==
    ASSUME NEW lo, NEW hi, NEW S, NEW stop, NEW base, NEW next, NEW step,
           Downward(lo, hi, S, stop, base, next, step)
    PROVE  \E f : IsDownward(f, lo, hi, S, stop, base, next, step)
<1> USE DEF Downward
<1> DEFINE Val(f, n) == IF n \in stop THEN base ELSE step[n][f[next[n]]]
           T == {k \in Nat : k <= hi - lo =>
                   \E f \in [hi - k .. hi -> S] : \A n \in hi - k .. hi : f[n] = Val(f, n)}
<1>1. hi - lo \in Nat
  OBVIOUS
<1>2. 0 \in T
  <2> DEFINE f == [n \in hi - 0 .. hi |-> base]
  <2>1. f \in [hi - 0 .. hi -> S]
    OBVIOUS
  <2>2. ASSUME NEW n \in hi - 0 .. hi PROVE f[n] = Val(f, n)
    <3>1. n = hi /\ n \in lo .. hi
      OBVIOUS
    <3>2. QED
      BY <3>1
  <2>3. QED
    <3> HIDE DEF f
    <3>1. QED
      BY <2>1, <2>2
<1>3. ASSUME NEW k \in T PROVE k + 1 \in T
  <2> SUFFICES ASSUME k + 1 <= hi - lo
               PROVE  \E f \in [hi - (k + 1) .. hi -> S] :
                          \A n \in hi - (k + 1) .. hi : f[n] = Val(f, n)
    OBVIOUS
  <2>1. PICK g \in [hi - k .. hi -> S] : \A n \in hi - k .. hi : g[n] = Val(g, n)
    OBVIOUS
  <2> DEFINE m == hi - (k + 1)
             f == [n \in m .. hi |-> IF n = m THEN Val(g, m) ELSE g[n]]
  <2>2. m \in lo .. hi /\ hi - k = m + 1
    OBVIOUS
  <2> HIDE DEF m
  <2>3. Val(g, m) \in S
    <3>1. CASE m \in stop
      BY <3>1
    <3>2. CASE m \notin stop
      <4>1. next[m] \in hi - k .. hi
        BY <3>2, <2>2
      <4>2. g[next[m]] \in S
        BY <4>1
      <4>3. step[m] \in [S -> S]
        BY <3>2, <2>2
      <4>4. QED
        BY <3>2, <4>2, <4>3
    <3>3. QED
      BY <3>1, <3>2
  <2>4. f \in [m .. hi -> S]
    BY <2>2, <2>3
  <2>5. ASSUME NEW n \in m .. hi PROVE f[n] = Val(f, n)
    <3>1. n \in lo .. hi
      BY <2>2
    <3>2. CASE n \in stop
      <4>1. n = m \/ n \in hi - k .. hi
        BY <2>2
      <4>2. QED
        BY <3>2, <4>1, <2>1
    <3>3. CASE n \notin stop
      <4>1. next[n] \in n + 1 .. hi
        BY <3>1, <3>3
      <4>2. next[n] \in m .. hi /\ next[n] # m
        BY <4>1, <2>2
      <4>3. f[next[n]] = g[next[n]]
        BY <4>2
      <4>4. Val(f, n) = Val(g, n)
        BY <3>3, <4>3
      <4>5. n = m \/ (n \in hi - k .. hi /\ n # m)
        BY <2>2
      <4>6. QED
        BY <4>4, <4>5, <2>1
    <3>4. QED
      BY <3>2, <3>3
  <2>6. QED
    <3> HIDE DEF f
    <3>1. QED
      BY <2>4, <2>5 DEF m
<1>4. T = Nat
  <2>1. T \in SUBSET Nat
    OBVIOUS
  <2> HIDE DEF T
  <2>2. QED
    BY <1>2, <1>3, <2>1, SetInduction
<1>5. PICK f \in [lo .. hi -> S] : \A n \in lo .. hi : f[n] = Val(f, n)
  <2>1. hi - lo \in T
    BY <1>1, <1>4
  <2>2. hi - (hi - lo) = lo
    OBVIOUS
  <2>3. QED
    BY <2>1, <2>2
<1>6. QED
  BY <1>5 DEF IsDownward

(* What holds at a place of an interval if it holds at every later place,  *)
(* holds at all of them.                                                   *)
LEMMA DownwardInduction ==
    ASSUME NEW lo \in Int, NEW hi \in Int, lo <= hi, NEW T,
           \A n \in lo .. hi : (\A m \in n + 1 .. hi : m \in T) => n \in T
    PROVE  \A n \in lo .. hi : n \in T
<1> DEFINE U == {k \in 0 .. hi - lo : \A m \in hi - k .. hi : m \in T}
<1>1. hi - lo \in Nat
  OBVIOUS
<1>2. 0 \in U
  <2>1. \A m \in hi + 1 .. hi : m \in T
    OBVIOUS
  <2>2. hi \in T
    BY <2>1
  <2>3. \A m \in hi - 0 .. hi : m = hi
    OBVIOUS
  <2>4. QED
    BY <1>1, <2>2, <2>3
<1>3. ASSUME NEW k \in 1 .. hi - lo, k - 1 \in U PROVE k \in U
  <2> DEFINE n == hi - k
  <2>1. n \in lo .. hi /\ hi - (k - 1) = n + 1
    OBVIOUS
  <2>2. \A m \in n + 1 .. hi : m \in T
    BY <1>3, <2>1
  <2>3. n \in T
    BY <2>1, <2>2
  <2>4. \A m \in n .. hi : m = n \/ m \in n + 1 .. hi
    BY <2>1
  <2>5. QED
    BY <2>2, <2>3, <2>4
<1>4. \A k \in 0 .. hi - lo : k \in U
  <2> HIDE DEF U
  <2>1. QED
    BY <1>1, <1>2, <1>3, UpTo
<1>5. QED
  <2>1. hi - lo \in U /\ hi - (hi - lo) = lo
    BY <1>1, <1>4
  <2>2. QED
    BY <2>1

-----------------------------------------------------------------------------
(* Least elements, and the larger and the smaller of two numbers.          *)
LEMMA MinIsLeast ==
    ASSUME NEW s \in SUBSET Nat, s # {}
    PROVE  Min(s) \in s /\ \A y \in s : Min(s) <= y
<1> DEFINE P(x) == x \in s /\ \A y \in s : x =< y
<1>1. PICK m \in s : \A y \in s : m <= y
  BY LeastElement
<1>2. P(m)
  BY <1>1
<1>3. P(CHOOSE x : P(x))
  BY <1>2, Zenon
<1>4. Min(s) = CHOOSE x : P(x)
  BY Zenon DEF Min
<1>5. QED
  BY <1>3, <1>4

LEMMA MinOfTwo ==
    ASSUME NEW a \in Int, NEW b \in Int
    PROVE  Min({a, b}) = IF a <= b THEN a ELSE b
<1> DEFINE P(x) == x \in {a, b} /\ \A y \in {a, b} : x =< y
<1>1. P(IF a <= b THEN a ELSE b)
  OBVIOUS
<1>2. P(CHOOSE x : P(x))
  <2> HIDE DEF P
  <2>1. QED
    BY <1>1, Zenon
<1>3. Min({a, b}) = CHOOSE x : P(x)
  BY Zenon DEF Min
<1>4. QED
  BY <1>2, <1>3

LEMMA MaxOfTwo ==
    ASSUME NEW a \in Int, NEW b \in Int
    PROVE  Max({a, b}) = IF a >= b THEN a ELSE b
<1> DEFINE P(x) == x \in {a, b} /\ \A y \in {a, b} : x >= y
<1>1. P(IF a >= b THEN a ELSE b)
  OBVIOUS
<1>2. P(CHOOSE x : P(x))
  <2> HIDE DEF P
  <2>1. QED
    BY <1>1, Zenon
<1>3. Max({a, b}) = CHOOSE x : P(x)
  BY Zenon DEF Max
<1>4. QED
  BY <1>2, <1>3

-----------------------------------------------------------------------------
(* Sequences.                                                              *)

(* The part of a sequence after the first m elements, up to the n-th.      *)
LEMMA PartOfSeq ==
    ASSUME NEW S, NEW q \in Seq(S), NEW m \in Nat, NEW n \in Nat, m <= n, n <= Len(q)
    PROVE  /\ SubSeq(q, m + 1, n) \in Seq(S)
           /\ Len(SubSeq(q, m + 1, n)) = n - m
           /\ DOMAIN SubSeq(q, m + 1, n) = 1 .. n - m
           /\ \A i \in 1 .. n - m : SubSeq(q, m + 1, n)[i] = q[m + i]
<1> DEFINE a == m + 1
<1>1. a \in 1 .. Len(q) + 1 /\ n \in a - 1 .. Len(q) /\ n - a + 1 = n - m
  OBVIOUS
<1>2. ASSUME NEW i \in 1 .. n - m PROVE a + i - 1 = m + i /\ m + i \in 1 .. Len(q)
  OBVIOUS
<1> HIDE DEF a
<1>3. /\ SubSeq(q, a, n) \in Seq(S)
      /\ Len(SubSeq(q, a, n)) = n - a + 1
      /\ \A i \in 1 .. n - a + 1 : SubSeq(q, a, n)[i] = q[a + i - 1]
  BY <1>1, SubSeqProperties
<1>4. QED
  BY <1>1, <1>2, <1>3 DEF a

=============================================================================
