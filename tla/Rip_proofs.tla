----------------------------- MODULE Rip_proofs -----------------------------
(***************************************************************************)
(* What Rip.tla promises of the routes and messages in every network.      *)
(*                                                                         *)
(* Two invariants are inductive.  GoodInv: the routes of a router and the  *)
(* metrics it sends are no better than the network allows, and every route *)
(* has the event that will end it.  OwnInv: the last entry of a router     *)
(* whose interface to Dst is up is its own, which nothing that is received *)
(* and no timer can touch.                                                 *)
(***************************************************************************)
EXTENDS Rip, FoldTheorems

(* A metric that s may tell of.                                            *)
GoodMetric(s) == {m \in 1 .. LinkDown : \A h \in Bound : m >= h[s]}

(* RoutesExpire, of one route.                                             *)
Expires(route) ==
    /\ route.valid /\ route.gateway # Direct => route.event = "invalidate"
    /\ ~ route.valid => route.event # "none"
    /\ route.valid /\ route.gateway = Direct => route.event = "none"

GoodRoute(r) == {route \in Route : Expires(route) /\ route.metric \in GoodMetric(r)}

GoodMessage(s) == {Request, Reply} \cup {Response(metrics) : metrics \in Seq(GoodMetric(s))}

GoodInv ==
    /\ up \in [Router -> SUBSET Net]
    /\ routes \in [Router -> Seq(Route)]
    /\ \A r \in Router : routes[r] \in Seq(GoodRoute(r))
    /\ next \in [Router -> {"none", "request", "update"}]
    /\ updated \subseteq Router
    /\ channel = [c \in Channel |-> channel[c]]
    /\ \A c \in Channel : channel[c] \in Seq(GoodMessage(c[1]))
    /\ events \in Nat /\ losses \in Nat

(* The network route, whether or not it has been sent.                     *)
IsOwn(route) ==
    /\ route.gateway = Direct /\ route.interface = Dst /\ route.metric = 1
    /\ route.valid /\ route.event = "none"

EndsWithOwn(list) == list # << >> /\ IsOwn(list[Len(list)])

CostlyLinks == \A r \in Router, n \in Net : InterfaceMetric[r][n] > 0

OwnInv == \A r \in Attached[Dst] : Dst \in up[r] => EndsWithOwn(routes[r])

-----------------------------------------------------------------------------
(* Sequences and sets.                                                     *)

LEMMA FunctionIsSeq ==
    ASSUME NEW S, NEW n \in Nat, NEW f \in [1 .. n -> S]
    PROVE  f \in Seq(S) /\ Len(f) = n
  OBVIOUS

LEMMA SeqIsFunction ==
    ASSUME NEW S, NEW q \in Seq(S)
    PROVE  /\ Len(q) \in Nat /\ DOMAIN q = 1 .. Len(q)
           /\ q = << >> <=> Len(q) = 0
           /\ \A i \in 1 .. Len(q) : q[i] \in S
  OBVIOUS

LEMMA EnqueueType ==
    ASSUME NEW S, NEW queue \in Seq(S), NEW more \in Seq(S)
    PROVE  Enqueue(queue, more) \in Seq(S)
<1> DEFINE k == Min({Len(more), ChannelSize - Len(queue)})
<1>1. Len(more) \in Nat /\ Len(queue) \in Nat /\ ChannelSize \in Nat
  BY LenProperties, RipAssumption
<1>2. k \in Int /\ k <= Len(more)
  <2> DEFINE b == ChannelSize - Len(queue)
  <2>1. b \in Int
    BY <1>1
  <2> HIDE DEF b
  <2>2. Min({Len(more), b}) = IF Len(more) <= b THEN Len(more) ELSE b
    BY <1>1, <2>1, MinOfTwo
  <2>3. QED
    BY <1>1, <2>1, <2>2 DEF b
<1> HIDE DEF k
<1>3. \A i \in 1 .. k : more[i] \in S
  BY <1>1, <1>2, ElementOfSeq
<1>4. SubSeq(more, 1, k) \in Seq(S)
  BY <1>2, <1>3, SubSeqProperties
<1>5. queue \o SubSeq(more, 1, k) \in Seq(S)
  BY <1>4, ConcatProperties
<1>6. QED
  BY <1>5 DEF Enqueue, k

(* What every entry of a response preserves, the whole response does.      *)
LEMMA HandleRtesIn ==
    ASSUME NEW S, NEW list, NEW M, NEW q \in Seq(M), NEW r, NEW sender, NEW n,
           [list |-> list, changed |-> FALSE] \in S,
           \A p \in S : \A k \in 1 .. Len(q) : HandleRte(p, Received(q[k], r, n), sender, n) \in S
    PROVE  HandleRtes(list, q, r, sender, n) \in S
<1> DEFINE N == Len(q)
           base == [list |-> list, changed |-> FALSE]
           Value(iter, s) == IF s = {} THEN base ELSE HandleRte(iter[s \ {Max(s)}], Received(q[Max(s)], r, n), sender, n)
           P(iter) == iter = [s \in SUBSET (1 .. N) |-> Value(iter, s)]
           it == CHOOSE iter : P(iter)
           step == [k \in 1 .. N |-> [p \in S |-> HandleRte(p, Received(q[k], r, n), sender, n)]]
<1>1. N \in Nat /\ DOMAIN q = 1 .. N /\ base \in S
  OBVIOUS
<1>2. HandleRtes(list, q, r, sender, n) = it[1 .. N]
  BY <1>1, Zenon DEF HandleRtes, FoldLeft, MapThenFoldSet
<1>3. step \in [1 .. N -> [S -> S]]
  OBVIOUS
<1> HIDE DEF base
<1>4. PICK iter : IsIter(iter, N, S, base, step)
  <2> HIDE DEF N, step
  <2>1. QED
    BY <1>1, <1>3, IterExists
<1>5. P(iter)
  <2>1. ASSUME NEW s \in SUBSET (1 .. N) PROVE iter[s] = Value(iter, s)
    <3>1. CASE s = {}
      BY <3>1, <1>4 DEF IsIter
    <3>2. CASE s # {}
      <4>1. iter[s \ {Max(s)}] \in S /\ iter[s] = step[Max(s)][iter[s \ {Max(s)}]]
        <5> HIDE DEF step, N
        <5>1. QED
          BY <3>2, <1>4 DEF IsIter
      <4>2. Max(s) \in 1 .. N
        BY <1>1, <3>2, MaxInSet
      <4>3. QED
        BY <4>1, <4>2, <3>2
    <3>3. QED
      BY <3>1, <3>2
  <2>2. iter = [s \in SUBSET (1 .. N) |-> iter[s]]
    BY <1>4 DEF IsIter
  <2>3. QED
    BY <2>1, <2>2
<1>6. P(it)
  BY <1>5, Zenon
<1>7. Folds(it, N, S, base, step)
  <2>1. ASSUME NEW s \in SUBSET (1 .. N) PROVE it[s] = Value(it, s)
    <3> HIDE DEF it
    <3>1. QED
      BY <1>6
  <2> HIDE DEF it
  <2>2. ASSUME NEW s \in SUBSET (1 .. N), s # {}, it[s \ {Max(s)}] \in S
        PROVE  it[s] = step[Max(s)][it[s \ {Max(s)}]]
    <3>1. Max(s) \in 1 .. N
      BY <1>1, <2>2, MaxInSet
    <3>2. QED
      BY <2>1, <2>2, <3>1
  <2>3. it[{}] = base
    BY <2>1
  <2> HIDE DEF step, N
  <2>4. QED
    BY <2>2, <2>3 DEF Folds
<1>8. it[1 .. N] \in S
  <2> HIDE DEF N, it, step
  <2>1. QED
    BY <1>1, <1>3, <1>7, FoldIn, Zenon
<1>9. QED
  BY <1>2, <1>8

(* So does the loop that makes the header of an update.                    *)
LEMMA RtesIn ==
    ASSUME NEW S, NEW M, NEW q \in Seq(M), NEW n, NEW periodic,
           << >> \in S,
           \A p \in S : \A k \in 1 .. Len(q) : AddRte(p, q[k], n, periodic) \in S
    PROVE  Rtes(q, n, periodic) \in S
<1> DEFINE N == Len(q)
           base == << >>
           Value(iter, s) == IF s = {} THEN base ELSE AddRte(iter[s \ {Max(s)}], q[Max(s)], n, periodic)
           P(iter) == iter = [s \in SUBSET (1 .. N) |-> Value(iter, s)]
           it == CHOOSE iter : P(iter)
           step == [k \in 1 .. N |-> [p \in S |-> AddRte(p, q[k], n, periodic)]]
<1>1. N \in Nat /\ DOMAIN q = 1 .. N /\ base \in S
  OBVIOUS
<1>2. Rtes(q, n, periodic) = it[1 .. N]
  BY <1>1, Zenon DEF Rtes, FoldLeft, MapThenFoldSet
<1>3. step \in [1 .. N -> [S -> S]]
  OBVIOUS
<1> HIDE DEF base
<1>4. PICK iter : IsIter(iter, N, S, base, step)
  <2> HIDE DEF N, step
  <2>1. QED
    BY <1>1, <1>3, IterExists
<1>5. P(iter)
  <2>1. ASSUME NEW s \in SUBSET (1 .. N) PROVE iter[s] = Value(iter, s)
    <3>1. CASE s = {}
      BY <3>1, <1>4 DEF IsIter
    <3>2. CASE s # {}
      <4>1. iter[s \ {Max(s)}] \in S /\ iter[s] = step[Max(s)][iter[s \ {Max(s)}]]
        <5> HIDE DEF step, N
        <5>1. QED
          BY <3>2, <1>4 DEF IsIter
      <4>2. Max(s) \in 1 .. N
        BY <1>1, <3>2, MaxInSet
      <4>3. QED
        BY <4>1, <4>2, <3>2
    <3>3. QED
      BY <3>1, <3>2
  <2>2. iter = [s \in SUBSET (1 .. N) |-> iter[s]]
    BY <1>4 DEF IsIter
  <2>3. QED
    BY <2>1, <2>2
<1>6. P(it)
  BY <1>5, Zenon
<1>7. Folds(it, N, S, base, step)
  <2>1. ASSUME NEW s \in SUBSET (1 .. N) PROVE it[s] = Value(it, s)
    <3> HIDE DEF it
    <3>1. QED
      BY <1>6
  <2> HIDE DEF it
  <2>2. ASSUME NEW s \in SUBSET (1 .. N), s # {}, it[s \ {Max(s)}] \in S
        PROVE  it[s] = step[Max(s)][it[s \ {Max(s)}]]
    <3>1. Max(s) \in 1 .. N
      BY <1>1, <2>2, MaxInSet
    <3>2. QED
      BY <2>1, <2>2, <3>1
  <2>3. it[{}] = base
    BY <2>1
  <2> HIDE DEF step, N
  <2>4. QED
    BY <2>2, <2>3 DEF Folds
<1>8. it[1 .. N] \in S
  <2> HIDE DEF N, it, step
  <2>1. QED
    BY <1>1, <1>3, <1>7, FoldIn, Zenon
<1>9. QED
  BY <1>2, <1>8

-----------------------------------------------------------------------------
(* Metrics.                                                                *)

LEMMA BoundType ==
    ASSUME NEW h \in Bound
    PROVE  /\ h \in [Router -> 0 .. LinkDown]
           /\ \A r \in Attached[Dst] : h[r] <= 1
           /\ \A c \in Channel : h[c[3]] <= h[c[1]] + InterfaceMetric[c[3]][c[2]]
  BY DEF Bound

LEMMA ChannelType ==
    ASSUME NEW c \in Channel
    PROVE  /\ c[1] \in Router /\ c[2] \in Net /\ c[3] \in Router /\ c[1] # c[3]
           /\ c = <<c[1], c[2], c[3]>>
           /\ <<c[3], c[2], c[1]>> \in Channel /\ <<c[3], c[2], c[1]>> # c
  BY DEF Channel

LEMMA LinkDownIsGood ==
    ASSUME NEW r \in Router
    PROVE  LinkDown \in GoodMetric(r)
<1>1. LinkDown \in 1 .. LinkDown
  BY RipAssumption
<1>2. ASSUME NEW h \in Bound PROVE LinkDown >= h[r]
  BY BoundType, <1>1
<1>3. QED
  BY <1>1, <1>2 DEF GoodMetric

(* One link more.                                                          *)
LEMMA ReceivedIsGood ==
    ASSUME NEW c \in Channel, NEW metric \in GoodMetric(c[1])
    PROVE  Received(metric, c[3], c[2]) \in GoodMetric(c[3])
<1> DEFINE cost == InterfaceMetric[c[3]][c[2]]
           m == metric + cost
<1>1. c[1] \in Router /\ c[3] \in Router /\ c[2] \in Net
  BY ChannelType
<1>2. cost \in Nat /\ metric \in 1 .. LinkDown /\ LinkDown \in Nat
  BY <1>1, RipAssumption DEF GoodMetric
<1>3. ASSUME NEW h \in Bound PROVE m >= h[c[3]]
  <2>1. h[c[3]] <= h[c[1]] + cost /\ h[c[1]] \in Int /\ h[c[3]] \in Int
    BY <1>1, BoundType
  <2>2. metric >= h[c[1]]
    BY DEF GoodMetric
  <2> HIDE DEF cost
  <2>3. QED
    BY <1>2, <2>1, <2>2
<1>4. CASE m > LinkDown
  <2>1. Received(metric, c[3], c[2]) = LinkDown
    BY <1>4 DEF Received, CappedMetric
  <2>2. QED
    BY <1>1, <2>1, LinkDownIsGood
<1>5. CASE ~ (m > LinkDown)
  <2>1. Received(metric, c[3], c[2]) = m
    BY <1>5 DEF Received, CappedMetric
  <2>2. m \in 1 .. LinkDown
    <3> HIDE DEF cost
    <3>1. QED
      BY <1>2, <1>5
  <2>3. m \in GoodMetric(c[3])
    <3> HIDE DEF m
    <3>1. QED
      BY <1>3, <2>2 DEF GoodMetric
  <2>4. QED
    BY <2>1, <2>3
<1>6. QED
  BY <1>4, <1>5

-----------------------------------------------------------------------------
(* Routes.                                                                 *)

LEMMA ScheduleIs ==
    ASSUME NEW route \in Route, NEW what \in {"none", "invalidate", "delete"}, NEW delay \in Nat
    PROVE  /\ Schedule(route, what, delay) \in Route
           /\ Schedule(route, what, delay).gateway = route.gateway
           /\ Schedule(route, what, delay).metric = route.metric
           /\ Schedule(route, what, delay).valid = route.valid
           /\ Schedule(route, what, delay).event = what
  BY DEF Schedule, Route

LEMMA InvalidateRouteIs ==
    ASSUME NEW route \in Route
    PROVE  /\ InvalidateRoute(route) \in Route
           /\ InvalidateRoute(route).metric = LinkDown
           /\ InvalidateRoute(route).valid = FALSE
           /\ InvalidateRoute(route).event = "delete"
<1> DEFINE bad == [route EXCEPT !.valid = FALSE, !.metric = LinkDown, !.changed = TRUE]
<1>1. LinkDown \in 1 .. LinkDown /\ GarbageCollectionDelay \in Nat
  BY RipAssumption
<1>2. bad \in Route
  BY <1>1 DEF Route
<1>3. bad.metric = LinkDown /\ bad.valid = FALSE
  BY DEF Route
<1>4. InvalidateRoute(route) = Schedule(bad, "delete", GarbageCollectionDelay)
  BY DEF InvalidateRoute
<1> DEFINE what == "delete"
<1>5. what \in {"none", "invalidate", "delete"}
  OBVIOUS
<1> HIDE DEF bad, what
<1>6. /\ Schedule(bad, what, GarbageCollectionDelay) \in Route
      /\ Schedule(bad, what, GarbageCollectionDelay).metric = bad.metric
      /\ Schedule(bad, what, GarbageCollectionDelay).valid = bad.valid
      /\ Schedule(bad, what, GarbageCollectionDelay).event = what
  <2>1. bad \in Route /\ what \in {"none", "invalidate", "delete"} /\ GarbageCollectionDelay \in Nat
    BY <1>1, <1>2, <1>5
  <2>2. Schedule(bad, what, GarbageCollectionDelay) \in Route
    BY <2>1, ScheduleIs
  <2>3. Schedule(bad, what, GarbageCollectionDelay).metric = bad.metric
    BY <2>1, ScheduleIs
  <2>4. Schedule(bad, what, GarbageCollectionDelay).valid = bad.valid
    BY <2>1, ScheduleIs
  <2>5. Schedule(bad, what, GarbageCollectionDelay).event = what
    BY <2>1, ScheduleIs
  <2>6. QED
    BY <2>2, <2>3, <2>4, <2>5
<1>7. QED
  BY <1>3, <1>4, <1>6 DEF what

LEMMA NetworkRouteIsGood ==
    ASSUME NEW r \in Router, r \in Attached[Dst]
    PROVE  NetworkRoute \in GoodRoute(r)
<1>1. NetworkRoute \in Route /\ Expires(NetworkRoute)
  BY RipAssumption DEF NetworkRoute, Route, Expires
<1>2. 1 \in GoodMetric(r)
  <2>1. 1 \in 1 .. LinkDown
    BY RipAssumption
  <2>2. ASSUME NEW h \in Bound PROVE 1 >= h[r]
    BY BoundType
  <2>3. QED
    BY <2>1, <2>2 DEF GoodMetric
<1>3. QED
  BY <1>1, <1>2 DEF GoodRoute, NetworkRoute

LEMMA ValidRouteIsGood ==
    ASSUME NEW r \in Router, NEW s \in Router, NEW n \in Net, NEW metric \in GoodMetric(r)
    PROVE  ValidRoute(s, n, metric) \in GoodRoute(r)
<1>1. metric \in 1 .. LinkDown
  BY DEF GoodMetric
<1>2. ValidRoute(s, n, metric) \in Route /\ Expires(ValidRoute(s, n, metric))
  BY <1>1, RipAssumption DEF ValidRoute, Route, Expires
<1>3. QED
  BY <1>2 DEF GoodRoute, ValidRoute

LEMMA InvalidRouteIsGood ==
    ASSUME NEW r \in Router, NEW route \in GoodRoute(r)
    PROVE  InvalidateRoute(route) \in GoodRoute(r)
<1>1. route \in Route
  BY DEF GoodRoute
<1> DEFINE new == InvalidateRoute(route)
<1>2. new \in Route /\ new.metric = LinkDown /\ new.valid = FALSE /\ new.event = "delete"
  BY <1>1, InvalidateRouteIs
<1> HIDE DEF new
<1>3. Expires(new)
  BY <1>2 DEF Expires
<1>4. new \in GoodRoute(r)
  BY <1>2, <1>3, LinkDownIsGood DEF GoodRoute
<1>5. QED
  BY <1>4 DEF new

LEMMA SentRouteIsGood ==
    ASSUME NEW r \in Router, NEW route \in GoodRoute(r)
    PROVE  [route EXCEPT !.changed = FALSE] \in GoodRoute(r)
<1> DEFINE new == [route EXCEPT !.changed = FALSE]
<1>1. route \in Route /\ Expires(route) /\ route.metric \in GoodMetric(r)
  BY DEF GoodRoute
<1>2. new \in Route /\ Expires(new) /\ new.metric = route.metric
  BY <1>1 DEF Route, Expires
<1>3. QED
  BY <1>1, <1>2 DEF GoodRoute

LEMMA OlderRouteIsGood ==
    ASSUME NEW r \in Router, NEW route \in GoodRoute(r), route.left > 0
    PROVE  [route EXCEPT !.left = @ - 1] \in GoodRoute(r)
<1> DEFINE new == [route EXCEPT !.left = @ - 1]
<1>1. route \in Route /\ Expires(route) /\ route.metric \in GoodMetric(r)
  BY DEF GoodRoute
<1>2. new \in Route /\ Expires(new) /\ new.metric = route.metric
  BY <1>1 DEF Route, Expires
<1>3. QED
  BY <1>1, <1>2 DEF GoodRoute

(* What one entry of a response does to a route.                           *)
LEMMA LearnsIsGood ==
    ASSUME NEW r \in Router, NEW s \in Router, NEW n \in Net,
           NEW metric \in GoodMetric(r), NEW route \in GoodRoute(r)
    PROVE  Learns(route, metric, s, n) \in GoodRoute(r)
<1> DEFINE new == Learns(route, metric, s, n)
<1>1. route \in Route /\ Expires(route) /\ route.metric \in GoodMetric(r)
  BY DEF GoodRoute
<1>2. \/ new = ValidRoute(s, n, metric)
      \/ new = Schedule(route, "invalidate", TimeoutDelay) /\ s = route.gateway
      \/ new = InvalidateRoute(route)
      \/ new = route
  BY DEF Learns, Refreshes
<1>3. CASE new = ValidRoute(s, n, metric)
  BY <1>3, ValidRouteIsGood
<1>4. CASE new = Schedule(route, "invalidate", TimeoutDelay) /\ s = route.gateway
  <2>1. route.gateway # Direct
    BY <1>4, RipAssumption
  <2>2. /\ new \in Route /\ new.metric = route.metric
        /\ new.event = "invalidate" /\ new.gateway = route.gateway
    BY <1>1, <1>4, ScheduleIs, RipAssumption
  <2> HIDE DEF new
  <2>3. Expires(new)
    BY <2>1, <2>2 DEF Expires
  <2>4. new \in GoodRoute(r)
    BY <1>1, <2>2, <2>3 DEF GoodRoute
  <2>5. QED
    BY <2>4 DEF new
<1>5. CASE new = InvalidateRoute(route)
  BY <1>5, InvalidRouteIsGood
<1>6. QED
  BY <1>2, <1>3, <1>4, <1>5

(* A table that the entries of a response are applied to.                  *)
Table(r) == [list : Seq(GoodRoute(r)), changed : BOOLEAN]

LEMMA HandleRteIsGood ==
    ASSUME NEW r \in Router, NEW s \in Router, NEW n \in Net,
           NEW metric \in GoodMetric(r), NEW table \in Table(r)
    PROVE  /\ HandleRte(table, metric, s, n) \in Table(r)
           /\ table.list # << >> =>
                HandleRte(table, metric, s, n).list =
                  [i \in 1 .. Len(table.list) |-> Learns(table.list[i], metric, s, n)]
<1> DEFINE list == table.list
           learned == [i \in DOMAIN list |-> Learns(list[i], metric, s, n)]
           isNew == list = << >> /\ metric # LinkDown
           new == HandleRte(table, metric, s, n)
<1>1. list \in Seq(GoodRoute(r)) /\ table.changed \in BOOLEAN
  BY DEF Table
<1>2. Len(list) \in Nat /\ DOMAIN list = 1 .. Len(list) /\ \A i \in 1 .. Len(list) : list[i] \in GoodRoute(r)
  BY <1>1, SeqIsFunction
<1>3. learned \in Seq(GoodRoute(r))
  <2>1. \A i \in 1 .. Len(list) : Learns(list[i], metric, s, n) \in GoodRoute(r)
    <3> HIDE DEF list
    <3>1. QED
      BY <1>2, LearnsIsGood
  <2>2. learned \in [1 .. Len(list) -> GoodRoute(r)]
    <3> HIDE DEF list
    <3>1. QED
      BY <1>2, <2>1
  <2> HIDE DEF learned, list
  <2>3. QED
    BY <1>2, <2>2, FunctionIsSeq
<1>4. new.list = IF isNew THEN <<ValidRoute(s, n, metric)>> ELSE learned
  BY DEF HandleRte
<1>5. new = [list |-> new.list, changed |-> new.changed] /\ new.changed \in BOOLEAN
  BY <1>1 DEF HandleRte
<1>6. <<ValidRoute(s, n, metric)>> \in Seq(GoodRoute(r))
  <2> DEFINE v == ValidRoute(s, n, metric)
  <2>1. v \in GoodRoute(r)
    BY ValidRouteIsGood
  <2> HIDE DEF v
  <2>2. <<v>> \in Seq(GoodRoute(r))
    BY <2>1
  <2>3. QED
    BY <2>2 DEF v
<1>7. new.list \in Seq(GoodRoute(r))
  <2> HIDE DEF new, learned, list
  <2>1. QED
    BY <1>3, <1>4, <1>6
<1>8. new \in Table(r)
  <2> HIDE DEF new
  <2>1. QED
    BY <1>5, <1>7 DEF Table
<1>9. list # << >> => new.list = [i \in 1 .. Len(list) |-> Learns(list[i], metric, s, n)]
  <2> HIDE DEF new, list
  <2>1. QED
    BY <1>2, <1>4
<1>10. QED
  BY <1>8, <1>9

-----------------------------------------------------------------------------
(* Messages.                                                               *)

LEMMA HandleRtesAreGood ==
    ASSUME NEW c \in Channel, NEW metrics \in Seq(GoodMetric(c[1])),
           NEW list \in Seq(GoodRoute(c[3]))
    PROVE  HandleRtes(list, metrics, c[3], c[1], c[2]) \in Table(c[3])
<1> DEFINE S == Table(c[3])
<1>1. c[1] \in Router /\ c[2] \in Net /\ c[3] \in Router
  BY ChannelType
<1>2. [list |-> list, changed |-> FALSE] \in S
  BY DEF Table
<1>3. ASSUME NEW p \in S, NEW k \in 1 .. Len(metrics)
      PROVE  HandleRte(p, Received(metrics[k], c[3], c[2]), c[1], c[2]) \in S
  <2>1. Received(metrics[k], c[3], c[2]) \in GoodMetric(c[3])
    BY ReceivedIsGood, ElementOfSeq
  <2>2. QED
    BY <1>1, <2>1, HandleRteIsGood
<1> HIDE DEF S
<1>4. HandleRtes(list, metrics, c[3], c[1], c[2]) \in S
  BY <1>2, <1>3, HandleRtesIn
<1>5. QED
  BY <1>4 DEF S

LEMMA RtesAreGood ==
    ASSUME NEW r \in Router, NEW list \in Seq(GoodRoute(r)), NEW n, NEW periodic
    PROVE  Rtes(list, n, periodic) \in Seq(GoodMetric(r))
<1> DEFINE S == Seq(GoodMetric(r))
<1>1. << >> \in S
  OBVIOUS
<1>2. ASSUME NEW p \in S, NEW k \in 1 .. Len(list)
      PROVE  AddRte(p, list[k], n, periodic) \in S
  <2>1. list[k] \in GoodRoute(r)
    BY ElementOfSeq
  <2>2. Advertised(list[k], n) \in GoodMetric(r)
    BY <2>1, LinkDownIsGood DEF Advertised, GoodRoute
  <2>3. Append(p, Advertised(list[k], n)) \in S
    BY <2>2, AppendProperties
  <2>4. QED
    BY <2>3 DEF AddRte
<1> HIDE DEF S
<1>3. Rtes(list, n, periodic) \in S
  BY <1>1, <1>2, RtesIn
<1>4. QED
  BY <1>3 DEF S

LEMMA UpdateIsGood ==
    ASSUME GoodInv, NEW r \in Router, NEW n, NEW periodic
    PROVE  Update(r, n, periodic) \in Seq(GoodMessage(r))
<1> DEFINE metrics == Rtes(routes[r], n, periodic)
<1>1. metrics \in Seq(GoodMetric(r))
  BY RtesAreGood DEF GoodInv
<1>2. Update(r, n, periodic) = IF metrics = << >> THEN << >> ELSE <<Response(metrics)>>
  BY DEF Update
<1> HIDE DEF metrics
<1>3. Response(metrics) \in GoodMessage(r)
  BY <1>1 DEF GoodMessage
<1>4. <<Response(metrics)>> \in Seq(GoodMessage(r))
  <2> DEFINE m == Response(metrics)
  <2> HIDE DEF m
  <2>1. m \in GoodMessage(r) => <<m>> \in Seq(GoodMessage(r))
    OBVIOUS
  <2>2. QED
    BY <1>3, <2>1 DEF m
<1>5. QED
  BY <1>2, <1>4

(* All channels, after a router has sent on some of them.                  *)
ChannelsGood(chan) ==
    /\ chan = [c \in Channel |-> chan[c]]
    /\ \A c \in Channel : chan[c] \in Seq(GoodMessage(c[1]))

LEMMA MulticastIsGood ==
    ASSUME GoodInv, NEW r \in Router, NEW what, Multicast(r, what),
           \A n \in Net : what[n] \in Seq(GoodMessage(r))
    PROVE  ChannelsGood(channel')
<1> DEFINE out(c) == IF c[1] = r /\ c[2] \in up[r] THEN what[c[2]] ELSE << >>
           outgoing == [c \in Channel |-> out(c)]
<1>1. channel' = [c \in Channel |-> Enqueue(channel[c], outgoing[c])]
  BY DEF Multicast, Sends
<1>2. ASSUME NEW c \in Channel PROVE Enqueue(channel[c], outgoing[c]) \in Seq(GoodMessage(c[1]))
  <2>1. channel[c] \in Seq(GoodMessage(c[1]))
    BY DEF GoodInv
  <2>2. outgoing[c] \in Seq(GoodMessage(c[1]))
    <3>1. c[2] \in Net
      BY ChannelType
    <3>2. << >> \in Seq(GoodMessage(c[1]))
      OBVIOUS
    <3>3. QED
      BY <3>1, <3>2
  <2> HIDE DEF outgoing
  <2>3. QED
    BY <2>1, <2>2, EnqueueType
<1> HIDE DEF outgoing
<1>3. QED
  BY <1>1, <1>2 DEF ChannelsGood

LEMMA ConsumeIsGood ==
    ASSUME GoodInv, NEW c \in Channel, channel[c] # << >>, Consume(c)
    PROVE  ChannelsGood(channel')
<1>1. Tail(channel[c]) \in Seq(GoodMessage(c[1]))
  BY HeadTailProperties DEF GoodInv
<1>2. channel' = [channel EXCEPT ![c] = Tail(channel[c])]
  BY DEF Consume
<1>3. QED
  BY <1>1, <1>2 DEF GoodInv, ChannelsGood

LEMMA UnchangedIsGood ==
    ASSUME GoodInv, UNCHANGED channel
    PROVE  ChannelsGood(channel')
  BY DEF GoodInv, ChannelsGood

(* The routes of one router change, or its list of routes.                 *)
RoutesGood(table) ==
    /\ table \in [Router -> Seq(Route)]
    /\ \A r \in Router : table[r] \in Seq(GoodRoute(r))

LEMMA OneTable ==
    ASSUME GoodInv, NEW r \in Router, NEW list \in Seq(GoodRoute(r)),
           routes' = [routes EXCEPT ![r] = list]
    PROVE  RoutesGood(routes')
<1>1. list \in Seq(Route)
  BY SeqMonotonic DEF GoodRoute
<1>2. routes' \in [Router -> Seq(Route)]
  BY <1>1 DEF GoodInv
<1>3. \A s \in Router : routes'[s] = IF s = r THEN list ELSE routes[s]
  BY DEF GoodInv
<1>4. QED
  BY <1>2, <1>3 DEF GoodInv, RoutesGood

LEMMA SameTable ==
    ASSUME GoodInv, UNCHANGED routes
    PROVE  RoutesGood(routes')
  BY DEF GoodInv, RoutesGood

LEMMA GoodRoutes ==
    ASSUME GoodInv, NEW r \in Router
    PROVE  /\ routes[r] \in Seq(GoodRoute(r)) /\ Len(routes[r]) \in Nat
           /\ DOMAIN routes[r] = 1 .. Len(routes[r])
           /\ \A i \in 1 .. Len(routes[r]) : routes[r][i] \in GoodRoute(r) /\ routes[r][i] \in Route
<1>1. routes[r] \in Seq(GoodRoute(r))
  BY DEF GoodInv
<1>2. /\ Len(routes[r]) \in Nat /\ DOMAIN routes[r] = 1 .. Len(routes[r])
      /\ \A i \in 1 .. Len(routes[r]) : routes[r][i] \in GoodRoute(r)
  BY <1>1, SeqIsFunction
<1>3. QED
  BY <1>1, <1>2 DEF GoodRoute

LEMMA DoSendIsGood ==
    ASSUME GoodInv, NEW r \in Router, NEW periodic, DoSendRouteUpdate(r, periodic)
    PROVE  RoutesGood(routes') /\ ChannelsGood(channel')
<1>1. ChannelsGood(channel')
  <2> DEFINE what == [n \in Net |-> Update(r, n, periodic)]
  <2>1. Multicast(r, what)
    BY DEF DoSendRouteUpdate
  <2>2. \A n \in Net : what[n] \in Seq(GoodMessage(r))
    BY UpdateIsGood
  <2> HIDE DEF what
  <2>3. QED
    BY <2>1, <2>2, MulticastIsGood
<1>2. RoutesGood(routes')
  <2> DEFINE list == [i \in DOMAIN routes[r] |-> [routes[r][i] EXCEPT !.changed = FALSE]]
  <2>1. routes' = [routes EXCEPT ![r] = list]
    BY DEF DoSendRouteUpdate
  <2>2. list \in Seq(GoodRoute(r))
    <3>1. list \in [1 .. Len(routes[r]) -> GoodRoute(r)] /\ Len(routes[r]) \in Nat
      BY GoodRoutes, SentRouteIsGood
    <3> HIDE DEF list
    <3>2. QED
      BY <3>1, FunctionIsSeq
  <2> HIDE DEF list
  <2>3. QED
    BY <2>1, <2>2, OneTable
<1>3. QED
  BY <1>1, <1>2

-----------------------------------------------------------------------------
(* GoodInv is inductive.                                                   *)

LEMMA GoodInit == Init => GoodInv
<1> SUFFICES ASSUME Init PROVE GoodInv
  OBVIOUS
<1>1. up \in [Router -> SUBSET Net] /\ next \in [Router -> {"none", "request", "update"}]
  BY DEF Init
<1>2. ASSUME NEW r \in Router PROVE routes[r] \in Seq(GoodRoute(r)) /\ routes[r] \in Seq(Route)
  <2>1. << >> \in Seq(GoodRoute(r)) /\ << >> \in Seq(Route)
    OBVIOUS
  <2>2. CASE r \in Attached[Dst]
    <3>1. NetworkRoute \in GoodRoute(r) /\ NetworkRoute \in Route
      BY <2>2, NetworkRouteIsGood DEF GoodRoute
    <3> DEFINE own == NetworkRoute
    <3>2. routes[r] = <<own>>
      BY <2>2 DEF Init
    <3> HIDE DEF own
    <3>3. own \in GoodRoute(r) /\ own \in Route
      BY <3>1 DEF own
    <3>4. QED
      BY <3>2, <3>3
  <2>3. CASE r \notin Attached[Dst]
    BY <2>1, <2>3 DEF Init
  <2>4. QED
    BY <2>2, <2>3
<1>3. routes \in [Router -> Seq(Route)]
  <2>1. routes = [r \in Router |-> routes[r]]
    BY DEF Init
  <2>2. QED
    BY <1>2, <2>1
<1>4. channel = [c \in Channel |-> channel[c]] /\ \A c \in Channel : channel[c] \in Seq(GoodMessage(c[1]))
  <2>1. \A c \in Channel : << >> \in Seq(GoodMessage(c[1]))
    OBVIOUS
  <2>2. QED
    BY <2>1 DEF Init
<1>5. updated \subseteq Router /\ events \in Nat /\ losses \in Nat
  BY DEF Init
<1>6. QED
  BY <1>1, <1>2, <1>3, <1>4, <1>5 DEF GoodInv

(* A step keeps the invariant if it does so for each of its parts.         *)
LEMMA GoodParts ==
    ASSUME up' \in [Router -> SUBSET Net], RoutesGood(routes'), ChannelsGood(channel'),
           next' \in [Router -> {"none", "request", "update"}],
           updated' \subseteq Router, events' \in Nat, losses' \in Nat
    PROVE  GoodInv'
  BY DEF GoodInv, RoutesGood, ChannelsGood

LEMMA TriggeredType ==
    ASSUME GoodInv, NEW r \in Router
    PROVE  Triggered(r) \in {"none", "request", "update"}
  BY DEF Triggered, GoodInv

LEMMA GoodTimers ==
    ASSUME GoodInv, NEW r \in Router,
           \/ SendRouteRequest(r) \/ SendTriggeredUpdate(r) \/ SendUnsolicitedRouteUpdate(r)
    PROVE  GoodInv'
<1>1. CASE SendRouteRequest(r)
  <2> DEFINE what == [n \in Net |-> <<Request>>]
  <2>1. Multicast(r, what)
    BY <1>1 DEF SendRouteRequest
  <2>2. Request \in GoodMessage(r)
    BY DEF GoodMessage
  <2>3. <<Request>> \in Seq(GoodMessage(r))
    BY <2>2
  <2>4. \A n \in Net : what[n] \in Seq(GoodMessage(r))
    BY <2>3
  <2>5. ChannelsGood(channel')
    <3> HIDE DEF what
    <3>1. QED
      BY <2>1, <2>4, MulticastIsGood
  <2>6. QED
    BY <1>1, <2>5, SameTable, GoodParts DEF SendRouteRequest, GoodInv
<1>2. CASE SendTriggeredUpdate(r)
  <2>1. RoutesGood(routes') /\ ChannelsGood(channel')
    BY <1>2, DoSendIsGood DEF SendTriggeredUpdate
  <2>2. QED
    BY <1>2, <2>1, GoodParts DEF SendTriggeredUpdate, GoodInv
<1>3. CASE SendUnsolicitedRouteUpdate(r)
  <2>1. RoutesGood(routes') /\ ChannelsGood(channel')
    BY <1>3, DoSendIsGood DEF SendUnsolicitedRouteUpdate
  <2>2. QED
    BY <1>3, <2>1, GoodParts DEF SendUnsolicitedRouteUpdate, GoodInv
<1>4. QED
  BY <1>1, <1>2, <1>3

LEMMA GoodEnds ==
    ASSUME GoodInv, NEW r \in Router, NEW i \in DOMAIN routes[r],
           InvalidateTimeout(r, i) \/ DeleteRoute(r, i)
    PROVE  GoodInv'
<1>1. /\ i \in 1 .. Len(routes[r]) /\ routes[r][i] \in GoodRoute(r)
      /\ Len(routes[r]) \in Nat /\ routes[r] \in Seq(GoodRoute(r))
  BY GoodRoutes
<1>2. CASE InvalidateTimeout(r, i)
  <2> DEFINE list == [routes[r] EXCEPT ![i] = InvalidateRoute(routes[r][i])]
  <2>1. routes' = [routes EXCEPT ![r] = list]
    BY <1>2 DEF InvalidateTimeout, GoodInv
  <2>2. list \in Seq(GoodRoute(r))
    BY <1>1, InvalidRouteIsGood, ExceptSeq
  <2> HIDE DEF list
  <2>3. RoutesGood(routes')
    BY <2>1, <2>2, OneTable
  <2>4. QED
    BY <1>2, <2>3, UnchangedIsGood, GoodParts DEF InvalidateTimeout, GoodInv
<1>3. CASE DeleteRoute(r, i)
  <2> DEFINE list == RemoveAt(routes[r], i)
  <2>1. routes' = [routes EXCEPT ![r] = list]
    BY <1>3 DEF DeleteRoute
  <2>2. list \in Seq(GoodRoute(r))
    <3>1. SubSeq(routes[r], 1, i - 1) \in Seq(GoodRoute(r))
      BY <1>1, SubSeqProperties, GoodRoutes
    <3>2. SubSeq(routes[r], i + 1, Len(routes[r])) \in Seq(GoodRoute(r))
      BY <1>1, SubSeqProperties, GoodRoutes
    <3>3. QED
      BY <3>1, <3>2, ConcatProperties DEF RemoveAt
  <2> HIDE DEF list
  <2>3. RoutesGood(routes')
    BY <2>1, <2>2, OneTable
  <2>4. QED
    BY <1>3, <2>3, UnchangedIsGood, GoodParts DEF DeleteRoute, GoodInv
<1>4. QED
  BY <1>2, <1>3

LEMMA GoodReceive ==
    ASSUME GoodInv, NEW c \in Channel,
           \/ HandleRequest(c) \/ IgnoreReply(c) \/ HandleResponse(c)
           \/ DropAtDownInterface(c) \/ Lose(c)
    PROVE  GoodInv'
<1>1. c[1] \in Router /\ c[2] \in Net /\ c[3] \in Router
  BY ChannelType
<1>2. CASE HandleRequest(c)
  <2> DEFINE back == <<c[3], c[2], c[1]>>
             reply == IF \E i \in Valid(c[3]) : Announces(routes[c[3]][i], c[2]) THEN <<Reply>> ELSE << >>
  <2>1. channel' = [channel EXCEPT ![c] = Tail(@), ![back] = Enqueue(channel[back], reply)]
    BY <1>2 DEF HandleRequest
  <2>2. channel[c] # << >>
    BY <1>2 DEF HandleRequest, Arrives
  <2>3. back \in Channel /\ back # c
    BY ChannelType
  <2>4. reply \in Seq(GoodMessage(back[1]))
    <3>1. Reply \in GoodMessage(back[1])
      BY DEF GoodMessage
    <3>2. <<Reply>> \in Seq(GoodMessage(back[1])) /\ << >> \in Seq(GoodMessage(back[1]))
      BY <3>1
    <3>3. QED
      BY <3>2
  <2> HIDE DEF back, reply
  <2>5. Tail(channel[c]) \in Seq(GoodMessage(c[1]))
    BY <2>2, HeadTailProperties DEF GoodInv
  <2>6. Enqueue(channel[back], reply) \in Seq(GoodMessage(back[1]))
    BY <2>3, <2>4, EnqueueType DEF GoodInv
  <2>7. ChannelsGood(channel')
    BY <2>1, <2>3, <2>5, <2>6 DEF ChannelsGood, GoodInv
  <2>8. QED
    BY <1>2, <2>7, SameTable, GoodParts DEF HandleRequest, GoodInv
<1>3. CASE IgnoreReply(c)
  <2>1. ChannelsGood(channel')
    BY <1>3, ConsumeIsGood DEF IgnoreReply, Arrives
  <2>2. QED
    BY <1>3, <2>1, SameTable, GoodParts DEF IgnoreReply, GoodInv
<1>4. CASE HandleResponse(c)
  <2> DEFINE metrics == Head(channel[c]).metrics
             result == HandleRtes(routes[c[3]], metrics, c[3], c[1], c[2])
  <2>1. /\ channel[c] # << >> /\ Head(channel[c]).type = "response" /\ Consume(c)
        /\ routes' = [routes EXCEPT ![c[3]] = result.list]
        /\ next' = IF result.changed THEN [next EXCEPT ![c[3]] = Triggered(c[3])] ELSE next
        /\ UNCHANGED <<up, updated, events, losses>>
    BY <1>4 DEF HandleResponse, Arrives
  <2>2. metrics \in Seq(GoodMetric(c[1]))
    <3>1. Head(channel[c]) \in GoodMessage(c[1])
      BY <2>1, HeadTailProperties DEF GoodInv
    <3>2. QED
      BY <2>1, <3>1 DEF GoodMessage, Request, Reply, Response
  <2>3. routes[c[3]] \in Seq(GoodRoute(c[3]))
    BY <1>1 DEF GoodInv
  <2> HIDE DEF metrics
  <2>4. result \in Table(c[3])
    BY <2>2, <2>3, HandleRtesAreGood
  <2> HIDE DEF result
  <2>5. result.list \in Seq(GoodRoute(c[3]))
    BY <2>4 DEF Table
  <2>6. RoutesGood(routes')
    BY <1>1, <2>1, <2>5, OneTable
  <2>7. ChannelsGood(channel')
    BY <2>1, ConsumeIsGood
  <2>8. next' \in [Router -> {"none", "request", "update"}]
    BY <1>1, <2>1, TriggeredType DEF GoodInv
  <2>9. QED
    BY <2>1, <2>6, <2>7, <2>8, GoodParts DEF GoodInv
<1>5. CASE DropAtDownInterface(c)
  <2>1. ChannelsGood(channel')
    BY <1>5, ConsumeIsGood DEF DropAtDownInterface
  <2>2. QED
    BY <1>5, <2>1, SameTable, GoodParts DEF DropAtDownInterface, GoodInv
<1>6. CASE Lose(c)
  <2>1. ChannelsGood(channel')
    BY <1>6, ConsumeIsGood DEF Lose
  <2>2. QED
    BY <1>6, <2>1, SameTable, GoodParts DEF Lose, GoodInv
<1>7. QED
  BY <1>2, <1>3, <1>4, <1>5, <1>6

LEMMA FlappingType ==
    ASSUME NEW a \in Flapping
    PROVE  a[1] \in Router /\ a[2] \in Net /\ a[1] \in Attached[a[2]] /\ a = <<a[1], a[2]>>
  BY RipAssumption

LEMMA GoodInterfaces ==
    ASSUME GoodInv, NEW a \in Flapping,
           NotifyInterfaceDown(a[1], a[2]) \/ NotifyInterfaceUp(a[1], a[2])
    PROVE  GoodInv'
<1> DEFINE r == a[1]  n == a[2]
<1>1. r \in Router /\ n \in Net /\ r \in Attached[n]
  BY FlappingType
<1> HIDE DEF r, n
<1>2. CASE NotifyInterfaceDown(r, n)
  <2> DEFINE list == [i \in DOMAIN routes[r] |->
                        IF routes[r][i].interface = n THEN InvalidateRoute(routes[r][i]) ELSE routes[r][i]]
  <2>1. /\ up' = [up EXCEPT ![r] = @ \ {n}] /\ routes' = [routes EXCEPT ![r] = list]
        /\ next' = [next EXCEPT ![r] = Triggered(r)] /\ events' = events + 1
        /\ UNCHANGED <<updated, channel, losses>>
    BY <1>2 DEF NotifyInterfaceDown
  <2>2. list \in Seq(GoodRoute(r))
    <3>1. list \in [1 .. Len(routes[r]) -> GoodRoute(r)] /\ Len(routes[r]) \in Nat
      BY <1>1, GoodRoutes, InvalidRouteIsGood
    <3> HIDE DEF list
    <3>2. QED
      BY <3>1, FunctionIsSeq
  <2> HIDE DEF list
  <2>3. RoutesGood(routes')
    BY <1>1, <2>1, <2>2, OneTable
  <2>4. up' \in [Router -> SUBSET Net] /\ next' \in [Router -> {"none", "request", "update"}]
    BY <1>1, <2>1, TriggeredType DEF GoodInv
  <2>5. QED
    BY <2>1, <2>3, <2>4, UnchangedIsGood, GoodParts DEF GoodInv
<1>3. CASE NotifyInterfaceUp(r, n)
  <2>1. /\ up' = [up EXCEPT ![r] = @ \cup {n}]
        /\ routes' = IF n = Dst THEN [routes EXCEPT ![r] = Installed(routes[r])] ELSE routes
        /\ next' = [next EXCEPT ![r] = Triggered(r)] /\ events' = events + 1
        /\ UNCHANGED <<updated, channel, losses>>
    BY <1>3 DEF NotifyInterfaceUp
  <2>2. RoutesGood(routes')
    <3>1. CASE n = Dst
      <4>1. Installed(routes[r]) \in Seq(GoodRoute(r))
        BY <1>1, <3>1, NetworkRouteIsGood, AppendProperties DEF Installed, GoodInv
      <4>2. QED
        BY <1>1, <2>1, <3>1, <4>1, OneTable
    <3>2. CASE n # Dst
      BY <2>1, <3>2, SameTable
    <3>3. QED
      BY <3>1, <3>2
  <2>3. up' \in [Router -> SUBSET Net] /\ next' \in [Router -> {"none", "request", "update"}]
    BY <1>1, <2>1, TriggeredType DEF GoodInv
  <2>4. QED
    BY <2>1, <2>2, <2>3, UnchangedIsGood, GoodParts DEF GoodInv
<1>4. QED
  BY <1>2, <1>3 DEF r, n

LEMMA GoodTick == ASSUME GoodInv, Tick PROVE GoodInv'
<1> DEFINE older(r, i) == IF routes[r][i].event = "none" THEN routes[r][i]
                          ELSE [routes[r][i] EXCEPT !.left = @ - 1]
           list(r) == [i \in DOMAIN routes[r] |-> older(r, i)]
<1>1. routes' = [r \in Router |-> list(r)]
  BY DEF Tick
<1>2. ASSUME NEW r \in Router PROVE list(r) \in Seq(GoodRoute(r))
  <2>1. ASSUME NEW i \in 1 .. Len(routes[r]) PROVE older(r, i) \in GoodRoute(r)
    <3>1. routes[r][i] \in GoodRoute(r) /\ i \in DOMAIN routes[r]
      BY GoodRoutes
    <3>2. routes[r][i].event # "none" => routes[r][i].left > 0
      BY <3>1 DEF Tick
    <3>3. QED
      BY <3>1, <3>2, OlderRouteIsGood
  <2> HIDE DEF older
  <2>2. list(r) \in [1 .. Len(routes[r]) -> GoodRoute(r)] /\ Len(routes[r]) \in Nat
    BY <2>1, GoodRoutes
  <2> HIDE DEF list
  <2>3. QED
    BY <2>2, FunctionIsSeq
<1> HIDE DEF list
<1>3. RoutesGood(routes')
  <2>1. \A r \in Router : list(r) \in Seq(GoodRoute(r)) /\ list(r) \in Seq(Route)
    BY <1>2, SeqMonotonic DEF GoodRoute
  <2>2. QED
    BY <1>1, <2>1 DEF RoutesGood
<1>4. UNCHANGED <<up, next, channel, events, losses>> /\ updated' = {}
  BY DEF Tick
<1>5. QED
  BY <1>3, <1>4, UnchangedIsGood, GoodParts DEF GoodInv

LEMMA GoodNext == GoodInv /\ [Next]_vars => GoodInv'
<1> SUFFICES ASSUME GoodInv, [Next]_vars PROVE GoodInv'
  OBVIOUS
<1>1. CASE Timers
  BY <1>1, GoodTimers, GoodEnds DEF Timers
<1>2. CASE Receive
  BY <1>2, GoodReceive DEF Receive
<1>3. CASE \E c \in Channel : Lose(c)
  BY <1>3, GoodReceive
<1>4. CASE \E a \in Flapping : NotifyInterfaceDown(a[1], a[2]) \/ NotifyInterfaceUp(a[1], a[2])
  BY <1>4, GoodInterfaces
<1>5. CASE Tick
  BY <1>5, GoodTick
<1>6. CASE UNCHANGED vars
  BY <1>6 DEF vars, GoodInv
<1>7. QED
  BY <1>1, <1>2, <1>3, <1>4, <1>5, <1>6 DEF Next

LEMMA GoodAlways == Spec => []GoodInv
<1>1. Init => GoodInv
  BY GoodInit
<1>2. GoodInv /\ [Next]_vars => GoodInv'
  BY GoodNext
<1>3. QED
  BY <1>1, <1>2, PTL DEF Spec

(* The messages under way are requests, replies and responses whose        *)
(* metrics are in range.                                                   *)
LEMMA GoodMessages ==
    ASSUME GoodInv, NEW c \in Channel, NEW i \in DOMAIN channel[c]
    PROVE  /\ channel[c][i] \in GoodMessage(c[1])
           /\ channel[c][i].type = "response" =>
                /\ channel[c][i].metrics \in Seq(GoodMetric(c[1]))
                /\ channel[c][i] = Response(channel[c][i].metrics)
<1>1. channel[c] \in Seq(GoodMessage(c[1]))
  BY DEF GoodInv
<1>2. channel[c][i] \in GoodMessage(c[1])
  BY <1>1, SeqIsFunction
<1>3. QED
  BY <1>2 DEF GoodMessage, Request, Reply, Response

(* Every variable stays in its set, in particular every metric between 1   *)
(* and infinity in the tables of Rip::HandleResponses and in what          *)
(* Rip::DoSendRouteUpdate sends.                                           *)
THEOREM TypeCorrect == Spec => []TypeOK
<1>1. GoodInv => TypeOK
  <2> SUFFICES ASSUME GoodInv PROVE TypeOK
    OBVIOUS
  <2>1. ASSUME NEW c \in Channel, NEW i \in 1 .. Len(channel[c]) PROVE IsMessage(channel[c][i])
    <3> DEFINE m == channel[c][i]
    <3>1. i \in DOMAIN channel[c]
      BY <2>1, SeqIsFunction DEF GoodInv
    <3>2. m \in GoodMessage(c[1])
      BY <3>1, GoodMessages
    <3>3. GoodMetric(c[1]) \subseteq 1 .. LinkDown
      BY DEF GoodMetric
    <3>4. CASE m \in {Request, Reply}
      BY <3>4 DEF IsMessage
    <3>5. ASSUME NEW metrics \in Seq(GoodMetric(c[1])), m = Response(metrics)
          PROVE  m = Response(m.metrics) /\ m.metrics \in Seq(1 .. LinkDown)
      <4>1. m.metrics = metrics
        BY <3>5 DEF Response
      <4>2. metrics \in Seq(1 .. LinkDown)
        BY <3>3, SeqMonotonic
      <4> HIDE DEF m
      <4>3. QED
        BY <3>5, <4>1, <4>2
    <3>6. QED
      BY <3>2, <3>4, <3>5 DEF GoodMessage, IsMessage
  <2>2. DOMAIN channel = Channel
    BY DEF GoodInv
  <2>3. QED
    BY <2>1, <2>2 DEF GoodInv, TypeOK
<1>2. QED
  BY <1>1, GoodAlways, PTL

(* No route outlives its timers: InvalidateRoute and Rip::HandleResponses  *)
(* leave every learned or invalid route with a pending event, and the      *)
(* network route of Rip::AddNetworkRouteTo without one.                    *)
THEOREM RoutesExpireCorrect == Spec => []RoutesExpire
<1>1. GoodInv => RoutesExpire
  <2> SUFFICES ASSUME GoodInv, NEW r \in Router, NEW i \in DOMAIN routes[r]
               PROVE  LET route == routes[r][i] IN
                      /\ route.valid /\ route.gateway # Direct => route.event = "invalidate"
                      /\ ~ route.valid => route.event # "none"
                      /\ route.valid /\ route.gateway = Direct => route.event = "none"
    BY DEF RoutesExpire
  <2>1. routes[r][i] \in GoodRoute(r)
    BY GoodRoutes
  <2>2. QED
    BY <2>1 DEF GoodRoute, Expires
<1>2. QED
  BY <1>1, GoodAlways, PTL

(* Whatever is lost, delayed or old, no metric in a table or a response    *)
(* gets below the distance in the whole network.                           *)
THEOREM NeverTooGoodCorrect == Spec => []NeverTooGood
<1>1. GoodInv => NeverTooGood
  <2> SUFFICES ASSUME GoodInv, NEW h \in Bound
               PROVE  /\ \A r \in Router : \A i \in DOMAIN routes[r] : routes[r][i].metric >= h[r]
                      /\ \A c \in Channel : \A i \in DOMAIN channel[c] :
                           channel[c][i].type = "response" =>
                             \A k \in DOMAIN channel[c][i].metrics : channel[c][i].metrics[k] >= h[c[1]]
    BY DEF NeverTooGood
  <2>1. ASSUME NEW r \in Router, NEW i \in DOMAIN routes[r] PROVE routes[r][i].metric >= h[r]
    BY GoodRoutes DEF GoodRoute, GoodMetric
  <2>2. ASSUME NEW c \in Channel, NEW i \in DOMAIN channel[c], channel[c][i].type = "response",
               NEW k \in DOMAIN channel[c][i].metrics
        PROVE  channel[c][i].metrics[k] >= h[c[1]]
    <3> DEFINE metrics == channel[c][i].metrics
    <3>1. metrics \in Seq(GoodMetric(c[1]))
      BY <2>2, GoodMessages
    <3> HIDE DEF metrics
    <3>2. metrics[k] \in GoodMetric(c[1])
      BY <3>1, SeqIsFunction DEF metrics
    <3>3. QED
      BY <3>2 DEF GoodMetric, metrics
  <2>3. QED
    BY <2>1, <2>2
<1>2. QED
  BY <1>1, GoodAlways, PTL

-----------------------------------------------------------------------------
(* The route of a router to its own network.                               *)

LEMMA NetworkRouteIsOwn == IsOwn(NetworkRoute) /\ NetworkRoute \in Route
  BY RipAssumption DEF IsOwn, NetworkRoute, Route

(* An entry of a response, from a neighbour and so with a metric of at     *)
(* least two, changes nothing about it.                                    *)
LEMMA LearnsKeepsOwn ==
    ASSUME NEW route, IsOwn(route), NEW s \in Router, NEW n, NEW metric \in Nat, metric >= 2
    PROVE  Learns(route, metric, s, n) = route
<1>1. s # route.gateway /\ ~ (metric < route.metric) /\ metric # route.metric
  BY RipAssumption DEF IsOwn
<1>2. /\ ~ Better(route, metric, s) /\ ~ TakesOver(route, metric, s)
      /\ ~ Refreshes(route, metric, s) /\ ~ Worse(route, metric, s)
  BY <1>1 DEF Better, TakesOver, Refreshes, Worse
<1>3. QED
  BY <1>2 DEF Learns

LEMMA ReceivedIsTwo ==
    ASSUME CostlyLinks, NEW c \in Channel, NEW metric \in GoodMetric(c[1])
    PROVE  Received(metric, c[3], c[2]) \in Nat /\ Received(metric, c[3], c[2]) >= 2
<1> DEFINE cost == InterfaceMetric[c[3]][c[2]]
<1>1. cost \in Nat /\ cost > 0
  <2>1. c[2] \in Net /\ c[3] \in Router
    BY ChannelType
  <2>2. QED
    BY <2>1, RipAssumption DEF CostlyLinks
<1>2. metric \in Nat /\ metric >= 1 /\ LinkDown \in Nat /\ LinkDown >= 2
  BY RipAssumption DEF GoodMetric
<1>3. Received(metric, c[3], c[2]) = IF metric + cost > LinkDown THEN LinkDown ELSE metric + cost
  BY DEF Received, CappedMetric
<1> HIDE DEF cost
<1>4. QED
  BY <1>1, <1>2, <1>3

LEMMA HandleRtesKeepOwn ==
    ASSUME CostlyLinks, NEW c \in Channel, NEW metrics \in Seq(GoodMetric(c[1])),
           NEW list \in Seq(GoodRoute(c[3])), EndsWithOwn(list)
    PROVE  EndsWithOwn(HandleRtes(list, metrics, c[3], c[1], c[2]).list)
<1> DEFINE S == {table \in Table(c[3]) : EndsWithOwn(table.list)}
<1>1. c[1] \in Router /\ c[2] \in Net /\ c[3] \in Router
  BY ChannelType
<1>2. [list |-> list, changed |-> FALSE] \in S
  BY DEF Table
<1>3. ASSUME NEW p \in S, NEW k \in 1 .. Len(metrics)
      PROVE  HandleRte(p, Received(metrics[k], c[3], c[2]), c[1], c[2]) \in S
  <2> DEFINE m == Received(metrics[k], c[3], c[2])
             new == HandleRte(p, m, c[1], c[2])
             n == Len(p.list)
  <2>1. metrics[k] \in GoodMetric(c[1])
    BY ElementOfSeq
  <2>2. m \in GoodMetric(c[3]) /\ m \in Nat /\ m >= 2
    BY <2>1, ReceivedIsGood, ReceivedIsTwo
  <2>3. p \in Table(c[3]) /\ p.list # << >> /\ IsOwn(p.list[n])
    BY DEF EndsWithOwn
  <2> HIDE DEF m
  <2>4. new \in Table(c[3]) /\ new.list = [i \in 1 .. n |-> Learns(p.list[i], m, c[1], c[2])]
    BY <1>1, <2>2, <2>3, HandleRteIsGood
  <2>5. n \in Nat /\ n # 0
    BY <2>3, SeqIsFunction DEF Table
  <2>6. new.list[n] = p.list[n]
    <3>1. Learns(p.list[n], m, c[1], c[2]) = p.list[n]
      BY <1>1, <2>2, <2>3, LearnsKeepsOwn
    <3> HIDE DEF new, n
    <3>2. QED
      BY <2>4, <2>5, <3>1
  <2>7. Len(new.list) = n /\ new.list # << >>
    <3> DEFINE f == new.list
    <3>1. f \in Seq(GoodRoute(c[3])) /\ DOMAIN f = 1 .. n
      BY <2>4 DEF Table
    <3> HIDE DEF f, n
    <3>2. DOMAIN f = 1 .. Len(f) /\ Len(f) \in Nat /\ (f = << >> <=> Len(f) = 0)
      BY <3>1, SeqIsFunction
    <3>3. Len(f) = n
      BY <3>1, <3>2, <2>5
    <3>4. QED
      BY <2>5, <3>2, <3>3 DEF f
  <2> HIDE DEF new
  <2>8. new \in S
    BY <2>3, <2>4, <2>6, <2>7 DEF EndsWithOwn
  <2>9. QED
    BY <2>8 DEF new, m
<1> HIDE DEF S
<1>4. HandleRtes(list, metrics, c[3], c[1], c[2]) \in S
  BY <1>2, <1>3, HandleRtesIn
<1>5. QED
  BY <1>4 DEF S

(* Only the routes of one router change.                                   *)
LEMMA OneOwn ==
    ASSUME GoodInv, OwnInv, NEW r \in Router, NEW list, routes' = [routes EXCEPT ![r] = list],
           \A s \in Router : s # r => up'[s] = up[s],
           r \in Attached[Dst] /\ Dst \in up'[r] => EndsWithOwn(list)
    PROVE  OwnInv'
<1> SUFFICES ASSUME NEW s \in Attached[Dst], Dst \in up'[s] PROVE EndsWithOwn(routes'[s])
  BY DEF OwnInv
<1>1. s \in Router
  BY RipAssumption
<1>2. CASE s = r
  BY <1>1, <1>2 DEF GoodInv
<1>3. CASE s # r
  BY <1>1, <1>3 DEF GoodInv, OwnInv
<1>4. QED
  BY <1>2, <1>3

LEMMA SameOwn ==
    ASSUME OwnInv, UNCHANGED <<up, routes>>
    PROVE  OwnInv'
  BY DEF OwnInv

(* The entries change, but not the last one.                               *)
LEMMA SameEnd ==
    ASSUME NEW n \in Nat, NEW f, f = [i \in 1 .. n |-> f[i]], n # 0, IsOwn(f[n])
    PROVE  EndsWithOwn(f)
<1>1. f \in Seq({f[i] : i \in 1 .. n}) /\ Len(f) = n
  <2> DEFINE S == {f[i] : i \in 1 .. n}
  <2>1. f \in [1 .. n -> S]
    OBVIOUS
  <2> HIDE DEF S
  <2>2. f \in Seq(S) /\ Len(f) = n
    BY <2>1, FunctionIsSeq
  <2>3. QED
    BY <2>2 DEF S
<1>2. f # << >>
  BY <1>1, SeqIsFunction
<1>3. QED
  BY <1>1, <1>2 DEF EndsWithOwn

LEMMA OwnEntry ==
    ASSUME GoodInv, OwnInv, NEW r \in Attached[Dst], Dst \in up[r]
    PROVE  /\ r \in Router /\ Len(routes[r]) \in Nat /\ Len(routes[r]) # 0
           /\ IsOwn(routes[r][Len(routes[r])]) /\ DOMAIN routes[r] = 1 .. Len(routes[r])
           /\ routes[r][Len(routes[r])] \in Route
<1>1. r \in Router
  BY RipAssumption
<1>2. routes[r] # << >> /\ IsOwn(routes[r][Len(routes[r])])
  BY DEF OwnInv, EndsWithOwn
<1>3. QED
  BY <1>1, <1>2, GoodRoutes, SeqIsFunction

LEMMA OwnSent ==
    ASSUME GoodInv, OwnInv, NEW r \in Router, NEW periodic, DoSendRouteUpdate(r, periodic), UNCHANGED up
    PROVE  OwnInv'
<1> DEFINE list == [i \in DOMAIN routes[r] |-> [routes[r][i] EXCEPT !.changed = FALSE]]
<1>1. routes' = [routes EXCEPT ![r] = list]
  BY DEF DoSendRouteUpdate
<1>2. ASSUME r \in Attached[Dst], Dst \in up[r] PROVE EndsWithOwn(list)
  <2> DEFINE n == Len(routes[r])
  <2>1. n \in Nat /\ n # 0 /\ IsOwn(routes[r][n]) /\ DOMAIN routes[r] = 1 .. n /\ routes[r][n] \in Route
    BY <1>2, OwnEntry
  <2>2. list[n] = [routes[r][n] EXCEPT !.changed = FALSE]
    BY <2>1
  <2>3. IsOwn(list[n])
    <3> DEFINE route == routes[r][n]
               new == [route EXCEPT !.changed = FALSE]
    <3> HIDE DEF route
    <3>1. route \in Route /\ IsOwn(route)
      BY <2>1 DEF route
    <3>2. /\ new.gateway = route.gateway /\ new.interface = route.interface /\ new.metric = route.metric
          /\ new.event = route.event
      BY <3>1 DEF Route
    <3>3. new.valid = route.valid
      BY <3>1 DEF Route
    <3>4. list[n] = new
      BY <2>2 DEF route
    <3> HIDE DEF new, list
    <3>5. QED
      BY <3>1, <3>2, <3>3, <3>4 DEF IsOwn
  <2>4. list = [i \in 1 .. n |-> list[i]]
    BY <2>1
  <2> HIDE DEF list, n
  <2>5. QED
    BY <2>1, <2>3, <2>4, SameEnd
<1> HIDE DEF list
<1>3. QED
  BY <1>1, <1>2, OneOwn

LEMMA OwnEnds ==
    ASSUME GoodInv, OwnInv, NEW r \in Router, NEW i \in DOMAIN routes[r],
           InvalidateTimeout(r, i) \/ DeleteRoute(r, i)
    PROVE  OwnInv'
<1> DEFINE n == Len(routes[r])
<1>1. UNCHANGED up /\ routes[r][i].event # "none"
  BY DEF InvalidateTimeout, DeleteRoute, Due
<1>2. ASSUME r \in Attached[Dst], Dst \in up[r]
      PROVE  n \in Nat /\ n # 0 /\ IsOwn(routes[r][n]) /\ i \in 1 .. n /\ i # n
  BY <1>1, <1>2, OwnEntry DEF IsOwn
<1>3. CASE InvalidateTimeout(r, i)
  <2> DEFINE list == [routes[r] EXCEPT ![i] = InvalidateRoute(routes[r][i])]
  <2>1. routes' = [routes EXCEPT ![r] = list]
    BY <1>3 DEF InvalidateTimeout, GoodInv
  <2>2. ASSUME r \in Attached[Dst], Dst \in up[r] PROVE EndsWithOwn(list)
    <3>1. DOMAIN routes[r] = 1 .. n
      BY <2>2, OwnEntry
    <3>2. list = [j \in 1 .. n |-> list[j]] /\ list[n] = routes[r][n]
      BY <3>1, <2>2, <1>2
    <3> HIDE DEF list, n
    <3>3. QED
      BY <2>2, <1>2, <3>2, SameEnd
  <2> HIDE DEF list
  <2>3. QED
    BY <1>1, <2>1, <2>2, OneOwn
<1>4. CASE DeleteRoute(r, i)
  <2> DEFINE list == RemoveAt(routes[r], i)
  <2>1. routes' = [routes EXCEPT ![r] = list]
    BY <1>4 DEF DeleteRoute
  <2>2. ASSUME r \in Attached[Dst], Dst \in up[r] PROVE EndsWithOwn(list)
    <3> DEFINE before == SubSeq(routes[r], 1, i - 1)
               after == SubSeq(routes[r], i + 1, n)
    <3>1. n \in Nat /\ n # 0 /\ IsOwn(routes[r][n]) /\ i \in 1 .. n /\ i # n
      BY <2>2, <1>2
    <3>2. \A j \in 1 .. n : routes[r][j] \in Route
      BY GoodRoutes
    <3>3. before \in Seq(Route) /\ Len(before) = i - 1
      BY <3>1, <3>2, SubSeqProperties
    <3>4. /\ after \in Seq(Route) /\ Len(after) = n - i
          /\ \A j \in 1 .. n - i : after[j] = routes[r][i + j]
      <4> DEFINE q == routes[r]
      <4>1. \A j \in i + 1 .. n : q[j] \in Route
        BY <3>1, <3>2
      <4>2. i + 1 \in Int /\ n \in Int
        BY <3>1
      <4> HIDE DEF q, n
      <4>3. /\ SubSeq(q, i + 1, n) \in Seq(Route)
            /\ Len(SubSeq(q, i + 1, n)) = IF i + 1 <= n THEN n - (i + 1) + 1 ELSE 0
            /\ \A j \in 1 .. n - (i + 1) + 1 : SubSeq(q, i + 1, n)[j] = q[(i + 1) + j - 1]
        BY <4>1, <4>2, SubSeqProperties
      <4>4. n - (i + 1) + 1 = n - i /\ i + 1 <= n /\ \A j \in 1 .. n - i : (i + 1) + j - 1 = i + j
        BY <3>1
      <4>5. QED
        BY <4>3, <4>4 DEF q
    <3>5. list = before \o after
      BY DEF RemoveAt
    <3> HIDE DEF before, after, n, list
    <3>6. /\ list \in Seq(Route) /\ Len(list) = n - 1
          /\ \A j \in 1 .. n - 1 : list[j] = IF j <= i - 1 THEN before[j] ELSE after[j - (i - 1)]
      <4>1. /\ before \o after \in Seq(Route) /\ Len(before \o after) = Len(before) + Len(after)
            /\ \A j \in 1 .. Len(before) + Len(after) :
                 (before \o after)[j] = IF j <= Len(before) THEN before[j] ELSE after[j - Len(before)]
        BY <3>3, <3>4, ConcatProperties
      <4>2. Len(before) + Len(after) = n - 1
        BY <3>1, <3>3, <3>4
      <4>3. QED
        BY <3>3, <3>5, <4>1, <4>2
    <3>7. list[n - 1] = after[n - i]
      BY <3>1, <3>6
    <3>8. after[n - i] = routes[r][n]
      BY <3>1, <3>4
    <3>9. list # << >>
      BY <3>1, <3>6, SeqIsFunction
    <3>10. QED
      BY <3>1, <3>6, <3>7, <3>8, <3>9 DEF EndsWithOwn
  <2> HIDE DEF list
  <2>3. QED
    BY <1>1, <2>1, <2>2, OneOwn
<1>5. QED
  BY <1>3, <1>4

LEMMA OwnResponse ==
    ASSUME GoodInv, OwnInv, CostlyLinks, NEW c \in Channel, HandleResponse(c)
    PROVE  OwnInv'
<1> DEFINE metrics == Head(channel[c]).metrics
           list == HandleRtes(routes[c[3]], metrics, c[3], c[1], c[2]).list
<1>1. c[3] \in Router
  BY ChannelType
<1>2. /\ channel[c] # << >> /\ Head(channel[c]).type = "response"
      /\ routes' = [routes EXCEPT ![c[3]] = list] /\ UNCHANGED up
  BY DEF HandleResponse, Arrives
<1>3. metrics \in Seq(GoodMetric(c[1]))
  <2>1. Head(channel[c]) \in GoodMessage(c[1])
    BY <1>2, HeadTailProperties DEF GoodInv
  <2>2. QED
    BY <1>2, <2>1 DEF GoodMessage, Request, Reply, Response
<1>4. routes[c[3]] \in Seq(GoodRoute(c[3]))
  BY <1>1 DEF GoodInv
<1> HIDE DEF metrics
<1>5. c[3] \in Attached[Dst] /\ Dst \in up[c[3]] => EndsWithOwn(list)
  BY <1>3, <1>4, HandleRtesKeepOwn DEF OwnInv
<1> HIDE DEF list
<1>6. QED
  BY <1>1, <1>2, <1>5, OneOwn

LEMMA OwnInterfaces ==
    ASSUME GoodInv, OwnInv, NEW a \in Flapping,
           NotifyInterfaceDown(a[1], a[2]) \/ NotifyInterfaceUp(a[1], a[2])
    PROVE  OwnInv'
<1> DEFINE r == a[1]  n == a[2]
<1>1. r \in Router /\ n \in Net /\ r \in Attached[n]
  BY FlappingType
<1> HIDE DEF r, n
<1>2. CASE NotifyInterfaceDown(r, n)
  <2> DEFINE list == [i \in DOMAIN routes[r] |->
                        IF routes[r][i].interface = n THEN InvalidateRoute(routes[r][i]) ELSE routes[r][i]]
  <2>1. up' = [up EXCEPT ![r] = @ \ {n}] /\ routes' = [routes EXCEPT ![r] = list]
    BY <1>2 DEF NotifyInterfaceDown
  <2>2. up'[r] = up[r] \ {n} /\ \A s \in Router : s # r => up'[s] = up[s]
    BY <1>1, <2>1 DEF GoodInv
  <2>3. ASSUME r \in Attached[Dst], Dst \in up'[r] PROVE EndsWithOwn(list)
    <3> DEFINE k == Len(routes[r])
    <3>1. n # Dst /\ Dst \in up[r]
      BY <2>2, <2>3
    <3>2. k \in Nat /\ k # 0 /\ IsOwn(routes[r][k]) /\ DOMAIN routes[r] = 1 .. k
      BY <2>3, <3>1, OwnEntry
    <3>3. list[k] = routes[r][k] /\ list = [i \in 1 .. k |-> list[i]]
      BY <3>1, <3>2 DEF IsOwn
    <3> HIDE DEF list, k
    <3>4. QED
      BY <3>2, <3>3, SameEnd
  <2> HIDE DEF list
  <2>4. QED
    BY <1>1, <2>1, <2>2, <2>3, OneOwn
<1>3. CASE NotifyInterfaceUp(r, n)
  <2>1. /\ up' = [up EXCEPT ![r] = @ \cup {n}]
        /\ routes' = IF n = Dst THEN [routes EXCEPT ![r] = Installed(routes[r])] ELSE routes
    BY <1>3 DEF NotifyInterfaceUp
  <2>2. up'[r] = up[r] \cup {n} /\ \A s \in Router : s # r => up'[s] = up[s]
    BY <1>1, <2>1 DEF GoodInv
  <2>3. CASE n = Dst
    <3> DEFINE list == Installed(routes[r])
               own == NetworkRoute
    <3>1. routes[r] \in Seq(Route)
      BY <1>1 DEF GoodInv
    <3>2. list = Append(routes[r], own)
      BY DEF Installed
    <3>3. IsOwn(own) /\ own \in Route
      BY NetworkRouteIsOwn
    <3> HIDE DEF own, list
    <3>4. list \in Seq(Route) /\ Len(list) = Len(routes[r]) + 1 /\ list[Len(list)] = own
      BY <3>1, <3>2, <3>3
    <3>5. list # << >>
      BY <3>1, <3>4, SeqIsFunction
    <3>6. EndsWithOwn(list)
      BY <3>3, <3>4, <3>5 DEF EndsWithOwn
    <3>7. routes' = [routes EXCEPT ![r] = list]
      BY <2>1, <2>3 DEF list
    <3>8. QED
      BY <1>1, <2>2, <3>6, <3>7, OneOwn
  <2>4. CASE n # Dst
    <3> SUFFICES ASSUME NEW s \in Attached[Dst], Dst \in up'[s] PROVE EndsWithOwn(routes'[s])
      BY DEF OwnInv
    <3>1. s \in Router /\ Dst \in up[s]
      BY <2>2, <2>4, RipAssumption
    <3>2. QED
      BY <2>1, <2>4, <3>1 DEF OwnInv
  <2>5. QED
    BY <2>3, <2>4
<1>4. QED
  BY <1>2, <1>3 DEF r, n

LEMMA OwnTick == ASSUME GoodInv, OwnInv, Tick PROVE OwnInv'
<1> SUFFICES ASSUME NEW r \in Attached[Dst], Dst \in up'[r] PROVE EndsWithOwn(routes'[r])
  BY DEF OwnInv
<1> DEFINE n == Len(routes[r])
<1>1. Dst \in up[r]
  BY DEF Tick
<1>2. r \in Router /\ n \in Nat /\ n # 0 /\ IsOwn(routes[r][n]) /\ DOMAIN routes[r] = 1 .. n
  BY <1>1, OwnEntry
<1>3. routes'[r] = [i \in 1 .. n |-> IF routes[r][i].event = "none" THEN routes[r][i]
                                     ELSE [routes[r][i] EXCEPT !.left = @ - 1]]
  BY <1>2 DEF Tick
<1>4. routes'[r][n] = routes[r][n] /\ routes'[r] = [i \in 1 .. n |-> routes'[r][i]]
  BY <1>2, <1>3 DEF IsOwn
<1> DEFINE f == routes'[r]
<1> HIDE DEF n, f
<1>5. EndsWithOwn(f)
  BY <1>2, <1>4, SameEnd DEF f
<1>6. QED
  BY <1>5 DEF f

LEMMA OwnInit == Init => OwnInv
<1> SUFFICES ASSUME Init, NEW r \in Attached[Dst], Dst \in up[r] PROVE EndsWithOwn(routes[r])
  BY DEF OwnInv
<1> DEFINE own == NetworkRoute
<1>1. r \in Router
  BY RipAssumption
<1>2. routes[r] = <<own>>
  BY <1>1 DEF Init
<1> HIDE DEF own
<1>3. Len(<<own>>) = 1 /\ <<own>>[1] = own /\ <<own>> # << >>
  OBVIOUS
<1>4. QED
  BY <1>2, <1>3, NetworkRouteIsOwn DEF EndsWithOwn, own

LEMMA OwnNext == CostlyLinks /\ GoodInv /\ OwnInv /\ [Next]_vars => OwnInv'
<1> SUFFICES ASSUME CostlyLinks, GoodInv, OwnInv, [Next]_vars PROVE OwnInv'
  OBVIOUS
<1>1. ASSUME NEW r \in Router, SendRouteRequest(r) PROVE OwnInv'
  BY <1>1, SameOwn DEF SendRouteRequest
<1>2. ASSUME NEW r \in Router, SendTriggeredUpdate(r) \/ SendUnsolicitedRouteUpdate(r) PROVE OwnInv'
  BY <1>2, OwnSent DEF SendTriggeredUpdate, SendUnsolicitedRouteUpdate
<1>3. CASE Timers
  BY <1>1, <1>2, <1>3, OwnEnds DEF Timers
<1>4. ASSUME NEW c \in Channel, HandleRequest(c) \/ IgnoreReply(c) \/ DropAtDownInterface(c) \/ Lose(c)
      PROVE  OwnInv'
  BY <1>4, SameOwn DEF HandleRequest, IgnoreReply, DropAtDownInterface, Lose
<1>5. CASE Receive
  BY <1>4, <1>5, OwnResponse DEF Receive
<1>6. CASE \E c \in Channel : Lose(c)
  BY <1>4, <1>6
<1>7. CASE \E a \in Flapping : NotifyInterfaceDown(a[1], a[2]) \/ NotifyInterfaceUp(a[1], a[2])
  BY <1>7, OwnInterfaces
<1>8. CASE Tick
  BY <1>8, OwnTick
<1>9. CASE UNCHANGED vars
  BY <1>9, SameOwn DEF vars
<1>10. QED
  BY <1>3, <1>5, <1>6, <1>7, <1>8, <1>9 DEF Next

(* A router sends directly to a network whose interface is up, although    *)
(* Rip::HandleResponses looks at every route to it and Rip::Lookup takes   *)
(* the last that is valid: the network route is never replaced, it has no  *)
(* event to end it, and Rip::NotifyInterfaceUp appends a new one.          *)
THEOREM DirectFirstCorrect == Spec => []DirectFirst
<1>1. ASSUME GoodInv, CostlyLinks => OwnInv PROVE DirectFirst
  <2> SUFFICES ASSUME CostlyLinks, NEW r \in Attached[Dst], Dst \in up[r]
               PROVE  Lookup(r) # 0 /\ routes[r][Lookup(r)].gateway = Direct
    BY DEF DirectFirst, CostlyLinks
  <2> DEFINE n == Len(routes[r])
  <2>1. r \in Router /\ n \in Nat /\ n # 0 /\ IsOwn(routes[r][n]) /\ DOMAIN routes[r] = 1 .. n
    BY <1>1, OwnEntry
  <2>2. Valid(r) \subseteq 1 .. n /\ n \in Valid(r)
    BY <2>1 DEF Valid, IsOwn
  <2> HIDE DEF n
  <2>3. Max(Valid(r)) = n
    BY <2>1, <2>2, MaxIsLast
  <2>4. Lookup(r) = n
    BY <2>2, <2>3 DEF Lookup
  <2>5. QED
    BY <2>1, <2>4 DEF IsOwn
<1>2. Init => (CostlyLinks => OwnInv)
  BY OwnInit
<1>3. GoodInv /\ (CostlyLinks => OwnInv) /\ [Next]_vars => (CostlyLinks => OwnInv')
  BY OwnNext
<1>4. CostlyLinks' = CostlyLinks
  BY DEF CostlyLinks
<1>5. GoodInv /\ (CostlyLinks => OwnInv) /\ [Next]_vars => (CostlyLinks => OwnInv)'
  BY <1>3, <1>4
<1>6. GoodInv /\ (CostlyLinks => OwnInv) => DirectFirst
  BY <1>1
<1>7. QED
  BY <1>2, <1>5, <1>6, GoodAlways, PTL DEF Spec

=============================================================================
