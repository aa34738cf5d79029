-------------------------- MODULE NdiscCache_proofs --------------------------
(***************************************************************************)
(* Proofs about NdiscCache, for any hosts and packets, any numbers of      *)
(* solicitations, lengths of the list and messages under way.              *)
(*                                                                         *)
(* Every action but Flush changes one entry, so the inductive invariant is *)
(* a predicate of a single entry, EntryOK.                                 *)
(***************************************************************************)
EXTENDS NdiscCache, TLAPS, FiniteSetTheorems, SequenceTheorems

-----------------------------------------------------------------------------
(* The inductive invariant.                                                *)

Item == Packet \cup {Advertisement}

(* The counter of solicitations and the timer agree with each other and    *)
(* with the state, and packets wait in INCOMPLETE and PROBE, or after news *)
(* of the neighbour.                                                       *)
EntryOK(e) ==
    /\ e \in Entry
    /\ e.count <= MAX_MULTICAST_SOLICIT \/ e.count <= MAX_UNICAST_SOLICIT
    /\ e.state = "none" => e = NoEntry
    /\ e.timer = "retransmit" =>
         e.state \in {"INCOMPLETE", "STALE"} /\ e.waiting # << >> /\ e.asked = e.count + 1
    /\ e.timer = "probe" => e.state = "PROBE" /\ e.asked = e.count
    /\ e.state = "INCOMPLETE" => e.timer = "retransmit"
    /\ e.state = "PROBE" => e.timer = "probe" \/ "NA" \in e.heard
    /\ e.waiting # << >> /\ e.heard = {} => e.state \in {"INCOMPLETE", "PROBE"}

NudInv ==
    /\ DOMAIN entry = Pair /\ entry = [x \in Pair |-> entry[x]]
    /\ \A x \in Pair : EntryOK(entry[x])
    /\ net \in [Message -> 0 .. MaxInFlight]
    /\ fate \in [Packet -> {"new", "waiting", "sent", "dropped"}]
    /\ events \in 0 .. MaxEvents

LEMMA ReplacedOK ==
    ASSUME NudInv, NEW x \in Pair, NEW e, EntryOK(e), entry' = [entry EXCEPT ![x] = e]
    PROVE  /\ DOMAIN entry' = Pair /\ entry' = [y \in Pair |-> entry'[y]]
           /\ \A y \in Pair : EntryOK(entry'[y])
  BY DEF NudInv

-----------------------------------------------------------------------------
(* What the operations make of an entry.                                   *)

LEMMA NoEntryOK == EntryOK(NoEntry)
  BY NdiscAssumption DEF EntryOK, NoEntry, Entry

LEMMA AddWaitingType ==
    ASSUME NEW e \in Entry, NEW w \in Item
    PROVE  /\ AddWaitingPacket(e, w) = [e EXCEPT !.waiting = AddWaitingPacket(e, w).waiting]
           /\ AddWaitingPacket(e, w).waiting \in Seq(Item)
           /\ AddWaitingPacket(e, w).waiting # << >>
<1> DEFINE room == IF Len(e.waiting) >= UnresQlen THEN Tail(e.waiting) ELSE e.waiting
<1>1. e.waiting \in Seq(Item)
  BY DEF Entry, Item
<1>2. room \in Seq(Item)
  <2>1. CASE Len(e.waiting) >= UnresQlen
    <3>1. e.waiting # << >>
      BY <2>1, NdiscAssumption
    <3>2. QED
      BY <1>1, <2>1, <3>1, HeadTailProperties
  <2>2. QED
    BY <1>1, <2>1
<1>3. AddWaitingPacket(e, w) = [e EXCEPT !.waiting = Append(room, w)]
  BY DEF AddWaitingPacket
<1> HIDE DEF room
<1>4. Append(room, w) \in Seq(Item) /\ Append(room, w) # << >>
  BY <1>2, AppendProperties
<1>5. QED
  BY <1>3, <1>4 DEF Entry

LEMMA LookedOK ==
    ASSUME NEW e, EntryOK(e), e.state # "none", NEW w \in Item
    PROVE  EntryOK(Looked(e, w))
<1>1. CASE e.state = "STALE"
  <2>1. Looked(e, w) = [e EXCEPT !.timer = "delay", !.state = "DELAY"]
    BY <1>1 DEF Looked, Mark, StartTimer, EntryOK, Entry
  <2>2. QED
    BY <1>1, <2>1 DEF EntryOK, Entry
<1>2. CASE e.state \in {"INCOMPLETE", "PROBE"}
  <2>1. Looked(e, w) = AddWaitingPacket(e, w)
    BY <1>2 DEF Looked
  <2>2. PICK s \in Seq(Item) : s # << >> /\ Looked(e, w) = [e EXCEPT !.waiting = s]
    BY <2>1, AddWaitingType DEF EntryOK
  <2>3. QED
    BY <1>2, <2>2 DEF EntryOK, Entry, Item
<1>3. CASE e.state \notin {"STALE", "INCOMPLETE", "PROBE"}
  BY <1>3 DEF Looked
<1>4. QED
  BY <1>1, <1>2, <1>3

LEMMA ToldOK == ASSUME NEW e, EntryOK(e) PROVE EntryOK(Told(e))
<1>1. CASE e.state = "none"
  BY <1>1 DEF Told, Mark, EntryOK, Entry, NoEntry
<1>2. CASE e.state = "INCOMPLETE"
  BY <1>2 DEF Told, Mark, Hears, EntryOK, Entry
<1>3. CASE e.state \notin {"none", "INCOMPLETE"}
  BY <1>3 DEF Told
<1>4. QED
  BY <1>1, <1>2, <1>3

LEMMA ToldThenLookedOK == ASSUME NEW e, EntryOK(e) PROVE EntryOK(Looked(Told(e), Advertisement))
<1>1. Told(e).state # "none"
  BY DEF Told, Mark, Hears, EntryOK, Entry
<1>2. QED
  BY <1>1, ToldOK, LookedOK DEF Item

LEMMA ConfirmedIs ==
    ASSUME NEW e \in Entry
    PROVE  /\ Confirmed(e) \in Entry /\ Confirmed(e).state = "REACHABLE"
           /\ Confirmed(e).timer = "reachable" /\ Confirmed(e).count = 0
           /\ Confirmed(e).waiting = e.waiting /\ Confirmed(e).heard = e.heard
<1> DEFINE s == StopNudTimer(e)
           m == Mark(s, "REACHABLE")
           t == StartTimer(m, "reachable")
<1>1. s \in Entry /\ s.count = 0 /\ s.waiting = e.waiting /\ s.heard = e.heard
  BY DEF StopNudTimer, Entry
<1> HIDE DEF s
<1>2. /\ m \in Entry /\ m.state = "REACHABLE" /\ m.count = 0
      /\ m.waiting = e.waiting /\ m.heard = e.heard
  BY <1>1 DEF Mark, Entry
<1> HIDE DEF m
<1>3. /\ t \in Entry /\ t.state = "REACHABLE" /\ t.timer = "reachable" /\ t.count = 0
      /\ t.waiting = e.waiting /\ t.heard = e.heard
  BY <1>2 DEF StartTimer, Entry
<1> HIDE DEF t
<1>4. Confirmed(e) = [t EXCEPT !.asked = 0]
  BY DEF Confirmed, t, m, s
<1>5. QED
  BY <1>3, <1>4 DEF Entry

(* A confirmed entry has no packets, or it has kept them after some news.  *)
LEMMA ConfirmedOK ==
    ASSUME NEW e, EntryOK(e)
    PROVE  /\ EntryOK(ClearWaitingPacket(Confirmed(e)))
           /\ EntryOK(Hears(Confirmed(e), "RA"))
           /\ e.state \notin {"INCOMPLETE", "PROBE"} => EntryOK(Confirmed(e))
<1> DEFINE c == Confirmed(e)
           d == ClearWaitingPacket(c)
           h == Hears(c, "RA")
<1>1. /\ c \in Entry /\ c.state = "REACHABLE" /\ c.timer = "reachable" /\ c.count = 0
      /\ c.waiting = e.waiting /\ c.heard = e.heard
  BY ConfirmedIs DEF EntryOK
<1> HIDE DEF c
<1>2. /\ d \in Entry /\ d.state = "REACHABLE" /\ d.timer = "reachable" /\ d.count = 0
      /\ d.waiting = << >>
  <2>1. << >> \in Seq(Packet \cup {Advertisement})
    BY EmptySeq
  <2>2. QED
    BY <1>1, <2>1 DEF ClearWaitingPacket, Entry
<1>3. /\ h \in Entry /\ h.state = "REACHABLE" /\ h.timer = "reachable" /\ h.count = 0
      /\ h.heard # {}
  BY <1>1 DEF Hears, Entry
<1> HIDE DEF d, h
<1>4. EntryOK(d)
  BY <1>2, NdiscAssumption DEF EntryOK
<1>5. EntryOK(h)
  BY <1>3, NdiscAssumption DEF EntryOK
<1>6. ASSUME e.state \notin {"INCOMPLETE", "PROBE"} PROVE EntryOK(c)
  BY <1>1, <1>6, NdiscAssumption DEF EntryOK
<1>7. QED
  BY <1>4, <1>5, <1>6 DEF c, d, h

LEMMA StoppedOK ==
    ASSUME NEW e, EntryOK(e), e.state # "none"
    PROVE  /\ EntryOK(Mark(Hears(StopNudTimer(e), "NA"), "STALE"))
           /\ e.state # "INCOMPLETE" => EntryOK(Hears(StopNudTimer(e), "NA"))
<1> DEFINE h == Hears(StopNudTimer(e), "NA")
           s == Mark(h, "STALE")
<1>1. /\ h \in Entry /\ h.state = e.state /\ h.timer = "off" /\ h.count = 0 /\ "NA" \in h.heard
  BY DEF Hears, StopNudTimer, EntryOK, Entry
<1> HIDE DEF h
<1>2. /\ s \in Entry /\ s.state = "STALE" /\ s.timer = "off" /\ s.count = 0 /\ "NA" \in s.heard
  BY <1>1 DEF Mark, Entry
<1> HIDE DEF s
<1>3. EntryOK(s)
  BY <1>2, NdiscAssumption DEF EntryOK
<1>4. ASSUME e.state # "INCOMPLETE" PROVE EntryOK(h)
  BY <1>1, <1>4, NdiscAssumption DEF EntryOK
<1>5. QED
  BY <1>3, <1>4 DEF h, s

LEMMA ProbingOK ==
    ASSUME NEW e, EntryOK(e), e.state # "none"
    PROVE  EntryOK(Probing(e))
<1> DEFINE p == Probing(e)
<1>1. p \in Entry /\ p.state = "PROBE" /\ p.timer = "probe" /\ p.count = 1 /\ p.asked = 1
  BY DEF Probing, Mark, StartTimer, EntryOK, Entry
<1> HIDE DEF p
<1>2. EntryOK(p)
  BY <1>1, NdiscAssumption DEF EntryOK
<1>3. QED
  BY <1>2 DEF p

LEMMA AskedAgainOK ==
    ASSUME NEW e, EntryOK(e),
           \/ e.timer = "retransmit" /\ ~ Exhausted(e, MAX_MULTICAST_SOLICIT)
           \/ e.timer = "probe" /\ ~ Exhausted(e, MAX_UNICAST_SOLICIT)
    PROVE  EntryOK(Asks(e))
<1> DEFINE a == Asks(e)
<1>1. e \in Entry
  BY DEF EntryOK
<1>2. e.count \in Nat /\ e.asked \in Nat
  BY <1>1 DEF Entry
<1>3. /\ a \in Entry /\ a.state = e.state /\ a.timer = e.timer /\ a.waiting = e.waiting
      /\ a.heard = e.heard /\ a.count = e.count + 1 /\ a.asked = e.asked + 1
  <2>1. a = [e EXCEPT !.count = e.count + 1, !.asked = e.asked + 1]
    BY DEF Asks
  <2>2. e.count + 1 \in Nat /\ e.asked + 1 \in Nat
    BY <1>2
  <2> HIDE DEF a
  <2>3. QED
    BY <1>1, <2>1, <2>2 DEF Entry
<1> HIDE DEF a
<1>4. a.count <= MAX_MULTICAST_SOLICIT \/ a.count <= MAX_UNICAST_SOLICIT
  BY <1>2, <1>3, NdiscAssumption DEF Exhausted
<1>5. e.state # "none"
  <2>1. NoEntry.timer = "off"
    BY DEF NoEntry
  <2>2. QED
    BY <2>1 DEF EntryOK
<1>6. EntryOK(a)
  BY <1>2, <1>3, <1>4, <1>5 DEF EntryOK
<1>7. QED
  BY <1>6 DEF a

-----------------------------------------------------------------------------
(* The network and the fates.                                              *)

LEMMA AddingType ==
    ASSUME NEW network \in [Message -> 0 .. MaxInFlight], NEW m \in Message, NEW k \in Nat
    PROVE  Adding(network, m, k) \in [Message -> 0 .. MaxInFlight]
<1> DEFINE a == network[m] + k
<1>1. a \in Nat /\ MaxInFlight \in Nat
  BY NdiscAssumption
<1>2. Min({a, MaxInFlight}) \in {a, MaxInFlight} /\ Min({a, MaxInFlight}) <= MaxInFlight
  <2>1. \E x \in {a, MaxInFlight} : \A y \in {a, MaxInFlight} : x <= y
    BY <1>1
  <2>2. QED
    BY <2>1 DEF Min
<1>3. Min({a, MaxInFlight}) \in 0 .. MaxInFlight
  BY <1>1, <1>2
<1>4. QED
  BY <1>3 DEF Adding

LEMMA TakingType ==
    ASSUME NudInv, NEW m \in Message, net[m] > 0
    PROVE  Taking(m) \in [Message -> 0 .. MaxInFlight]
  BY NdiscAssumption DEF NudInv, Taking

LEMMA MessageOf ==
    ASSUME NEW x \in Pair, NEW kind \in {"NS", "NA", "unsolicited NA"}
    PROVE  <<kind, x>> \in Message /\ <<kind, <<x[2], x[1]>>>> \in Message
  BY DEF Message, Pair

LEMMA AdvertisementsType ==
    ASSUME NEW s \in Seq(Item)
    PROVE  Advertisements(s) \in Nat
<1>1. Len(s) \in Nat /\ DOMAIN s = 1 .. Len(s)
  BY LenProperties
<1>2. IsFiniteSet(1 .. Len(s))
  BY <1>1, FS_Interval
<1>3. IsFiniteSet({i \in DOMAIN s : s[i] = Advertisement})
  BY <1>1, <1>2, FS_Subset
<1>4. QED
  BY <1>3, FS_CardinalityType DEF Advertisements

LEMMA SettleType ==
    ASSUME NudInv, NEW S, NEW f \in {"new", "waiting", "sent", "dropped"}, Settle(S, f)
    PROVE  fate' \in [Packet -> {"new", "waiting", "sent", "dropped"}]
  BY DEF NudInv, Settle

LEMMA SendWaitingType ==
    ASSUME NudInv, NEW x \in Pair, NEW network \in [Message -> 0 .. MaxInFlight],
           SendWaiting(x, network)
    PROVE  /\ net' \in [Message -> 0 .. MaxInFlight]
           /\ fate' \in [Packet -> {"new", "waiting", "sent", "dropped"}]
<1>1. entry[x].waiting \in Seq(Item)
  BY DEF NudInv, EntryOK, Entry, Item
<1>2. Advertisements(entry[x].waiting) \in Nat
  BY <1>1, AdvertisementsType
<1>3. QED
  BY <1>2, MessageOf, AddingType, SettleType DEF SendWaiting

-----------------------------------------------------------------------------
(* The invariant is inductive.                                             *)

LEMMA SendingStep ==
    ASSUME NudInv, NEW p \in Packet, NEW x \in Pair,
           StartResolution(p, x) \/ SendResolved(p, x) \/ SendLater(p, x)
    PROVE  NudInv'
<1> DEFINE e == entry[x]
<1>1. EntryOK(e) /\ p \in Item
  BY DEF NudInv, Item
<1>2. CASE StartResolution(p, x)
  <2> DEFINE r == [NoEntry EXCEPT !.state = "INCOMPLETE", !.waiting = <<p>>,
                                  !.timer = "retransmit", !.asked = 1]
  <2>1. <<p>> \in Seq(Packet \cup {Advertisement}) /\ <<p>> # << >>
    BY <1>1
  <2>2. /\ r \in Entry /\ r.state = "INCOMPLETE" /\ r.timer = "retransmit" /\ r.count = 0
        /\ r.asked = 1 /\ r.waiting = <<p>>
    BY <2>1 DEF NoEntry, Entry
  <2>3. entry' = [entry EXCEPT ![x] = r]
    BY <1>2 DEF StartResolution
  <2> HIDE DEF r
  <2>4. EntryOK(r)
    BY <2>1, <2>2, NdiscAssumption DEF EntryOK
  <2>5. net' \in [Message -> 0 .. MaxInFlight]
    BY <1>2, MessageOf, AddingType DEF StartResolution, NudInv
  <2>6. fate' \in [Packet -> {"new", "waiting", "sent", "dropped"}]
    BY <1>2, SettleType DEF StartResolution
  <2>7. QED
    BY <1>2, <2>3, <2>4, <2>5, <2>6, ReplacedOK DEF StartResolution, NudInv
<1>3. CASE SendResolved(p, x)
  <2>1. EntryOK(Looked(e, p))
    BY <1>1, <1>3, LookedOK DEF SendResolved, Resolves
  <2>2. entry' = [entry EXCEPT ![x] = Looked(e, p)]
    BY <1>3 DEF SendResolved
  <2>3. fate' \in [Packet -> {"new", "waiting", "sent", "dropped"}]
    BY <1>3, SettleType DEF SendResolved
  <2>4. QED
    BY <1>3, <2>1, <2>2, <2>3, ReplacedOK DEF SendResolved, NudInv
<1>4. CASE SendLater(p, x)
  <2>1. EntryOK(Looked(e, p))
    BY <1>1, <1>4, LookedOK DEF SendLater
  <2>2. entry' = [entry EXCEPT ![x] = Looked(e, p)]
    BY <1>4 DEF SendLater
  <2>3. fate' \in [Packet -> {"new", "waiting", "sent", "dropped"}]
    BY <1>4 DEF SendLater, NudInv
  <2>4. QED
    BY <1>4, <2>1, <2>2, <2>3, ReplacedOK DEF SendLater, NudInv
<1>5. QED
  BY <1>2, <1>3, <1>4

LEMMA RemoveStep ==
    ASSUME NudInv, NEW x \in Pair, RemoveEntry(x), UNCHANGED <<net, events>>
    PROVE  NudInv'
<1>1. entry' = [entry EXCEPT ![x] = NoEntry]
  BY DEF RemoveEntry
<1>2. fate' \in [Packet -> {"new", "waiting", "sent", "dropped"}]
  BY SettleType DEF RemoveEntry
<1>3. QED
  BY <1>1, <1>2, NoEntryOK, ReplacedOK DEF NudInv

LEMMA TimeoutStep ==
    ASSUME NudInv, NEW x \in Pair, Timeout(x)
    PROVE  NudInv'
<1> DEFINE e == entry[x]
<1>1. EntryOK(e) /\ (e.timer # "off" => e.state # "none")
  <2>1. EntryOK(e)
    BY DEF NudInv
  <2>2. NoEntry.timer = "off"
    BY DEF NoEntry
  <2>3. QED
    BY <2>1, <2>2 DEF EntryOK
<1>2. Adding(net, <<"NS", x>>, 1) \in [Message -> 0 .. MaxInFlight]
  BY MessageOf, AddingType DEF NudInv
<1>3. CASE RetransmitTimeout(x)
  <2>1. CASE ~ Exhausted(e, MAX_MULTICAST_SOLICIT)
    <3>1. EntryOK(Asks(e))
      BY <1>1, <1>3, <2>1, AskedAgainOK DEF RetransmitTimeout
    <3>2. /\ entry' = [entry EXCEPT ![x] = Asks(e)]
          /\ net' = Adding(net, <<"NS", x>>, 1) /\ UNCHANGED <<fate, events>>
      BY <1>3, <2>1 DEF RetransmitTimeout
    <3>3. QED
      BY <1>2, <3>1, <3>2, ReplacedOK DEF NudInv
  <2>2. CASE Exhausted(e, MAX_MULTICAST_SOLICIT)
    BY <1>3, <2>2, RemoveStep DEF RetransmitTimeout
  <2>3. QED
    BY <2>1, <2>2
<1>4. CASE ReachableTimeout(x)
  <2> DEFINE r == Mark(StartTimer(e, "off"), "STALE")
  <2>1. r \in Entry /\ r.state = "STALE" /\ r.timer = "off" /\ r.count = e.count /\ r.heard = e.heard
        /\ r.waiting = e.waiting
    BY <1>1 DEF EntryOK, Entry, Mark, StartTimer
  <2>2. e.timer = "reachable"
    BY <1>4 DEF ReachableTimeout
  <2>3. entry' = [entry EXCEPT ![x] = r]
    BY <1>4 DEF ReachableTimeout
  <2> HIDE DEF r
  <2>4. EntryOK(r)
    BY <1>1, <2>1, <2>2 DEF EntryOK
  <2>5. QED
    BY <1>4, <2>3, <2>4, ReplacedOK DEF ReachableTimeout, NudInv
<1>5. CASE DelayTimeout(x)
  <2>1. EntryOK(Probing(e))
    BY <1>1, <1>5, ProbingOK DEF DelayTimeout
  <2>2. /\ entry' = [entry EXCEPT ![x] = Probing(e)]
        /\ net' = Adding(net, <<"NS", x>>, 1) /\ UNCHANGED <<fate, events>>
    BY <1>5 DEF DelayTimeout
  <2>3. QED
    BY <1>2, <2>1, <2>2, ReplacedOK DEF NudInv
<1>6. CASE ProbeTimeout(x)
  <2>1. CASE ~ Exhausted(e, MAX_UNICAST_SOLICIT)
    <3>1. EntryOK(Asks(e))
      BY <1>1, <1>6, <2>1, AskedAgainOK DEF ProbeTimeout
    <3>2. /\ entry' = [entry EXCEPT ![x] = Asks(e)]
          /\ net' = Adding(net, <<"NS", x>>, 1) /\ UNCHANGED <<fate, events>>
      BY <1>6, <2>1 DEF ProbeTimeout
    <3>3. QED
      BY <1>2, <3>1, <3>2, ReplacedOK DEF NudInv
  <2>2. CASE Exhausted(e, MAX_UNICAST_SOLICIT)
    BY <1>6, <2>2, RemoveStep DEF ProbeTimeout
  <2>3. QED
    BY <2>1, <2>2
<1>7. QED
  BY <1>3, <1>4, <1>5, <1>6 DEF Timeout

LEMMA ReceiveStep ==
    ASSUME NudInv, NEW x \in Pair,
           \/ LookupForRedirect(x) \/ HandleNS(x) \/ HandleRSOrRedirection(x)
           \/ HandleRA(x) \/ HandleNA(x) \/ HandleUnsolicitedNA(x)
    PROVE  NudInv'
<1> DEFINE e == entry[x]
<1>1. EntryOK(e) /\ Advertisement \in Item
  BY DEF NudInv, Item
<1>2. events < MaxEvents => events + 1 \in 0 .. MaxEvents
  BY NdiscAssumption DEF NudInv
<1>3. CASE LookupForRedirect(x)
  <2>1. EntryOK(Looked(e, Advertisement))
    BY <1>1, <1>3, LookedOK DEF LookupForRedirect
  <2>2. QED
    BY <1>3, <2>1, ReplacedOK DEF LookupForRedirect, NudInv
<1>4. CASE HandleNS(x)
  <2> DEFINE m == <<"NS", <<x[2], x[1]>>>>
  <2>1. EntryOK(Looked(Told(e), Advertisement))
    BY <1>1, ToldThenLookedOK
  <2>2. entry' = [entry EXCEPT ![x] = Looked(Told(e), Advertisement)]
    BY <1>4 DEF HandleNS
  <2>3. Taking(m) \in [Message -> 0 .. MaxInFlight]
    BY <1>4, MessageOf, TakingType DEF HandleNS
  <2>4. net' \in {Adding(Taking(m), <<"NA", x>>, 1), Taking(m)}
    BY <1>4 DEF HandleNS
  <2>5. net' \in [Message -> 0 .. MaxInFlight]
    <3>1. Adding(Taking(m), <<"NA", x>>, 1) \in [Message -> 0 .. MaxInFlight]
      BY <2>3, MessageOf, AddingType
    <3>2. QED
      BY <2>3, <2>4, <3>1
  <2>6. fate' \in [Packet -> {"new", "waiting", "sent", "dropped"}]
    BY <1>4, SettleType DEF HandleNS
  <2>7. QED
    BY <1>4, <2>1, <2>2, <2>5, <2>6, ReplacedOK DEF HandleNS, NudInv
<1>5. CASE HandleRSOrRedirection(x)
  <2>1. EntryOK(Told(e))
    BY <1>1, ToldOK
  <2>2. QED
    BY <1>2, <1>5, <2>1, ReplacedOK DEF HandleRSOrRedirection, NudInv
<1>6. CASE HandleRA(x)
  <2>1. CASE e.state = "INCOMPLETE"
    <3>1. entry' = [entry EXCEPT ![x] = ClearWaitingPacket(Confirmed(e))] /\ SendWaiting(x, net)
      BY <1>6, <2>1 DEF HandleRA
    <3>2. /\ net' \in [Message -> 0 .. MaxInFlight]
          /\ fate' \in [Packet -> {"new", "waiting", "sent", "dropped"}]
      BY <3>1, SendWaitingType DEF NudInv
    <3>3. EntryOK(ClearWaitingPacket(Confirmed(e)))
      BY <1>1, ConfirmedOK
    <3>4. QED
      BY <1>2, <1>6, <3>1, <3>2, <3>3, ReplacedOK DEF HandleRA, NudInv
  <2>2. CASE e.state = "none"
    <3>1. EntryOK(Confirmed(e))
      BY <1>1, <2>2, ConfirmedOK
    <3>2. QED
      BY <1>2, <1>6, <2>2, <3>1, ReplacedOK DEF HandleRA, NudInv
  <2>3. CASE e.state \notin {"none", "INCOMPLETE"}
    <3>1. EntryOK(Hears(Confirmed(e), "RA"))
      BY <1>1, ConfirmedOK
    <3>2. QED
      BY <1>2, <1>6, <2>3, <3>1, ReplacedOK DEF HandleRA, NudInv
  <2>4. QED
    BY <2>1, <2>2, <2>3
<1>7. CASE HandleNA(x)
  <2> DEFINE m == <<"NA", <<x[2], x[1]>>>>
  <2>1. Taking(m) \in [Message -> 0 .. MaxInFlight]
    BY <1>7, MessageOf, TakingType DEF HandleNA
  <2>2. CASE Answers(e)
    <3>1. /\ entry' = [entry EXCEPT ![x] = ClearWaitingPacket(Confirmed(e))]
          /\ SendWaiting(x, Taking(m)) /\ UNCHANGED events
      BY <1>7, <2>2 DEF HandleNA
    <3>2. /\ net' \in [Message -> 0 .. MaxInFlight]
          /\ fate' \in [Packet -> {"new", "waiting", "sent", "dropped"}]
      BY <2>1, <3>1, SendWaitingType
    <3>3. EntryOK(ClearWaitingPacket(Confirmed(e)))
      BY <1>1, ConfirmedOK
    <3>4. QED
      BY <3>1, <3>2, <3>3, ReplacedOK DEF NudInv
  <2>3. CASE ~ Answers(e)
    <3>1. net' = Taking(m) /\ UNCHANGED <<fate, events>>
      BY <1>7, <2>3 DEF HandleNA
    <3>2. CASE e.state = "none"
      <4>1. UNCHANGED entry
        BY <1>7, <2>3, <3>2 DEF HandleNA
      <4>2. QED
        BY <2>1, <3>1, <4>1 DEF NudInv
    <3>3. CASE e.state # "none"
      <4>1. EntryOK(Confirmed(e))
        BY <1>1, <2>3, ConfirmedOK DEF Answers
      <4>2. entry' = [entry EXCEPT ![x] = Confirmed(e)]
        BY <1>7, <2>3, <3>3 DEF HandleNA
      <4>3. QED
        BY <2>1, <3>1, <4>1, <4>2, ReplacedOK DEF NudInv
    <3>4. QED
      BY <3>2, <3>3
  <2>4. QED
    BY <2>2, <2>3
<1>8. CASE HandleUnsolicitedNA(x)
  <2> DEFINE m == <<"unsolicited NA", <<x[2], x[1]>>>>
             h == Hears(StopNudTimer(e), "NA")
  <2>1. Taking(m) \in [Message -> 0 .. MaxInFlight]
    BY <1>8, MessageOf, TakingType DEF HandleUnsolicitedNA
  <2>2. net' = Taking(m) /\ UNCHANGED <<fate, events>>
    BY <1>8 DEF HandleUnsolicitedNA
  <2>3. CASE e.state = "none"
    <3>1. UNCHANGED entry
      BY <1>8, <2>3 DEF HandleUnsolicitedNA
    <3>2. QED
      BY <2>1, <2>2, <3>1 DEF NudInv
  <2>4. CASE e.state = "INCOMPLETE"
    <3>1. EntryOK(Mark(h, "STALE"))
      BY <1>1, <2>4, StoppedOK
    <3>2. entry' = [entry EXCEPT ![x] = Mark(h, "STALE")]
      BY <1>8, <2>4 DEF HandleUnsolicitedNA
    <3>3. QED
      BY <2>1, <2>2, <3>1, <3>2, ReplacedOK DEF NudInv
  <2>5. CASE e.state \notin {"none", "INCOMPLETE"}
    <3>1. EntryOK(h)
      BY <1>1, <2>5, StoppedOK
    <3>2. entry' = [entry EXCEPT ![x] = h]
      BY <1>8, <2>5 DEF HandleUnsolicitedNA
    <3>3. QED
      BY <2>1, <2>2, <3>1, <3>2, ReplacedOK DEF NudInv
  <2>6. QED
    BY <2>3, <2>4, <2>5
<1>9. QED
  BY <1>3, <1>4, <1>5, <1>6, <1>7, <1>8

LEMMA OtherStep ==
    ASSUME NudInv,
           \/ \E n \in Host : HandleDadProbe(n) \/ Flush(n)
           \/ \E m \in Message : Lose(m)
    PROVE  NudInv'
<1>1. events < MaxEvents => events + 1 \in 0 .. MaxEvents
  BY NdiscAssumption DEF NudInv
<1>2. ASSUME NEW n \in Host, HandleDadProbe(n) PROVE NudInv'
  <2>1. ASSUME NEW m \in Message PROVE Min({net[m] + 1, MaxInFlight}) \in 0 .. MaxInFlight
    <3>1. Adding(net, m, 1) \in [Message -> 0 .. MaxInFlight]
      BY AddingType DEF NudInv
    <3>2. QED
      BY <3>1 DEF Adding, NudInv
  <2>2. net' \in [Message -> 0 .. MaxInFlight]
    BY <1>2, <2>1 DEF HandleDadProbe, NudInv
  <2>3. QED
    BY <1>1, <1>2, <2>2 DEF HandleDadProbe, NudInv
<1>3. ASSUME NEW n \in Host, Flush(n) PROVE NudInv'
  <2>1. /\ DOMAIN entry' = Pair /\ entry' = [x \in Pair |-> entry'[x]]
        /\ \A x \in Pair : EntryOK(entry'[x])
    BY <1>3, NoEntryOK DEF Flush, NudInv
  <2>2. fate' \in [Packet -> {"new", "waiting", "sent", "dropped"}]
    BY <1>3, SettleType DEF Flush
  <2>3. QED
    BY <1>1, <1>3, <2>1, <2>2 DEF Flush, NudInv
<1>4. ASSUME NEW m \in Message, Lose(m) PROVE NudInv'
  BY <1>4, TakingType DEF Lose, NudInv
<1>5. QED
  BY <1>2, <1>3, <1>4

LEMMA NudStep == NudInv /\ [Next]_vars => NudInv'
<1> SUFFICES ASSUME NudInv, [Next]_vars PROVE NudInv'
  OBVIOUS
<1>1. CASE Next
  BY <1>1, SendingStep, TimeoutStep, ReceiveStep, OtherStep DEF Next
<1>2. CASE UNCHANGED vars
  BY <1>2 DEF vars, NudInv
<1>3. QED
  BY <1>1, <1>2

LEMMA NudCorrect == Spec => []NudInv
<1>1. Init => NudInv
  BY NoEntryOK, NdiscAssumption DEF Init, NudInv
<1>2. QED
  BY <1>1, NudStep, PTL DEF Spec

(* The type invariant, for any numbers of hosts, packets and messages: no  *)
(* counter of solicitations runs past its limit.                           *)
THEOREM TypeCorrect == Spec => []TypeOK
<1>1. NudInv => TypeOK
  BY DEF NudInv, EntryOK, TypeOK
<1>2. QED
  BY <1>1, NudCorrect, PTL

(* FunctionRetransmitTimeout always finds a packet at the front of         *)
(* m_waiting, whatever messages came since the timer was started.          *)
THEOREM RetransmitFindsPacket == Spec => []RetransmitHasPacket
<1>1. NudInv => RetransmitHasPacket
  BY DEF NudInv, EntryOK, RetransmitHasPacket
<1>2. QED
  BY <1>1, NudCorrect, PTL

(* Packets wait without a question being asked only after news of the      *)
(* neighbour that was no answer.                                           *)
THEOREM StrandedByNews == Spec => []OnlyNewsStrandsPackets
<1>1. NudInv => OnlyNewsStrandsPackets
  BY DEF NudInv, EntryOK, OnlyNewsStrandsPackets
<1>2. QED
  BY <1>1, NudCorrect, PTL

LEMMA GivenUpStep ==
    ASSUME NudInv, NEW x \in Pair, Timeout(x), entry'[x].state = "none"
    PROVE  entry[x].asked >= IF entry[x].state = "PROBE" THEN MAX_UNICAST_SOLICIT
                             ELSE MAX_MULTICAST_SOLICIT + 1
<1> DEFINE e == entry[x]
<1>1. EntryOK(e) /\ x \in DOMAIN entry
  BY DEF NudInv
<1>2. e \in Entry /\ e.count \in Nat /\ e.asked \in Nat
  BY <1>1 DEF EntryOK, Entry
<1>3. ASSUME NEW m, \/ e.timer = "retransmit" /\ m = MAX_MULTICAST_SOLICIT
                    \/ e.timer = "probe" /\ m = MAX_UNICAST_SOLICIT
      PROVE  ~ Exhausted(e, m) => entry' # [entry EXCEPT ![x] = Asks(e)]
  <2>1. EntryOK(e) /\ e.state # "none"
    <3>1. NoEntry.timer = "off"
      BY DEF NoEntry
    <3>2. QED
      BY <1>1, <1>3, <3>1 DEF EntryOK
  <2>2. Asks(e).state = e.state
    BY <1>2 DEF Asks, Entry
  <2>3. QED
    BY <1>1, <2>1, <2>2
<1>4. CASE RetransmitTimeout(x)
  <2>1. Exhausted(e, MAX_MULTICAST_SOLICIT)
    BY <1>3, <1>4 DEF RetransmitTimeout
  <2>2. QED
    BY <1>1, <1>2, <1>4, <2>1, NdiscAssumption DEF RetransmitTimeout, Exhausted, EntryOK
<1>5. CASE ReachableTimeout(x)
  <2>1. entry'[x].state = "STALE"
    BY <1>1, <1>2, <1>5 DEF ReachableTimeout, Mark, StartTimer, Entry
  <2>2. QED
    BY <2>1
<1>6. CASE DelayTimeout(x)
  <2>1. Probing(e).state = "PROBE"
    BY <1>2 DEF Probing, Mark, StartTimer, Entry
  <2>2. entry'[x].state = "PROBE"
    BY <1>1, <1>6, <2>1 DEF DelayTimeout
  <2>3. QED
    BY <2>2
<1>7. CASE ProbeTimeout(x)
  <2>1. Exhausted(e, MAX_UNICAST_SOLICIT)
    BY <1>3, <1>7 DEF ProbeTimeout
  <2>2. QED
    BY <1>1, <1>2, <1>7, <2>1, NdiscAssumption DEF ProbeTimeout, Exhausted, EntryOK
<1>8. QED
  BY <1>4, <1>5, <1>6, <1>7 DEF Timeout

(* A timer gives a neighbour up only after the full number of              *)
(* solicitations, however often it was probed before and whatever else     *)
(* was heard of it.                                                        *)
THEOREM GivenUpLate == Spec => GivenUpOnlyAfterSolicits
<1>1. NudInv /\ [Next]_vars =>
        [\A x \in Pair : Timeout(x) /\ entry'[x].state = "none" =>
           entry[x].asked >= IF entry[x].state = "PROBE" THEN MAX_UNICAST_SOLICIT
                             ELSE MAX_MULTICAST_SOLICIT + 1]_vars
  BY GivenUpStep
<1>2. QED
  BY <1>1, NudCorrect, PTL DEF Spec, GivenUpOnlyAfterSolicits

-----------------------------------------------------------------------------
(* Where packets are.                                                      *)

(* The places of q in a list.                                              *)
At(s, q) == {i \in DOMAIN s : s[i] = q}

Single(S) == \E i \in S : S = {i}

LEMMA AppendAt ==
    ASSUME NEW s \in Seq(Item), NEW w \in Item, NEW q
    PROVE  At(Append(s, w), q) = At(s, q) \cup (IF w = q THEN {Len(s) + 1} ELSE {})
<1> DEFINE t == Append(s, w)
<1>1. /\ Len(s) \in Nat /\ DOMAIN s = 1 .. Len(s)
      /\ t \in Seq(Item) /\ Len(t) = Len(s) + 1
      /\ \A i \in 1 .. Len(s) : t[i] = s[i]
      /\ t[Len(s) + 1] = w
  BY LenProperties, AppendProperties
<1>2. DOMAIN t = 1 .. Len(s) + 1
  BY <1>1, LenProperties
<1> HIDE DEF t
<1>3. ASSUME NEW i PROVE i \in DOMAIN t <=> i \in DOMAIN s \/ i = Len(s) + 1
  BY <1>1, <1>2
<1>4. ~ Len(s) + 1 \in DOMAIN s
  BY <1>1
<1>5. QED
  BY <1>1, <1>3, <1>4 DEF At, t

LEMMA TailAt ==
    ASSUME NEW s \in Seq(Item), s # << >>, NEW q
    PROVE  /\ \A i \in At(Tail(s), q) : i + 1 \in At(s, q)
           /\ \A i \in At(s, q) : i # 1 => i - 1 \in At(Tail(s), q)
           /\ \A i \in At(Tail(s), q) \cup At(s, q) : i \in Nat
<1>1. /\ Len(s) \in Nat /\ DOMAIN s = 1 .. Len(s)
      /\ Tail(s) \in Seq(Item) /\ Len(Tail(s)) = Len(s) - 1
      /\ \A i \in 1 .. Len(Tail(s)) : Tail(s)[i] = s[i + 1]
  BY LenProperties, HeadTailProperties
<1>2. DOMAIN Tail(s) = 1 .. Len(s) - 1
  BY <1>1, LenProperties
<1>3. QED
  BY <1>1, <1>2 DEF At

LEMMA AddAt ==
    ASSUME NEW e \in Entry, NEW w \in Item, NEW q
    PROVE  LET t == AddWaitingPacket(e, w).waiting IN
           /\ At(e.waiting, q) = {} => IF w = q THEN Single(At(t, q)) ELSE At(t, q) = {}
           /\ w # q /\ Single(At(e.waiting, q)) => At(t, q) = {} \/ Single(At(t, q))
<1> DEFINE s == e.waiting
           room == IF Len(s) >= UnresQlen THEN Tail(s) ELSE s
           t == AddWaitingPacket(e, w).waiting
<1>1. s \in Seq(Item) /\ Len(s) \in Nat
  BY DEF Entry, Item
<1>2. t = Append(room, w)
  BY DEF AddWaitingPacket, Entry
<1>3. /\ room \in Seq(Item)
      /\ At(s, q) = {} => At(room, q) = {}
      /\ Single(At(s, q)) => At(room, q) = {} \/ Single(At(room, q))
  <2>1. CASE Len(s) >= UnresQlen
    <3>1. s # << >>
      BY <2>1, NdiscAssumption
    <3>2. Tail(s) \in Seq(Item) /\ room = Tail(s)
      BY <1>1, <2>1, <3>1, HeadTailProperties
    <3>3. /\ \A i \in At(Tail(s), q) : i + 1 \in At(s, q)
          /\ \A i \in At(s, q) : i # 1 => i - 1 \in At(Tail(s), q)
          /\ \A i \in At(Tail(s), q) \cup At(s, q) : i \in Nat
      BY <1>1, <3>1, TailAt
    <3>4. At(s, q) = {} => At(Tail(s), q) = {}
      BY <3>3
    <3>5. ASSUME Single(At(s, q)), At(Tail(s), q) # {} PROVE Single(At(Tail(s), q))
      <4>1. PICK i : At(s, q) = {i}
        BY <3>5 DEF Single
      <4>2. PICK j : j \in At(Tail(s), q)
        BY <3>5
      <4>3. ASSUME NEW k \in At(Tail(s), q) PROVE k = i - 1
        BY <3>3, <4>1
      <4>4. At(Tail(s), q) = {j}
        BY <4>2, <4>3
      <4>5. QED
        BY <4>4 DEF Single
    <3>6. QED
      BY <3>2, <3>4, <3>5
  <2>2. CASE ~ Len(s) >= UnresQlen
    BY <1>1, <2>2
  <2>3. QED
    BY <2>1, <2>2
<1> HIDE DEF room, t
<1>4. At(t, q) = At(room, q) \cup (IF w = q THEN {Len(room) + 1} ELSE {})
  BY <1>2, <1>3, AppendAt
<1>5. QED
  BY <1>3, <1>4 DEF Single, t

LEMMA PacketsAt ==
    ASSUME NEW s, NEW q \in Packet
    PROVE  q \in Packets(s) <=> At(s, q) # {}
  BY DEF Packets, Range, At

(* p is where it should be in the list of the pair x.                      *)
Placed(p, x, list, f) ==
    IF f = "waiting" /\ x = <<From[p], To[p]>> THEN Single(At(list, p)) ELSE At(list, p) = {}

LEMMA ConservedIsPlaced ==
    PacketsConserved <=> \A p \in Packet, x \in Pair : Placed(p, x, entry[x].waiting, fate[p])
  BY DEF PacketsConserved, Placed, Single, At

LEMMA ConservedIsPlacedNext ==
    PacketsConserved' <=> \A p \in Packet, x \in Pair : Placed(p, x, entry'[x].waiting, fate'[p])
  BY DEF PacketsConserved, Placed, Single, At

(* One list changes, and only packets that belong there begin or cease to  *)
(* wait.                                                                   *)
LEMMA ListChanged ==
    ASSUME NudInv, PacketsConserved, NEW x \in Pair, NEW e,
           entry' = [entry EXCEPT ![x] = e],
           \A p \in Packet : /\ Placed(p, x, e.waiting, fate'[p])
                             /\ x # <<From[p], To[p]>> =>
                                  (fate'[p] = "waiting" <=> fate[p] = "waiting")
    PROVE  PacketsConserved'
<1>1. ASSUME NEW p \in Packet, NEW y \in Pair PROVE Placed(p, y, entry'[y].waiting, fate'[p])
  <2>1. CASE y = x
    BY <2>1 DEF NudInv
  <2>2. CASE y # x
    <3>1. entry'[y] = entry[y]
      BY <2>2 DEF NudInv
    <3>2. Placed(p, y, entry[y].waiting, fate[p])
      BY ConservedIsPlaced
    <3>3. x # <<From[p], To[p]>> => (fate'[p] = "waiting" <=> fate[p] = "waiting")
      OBVIOUS
    <3>4. CASE y = <<From[p], To[p]>>
      BY <2>2, <3>1, <3>2, <3>3, <3>4 DEF Placed
    <3>5. CASE y # <<From[p], To[p]>>
      BY <3>1, <3>2, <3>5 DEF Placed
    <3>6. QED
      BY <3>4, <3>5
  <2>3. QED
    BY <2>1, <2>2
<1>2. QED
  BY <1>1, ConservedIsPlacedNext

(* The list stays, and no packet begins or ceases to wait.                 *)
LEMMA ListKept ==
    ASSUME NudInv, PacketsConserved, NEW x \in Pair, NEW e,
           entry' = [entry EXCEPT ![x] = e], e.waiting = entry[x].waiting,
           \A p \in Packet : fate'[p] = "waiting" <=> fate[p] = "waiting"
    PROVE  PacketsConserved'
<1>1. ASSUME NEW p \in Packet PROVE Placed(p, x, e.waiting, fate'[p])
  BY ConservedIsPlaced DEF Placed
<1>2. QED
  BY <1>1, ListChanged

(* The list is emptied, and its packets are accounted for.                 *)
LEMMA ListEmptied ==
    ASSUME NudInv, PacketsConserved, NEW x \in Pair, NEW e,
           entry' = [entry EXCEPT ![x] = e], e.waiting = << >>,
           NEW f \in {"sent", "dropped"}, Settle(Packets(entry[x].waiting), f)
    PROVE  PacketsConserved'
<1>1. ASSUME NEW p \in Packet
      PROVE  /\ Placed(p, x, e.waiting, fate'[p])
             /\ x # <<From[p], To[p]>> => (fate'[p] = "waiting" <=> fate[p] = "waiting")
  <2>1. Placed(p, x, entry[x].waiting, fate[p])
    BY ConservedIsPlaced
  <2>2. p \in Packets(entry[x].waiting) <=> At(entry[x].waiting, p) # {}
    BY PacketsAt
  <2>3. fate'[p] = IF p \in Packets(entry[x].waiting) THEN f ELSE fate[p]
    BY DEF Settle
  <2>4. At(e.waiting, p) = {}
    BY DEF At
  <2>5. QED
    BY <2>1, <2>2, <2>3, <2>4 DEF Placed, Single
<1>2. QED
  BY <1>1, ListChanged

(* w is added to the list, and what is pushed out is dropped.              *)
LEMMA ListAdded ==
    ASSUME NudInv, PacketsConserved, NEW x \in Pair, NEW e, NEW w \in Item,
           entry' = [entry EXCEPT ![x] = e],
           e.waiting = AddWaitingPacket(entry[x], w).waiting,
           w \in Packet => fate[w] = "new" /\ x = <<From[w], To[w]>>,
           \A p \in Packet : fate'[p] =
             IF p = w THEN "waiting"
             ELSE IF p \in Packets(entry[x].waiting) \ Packets(e.waiting) THEN "dropped"
             ELSE fate[p]
    PROVE  PacketsConserved'
<1> DEFINE s == entry[x].waiting
           t == e.waiting
<1>1. entry[x] \in Entry
  BY DEF NudInv, EntryOK
<1>2. ASSUME NEW p \in Packet
      PROVE  /\ Placed(p, x, t, fate'[p])
             /\ x # <<From[p], To[p]>> => (fate'[p] = "waiting" <=> fate[p] = "waiting")
  <2>1. Placed(p, x, s, fate[p])
    BY ConservedIsPlaced
  <2>2. /\ p \in Packets(s) <=> At(s, p) # {}
        /\ p \in Packets(t) <=> At(t, p) # {}
    BY PacketsAt
  <2>3. /\ At(s, p) = {} => IF w = p THEN Single(At(t, p)) ELSE At(t, p) = {}
        /\ w # p /\ Single(At(s, p)) => At(t, p) = {} \/ Single(At(t, p))
    BY <1>1, AddAt
  <2>4. fate'[p] = IF p = w THEN "waiting"
                   ELSE IF p \in Packets(s) \ Packets(t) THEN "dropped" ELSE fate[p]
    OBVIOUS
  <2> HIDE DEF s, t
  <2>5. CASE p = w
    BY <2>1, <2>3, <2>4, <2>5 DEF Placed
  <2>6. CASE p # w /\ At(s, p) = {}
    BY <2>1, <2>2, <2>3, <2>4, <2>6 DEF Placed, Single
  <2>7. CASE p # w /\ At(s, p) # {}
    BY <2>1, <2>2, <2>3, <2>4, <2>7 DEF Placed, Single
  <2>8. QED
    BY <2>5, <2>6, <2>7
<1>3. QED
  BY <1>2, ListChanged

-----------------------------------------------------------------------------
(* No packet is lost without account.                                      *)

LEMMA LookedWaiting ==
    ASSUME NEW e \in Entry, NEW w \in Item
    PROVE  /\ e.state \notin {"INCOMPLETE", "PROBE"} => Looked(e, w).waiting = e.waiting
           /\ e.state \in {"INCOMPLETE", "PROBE"} => Looked(e, w) = AddWaitingPacket(e, w)
<1>1. CASE e.state = "STALE"
  BY <1>1 DEF Looked, Mark, StartTimer, Entry
<1>2. CASE e.state # "STALE"
  BY <1>2 DEF Looked
<1>3. QED
  BY <1>1, <1>2

LEMMA ToldWaiting ==
    ASSUME NEW e \in Entry
    PROVE  /\ Told(e) \in Entry /\ Told(e).waiting = e.waiting
           /\ Told(e).state \in {"INCOMPLETE", "PROBE"} => Told(e) = e
  BY DEF Told, Mark, Hears, Entry

LEMMA SendingConserves ==
    ASSUME NudInv, PacketsConserved, NEW p \in Packet, NEW x \in Pair,
           StartResolution(p, x) \/ SendResolved(p, x) \/ SendLater(p, x)
    PROVE  PacketsConserved'
<1> DEFINE e == entry[x]
<1>1. e \in Entry /\ EntryOK(e) /\ p \in Item /\ x = <<From[p], To[p]>> /\ fate[p] = "new"
  BY DEF NudInv, EntryOK, Item, StartResolution, SendResolved, SendLater, Sends
<1>2. CASE StartResolution(p, x)
  <2> DEFINE r == [NoEntry EXCEPT !.state = "INCOMPLETE", !.waiting = <<p>>,
                                  !.timer = "retransmit", !.asked = 1]
  <2>1. e.waiting = << >>
    BY <1>1, <1>2 DEF StartResolution, EntryOK, NoEntry
  <2>2. r.waiting = <<p>>
    BY DEF NoEntry
  <2>3. entry' = [entry EXCEPT ![x] = r]
    BY <1>2 DEF StartResolution
  <2> HIDE DEF r
  <2>4. ASSUME NEW q \in Packet
        PROVE  /\ Placed(q, x, r.waiting, fate'[q])
               /\ x # <<From[q], To[q]>> => (fate'[q] = "waiting" <=> fate[q] = "waiting")
    <3>1. Placed(q, x, e.waiting, fate[q]) /\ At(e.waiting, q) = {}
      BY <2>1, ConservedIsPlaced DEF At
    <3>2. fate'[q] = IF q = p THEN "waiting" ELSE fate[q]
      BY <1>2 DEF StartResolution, Settle
    <3>3. DOMAIN r.waiting = {1} /\ r.waiting[1] = p
      BY <2>2
    <3>4. At(r.waiting, q) = IF q = p THEN {1} ELSE {}
      BY <3>3 DEF At
    <3>5. QED
      BY <1>1, <3>1, <3>2, <3>4 DEF Placed, Single
  <2>5. QED
    BY <2>3, <2>4, ListChanged
<1>3. CASE SendResolved(p, x)
  <2>1. Looked(e, p).waiting = e.waiting
    BY <1>1, <1>3, LookedWaiting DEF SendResolved, Resolves
  <2>2. entry' = [entry EXCEPT ![x] = Looked(e, p)]
    BY <1>3 DEF SendResolved
  <2>3. ASSUME NEW q \in Packet PROVE fate'[q] = "waiting" <=> fate[q] = "waiting"
    BY <1>1, <1>3 DEF SendResolved, Settle
  <2>4. QED
    BY <2>1, <2>2, <2>3, ListKept
<1>4. CASE SendLater(p, x)
  <2> DEFINE a == Looked(e, p)
  <2>1. a = AddWaitingPacket(e, p)
    BY <1>1, <1>4, LookedWaiting DEF SendLater
  <2>2. entry' = [entry EXCEPT ![x] = a] /\ entry'[x] = a
    BY <1>4 DEF SendLater, NudInv
  <2>3. ASSUME NEW q \in Packet
        PROVE  fate'[q] = IF q = p THEN "waiting"
                          ELSE IF q \in Packets(e.waiting) \ Packets(a.waiting) THEN "dropped"
                          ELSE fate[q]
    BY <1>4, <2>2 DEF SendLater
  <2>4. a.waiting = AddWaitingPacket(entry[x], p).waiting
    BY <2>1
  <2> HIDE DEF a
  <2>5. \A q \in Packet :
          fate'[q] = IF q = p THEN "waiting"
                     ELSE IF q \in Packets(entry[x].waiting) \ Packets(a.waiting) THEN "dropped"
                     ELSE fate[q]
    BY <2>3
  <2>6. QED
    BY <1>1, <2>2, <2>4, <2>5, ListAdded, ZenonT(60)
<1>5. QED
  BY <1>2, <1>3, <1>4

LEMMA TimeoutConserves ==
    ASSUME NudInv, PacketsConserved, NEW x \in Pair, Timeout(x)
    PROVE  PacketsConserved'
<1> DEFINE e == entry[x]
<1>1. e \in Entry
  BY DEF NudInv, EntryOK
<1>2. CASE RemoveEntry(x)
  <2>1. NoEntry.waiting = << >>
    BY DEF NoEntry
  <2>2. QED
    BY <1>2, <2>1, ListEmptied DEF RemoveEntry
<1>3. ASSUME ~ RemoveEntry(x)
      PROVE  /\ \E r : entry' = [entry EXCEPT ![x] = r] /\ r.waiting = e.waiting
             /\ fate' = fate
  <2>1. CASE RetransmitTimeout(x) \/ ProbeTimeout(x)
    <3>1. entry' = [entry EXCEPT ![x] = Asks(e)] /\ fate' = fate
      BY <1>3, <2>1 DEF RetransmitTimeout, ProbeTimeout
    <3>2. Asks(e).waiting = e.waiting
      BY <1>1 DEF Asks, Entry
    <3>3. QED
      BY <3>1, <3>2
  <2>2. CASE ReachableTimeout(x)
    <3>1. entry' = [entry EXCEPT ![x] = Mark(StartTimer(e, "off"), "STALE")] /\ fate' = fate
      BY <2>2 DEF ReachableTimeout
    <3>2. Mark(StartTimer(e, "off"), "STALE").waiting = e.waiting
      BY <1>1 DEF Mark, StartTimer, Entry
    <3>3. QED
      BY <3>1, <3>2
  <2>3. CASE DelayTimeout(x)
    <3>1. entry' = [entry EXCEPT ![x] = Probing(e)] /\ fate' = fate
      BY <2>3 DEF DelayTimeout
    <3>2. Probing(e).waiting = e.waiting
      BY <1>1 DEF Probing, Mark, StartTimer, Entry
    <3>3. QED
      BY <3>1, <3>2
  <2>4. QED
    BY <2>1, <2>2, <2>3 DEF Timeout
<1>4. QED
  BY <1>2, <1>3, ListKept

LEMMA ReceiveConserves ==
    ASSUME NudInv, PacketsConserved, NEW x \in Pair,
           \/ LookupForRedirect(x) \/ HandleNS(x) \/ HandleRSOrRedirection(x)
           \/ HandleRA(x) \/ HandleNA(x) \/ HandleUnsolicitedNA(x)
    PROVE  PacketsConserved'
<1> DEFINE e == entry[x]
           kept(r) == entry' = [entry EXCEPT ![x] = r] /\ r.waiting = e.waiting /\ fate' = fate
<1>1. e \in Entry /\ Advertisement \in Item /\ Advertisement \notin Packet
  BY NdiscAssumption DEF NudInv, EntryOK, Item, Advertisement
<1>2. ASSUME NEW r, kept(r) PROVE PacketsConserved'
  BY <1>2, ListKept
<1>3. ASSUME entry' = entry, fate' = fate PROVE PacketsConserved'
  BY <1>3, ConservedIsPlaced, ConservedIsPlacedNext
<1>4. ASSUME NEW network, SendWaiting(x, network),
             entry' = [entry EXCEPT ![x] = ClearWaitingPacket(Confirmed(e))]
      PROVE  PacketsConserved'
  <2>1. ClearWaitingPacket(Confirmed(e)).waiting = << >>
    <3>1. Confirmed(e) \in Entry
      BY <1>1, ConfirmedIs
    <3>2. QED
      BY <3>1 DEF ClearWaitingPacket, Entry
  <2>2. QED
    BY <1>4, <2>1, ListEmptied DEF SendWaiting
<1>5. Confirmed(e).waiting = e.waiting /\ Hears(Confirmed(e), "RA").waiting = e.waiting
  <2>1. Confirmed(e) \in Entry /\ Confirmed(e).waiting = e.waiting
    BY <1>1, ConfirmedIs
  <2>2. QED
    BY <2>1 DEF Hears, Entry
<1>6. CASE LookupForRedirect(x)
  <2>1. kept(Looked(e, Advertisement))
    BY <1>1, <1>6, LookedWaiting DEF LookupForRedirect
  <2>2. QED
    BY <1>2, <2>1
<1>7. CASE HandleNS(x)
  <2> DEFINE told == Told(e)
             a == Looked(told, Advertisement)
  <2>1. entry' = [entry EXCEPT ![x] = a] /\ Settle(Packets(e.waiting) \ Packets(a.waiting), "dropped")
    BY <1>7 DEF HandleNS
  <2>2. CASE told.state \notin {"INCOMPLETE", "PROBE"}
    <3>1. a.waiting = e.waiting
      BY <1>1, <2>2, ToldWaiting, LookedWaiting
    <3>2. ASSUME NEW p \in Packet PROVE fate'[p] = fate[p]
      BY <2>1, <3>1 DEF Settle
    <3>3. QED
      BY <2>1, <3>1, <3>2, ListKept
  <2>3. CASE told.state \in {"INCOMPLETE", "PROBE"}
    <3>1. a = AddWaitingPacket(e, Advertisement)
      BY <1>1, <2>3, ToldWaiting, LookedWaiting
    <3>2. ASSUME NEW p \in Packet
          PROVE  fate'[p] = IF p = Advertisement THEN "waiting"
                            ELSE IF p \in Packets(e.waiting) \ Packets(a.waiting) THEN "dropped"
                            ELSE fate[p]
      BY <1>1, <2>1 DEF Settle
    <3>3. a.waiting = AddWaitingPacket(entry[x], Advertisement).waiting
      BY <3>1
    <3> HIDE DEF a
    <3>4. \A p \in Packet :
            fate'[p] = IF p = Advertisement THEN "waiting"
                       ELSE IF p \in Packets(entry[x].waiting) \ Packets(a.waiting) THEN "dropped"
                       ELSE fate[p]
      BY <3>2
    <3>5. QED
      BY <1>1, <2>1, <3>3, <3>4, ListAdded, ZenonT(60)
  <2>4. QED
    BY <2>2, <2>3
<1>8. CASE HandleRSOrRedirection(x)
  <2>1. kept(Told(e))
    BY <1>1, <1>8, ToldWaiting DEF HandleRSOrRedirection
  <2>2. QED
    BY <1>2, <2>1
<1>9. CASE HandleRA(x)
  <2>1. \/ SendWaiting(x, net) /\ entry' = [entry EXCEPT ![x] = ClearWaitingPacket(Confirmed(e))]
        \/ kept(Confirmed(e)) \/ kept(Hears(Confirmed(e), "RA"))
    BY <1>5, <1>9 DEF HandleRA
  <2>2. QED
    BY <1>2, <1>4, <2>1
<1>10. CASE HandleNA(x)
  <2>1. \/ /\ SendWaiting(x, Taking(<<"NA", <<x[2], x[1]>>>>))
           /\ entry' = [entry EXCEPT ![x] = ClearWaitingPacket(Confirmed(e))]
        \/ kept(Confirmed(e))
        \/ entry' = entry /\ fate' = fate
    BY <1>5, <1>10 DEF HandleNA
  <2>2. QED
    BY <1>2, <1>3, <1>4, <2>1
<1>11. CASE HandleUnsolicitedNA(x)
  <2> DEFINE h == Hears(StopNudTimer(e), "NA")
  <2>1. h \in Entry /\ h.waiting = e.waiting
    BY <1>1 DEF Hears, StopNudTimer, Entry
  <2>2. Mark(h, "STALE").waiting = e.waiting
    BY <2>1 DEF Mark, Entry
  <2>3. /\ entry' \in {entry, [entry EXCEPT ![x] = Mark(h, "STALE")], [entry EXCEPT ![x] = h]}
        /\ fate' = fate
    BY <1>11 DEF HandleUnsolicitedNA
  <2> HIDE DEF h
  <2>4. (entry' = entry /\ fate' = fate) \/ kept(Mark(h, "STALE")) \/ kept(h)
    BY <2>1, <2>2, <2>3
  <2>5. QED
    BY <1>2, <1>3, <2>4
<1>12. QED
  BY <1>6, <1>7, <1>8, <1>9, <1>10, <1>11

LEMMA FlushConserves ==
    ASSUME NudInv, PacketsConserved, NEW h \in Host, Flush(h)
    PROVE  PacketsConserved'
<1> DEFINE mine == {y \in Pair : y[1] = h}
           gone == UNION {Packets(entry[y].waiting) : y \in mine}
<1>1. \A p \in Packet : fate'[p] = IF p \in gone THEN "dropped" ELSE fate[p]
  BY DEF Flush, Settle
<1>2. ASSUME NEW p \in Packet, NEW x \in Pair PROVE Placed(p, x, entry'[x].waiting, fate'[p])
  <2>1. ASSUME NEW y \in Pair
        PROVE  /\ Placed(p, y, entry[y].waiting, fate[p])
               /\ p \in Packets(entry[y].waiting) => y = <<From[p], To[p]>>
               /\ p \in Packets(entry[y].waiting) <=> At(entry[y].waiting, p) # {}
    BY ConservedIsPlaced, PacketsAt DEF Placed
  <2>2. CASE x[1] = h
    <3>1. entry'[x].waiting = << >>
      BY <2>2 DEF Flush, NoEntry
    <3>2. At(entry'[x].waiting, p) = {}
      BY <3>1 DEF At
    <3>3. ~ (fate'[p] = "waiting" /\ x = <<From[p], To[p]>>)
      <4>1. SUFFICES ASSUME fate[p] = "waiting", x = <<From[p], To[p]>> PROVE p \in gone
        BY <1>1
      <4>2. p \in Packets(entry[x].waiting)
        BY <2>1, <4>1 DEF Placed, Single
      <4>3. QED
        BY <2>2, <4>2
    <3>4. QED
      BY <3>2, <3>3 DEF Placed
  <2>3. CASE x[1] # h
    <3>1. entry'[x] = entry[x]
      BY <2>3 DEF Flush
    <3>2. x = <<From[p], To[p]>> => p \notin gone
      BY <2>1, <2>3
    <3>3. fate'[p] = "waiting" /\ x = <<From[p], To[p]>>
            <=> fate[p] = "waiting" /\ x = <<From[p], To[p]>>
      BY <1>1, <3>2
    <3>4. QED
      BY <2>1, <3>1, <3>3 DEF Placed
  <2>4. QED
    BY <2>2, <2>3
<1>3. QED
  BY <1>2, ConservedIsPlacedNext

(* Every packet that was handed over is in the list of its destination,    *)
(* once, or has been sent or dropped, for any number of packets and        *)
(* whatever makes the lists move.                                          *)
THEOREM PacketsCorrect == Spec => []PacketsConserved
<1>1. Init => PacketsConserved
  BY DEF Init, PacketsConserved, NoEntry
<1>2. ASSUME NudInv, PacketsConserved, [Next]_vars PROVE PacketsConserved'
  <2>1. ASSUME entry' = entry, fate' = fate PROVE PacketsConserved'
    BY <1>2, <2>1, ConservedIsPlaced, ConservedIsPlacedNext
  <2>2. CASE UNCHANGED vars
    BY <2>1, <2>2 DEF vars
  <2>3. ASSUME \/ \E n \in Host : HandleDadProbe(n)
               \/ \E m \in Message : Lose(m)
        PROVE  PacketsConserved'
    BY <2>1, <2>3 DEF HandleDadProbe, Lose
  <2>4. QED
    BY <1>2, <2>2, <2>3, SendingConserves, TimeoutConserves, ReceiveConserves, FlushConserves
       DEF Next
<1>3. NudInv /\ PacketsConserved /\ [Next]_vars => PacketsConserved'
  BY <1>2
<1>4. QED
  BY <1>1, <1>3, NudCorrect, PTL DEF Spec

=============================================================================
