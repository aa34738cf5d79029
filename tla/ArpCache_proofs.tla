-------------------------- MODULE ArpCache_proofs --------------------------
(***************************************************************************)
(* Proofs about ArpCache, for any addresses, packets, timeouts, numbers of *)
(* retries and lengths of the queue: the timer and the retries, then the   *)
(* queues, where a packet is and in which order packets leave.             *)
(***************************************************************************)
EXTENDS ArpCache, SequenceTheorems, TLAPS

-----------------------------------------------------------------------------
(* Type correctness.                                                       *)

LEMMA TimeoutIsPositive == ASSUME TypeOK PROVE waitTimeout \in Nat \ {0}
  BY ArpAssumption DEF TypeOK

LEMMA SettleType ==
    ASSUME TypeOK, NEW S, NEW f \in Fate, Settle(S, f)
    PROVE  fate' \in [Packet -> Fate]
  BY DEF TypeOK, Settle

LEMMA LookupType ==
    ASSUME TypeOK, NEW p \in Packet, NEW d \in Dest, Lookup(p, d)
    PROVE  TypeOK'
<1>1. CASE Resolved(p, d)
  <2>1. sent' \in Seq(Packet)
    BY <1>1 DEF Resolved, TypeOK
  <2>2. fate' \in [Packet -> Fate]
    BY <1>1, SettleType DEF Resolved, Fate
  <2>3. QED
    BY <1>1, <2>1, <2>2 DEF Resolved, TypeOK, cache
<1>2. CASE StartResolution(p, d)
  <2>1. fate' \in [Packet -> Fate]
    BY <1>2, SettleType DEF StartResolution, Fate
  <2>2. pending' \in [Dest -> Seq(Packet)]
    <3>1. <<p>> \in Seq(Packet)
      OBVIOUS
    <3>2. QED
      BY <1>2, <3>1 DEF StartResolution, TypeOK
  <2>3. timer' \in {Off} \cup Nat
    BY <1>2, TimeoutIsPositive DEF StartResolution, StartWaitReplyTimer, TypeOK
  <2>4. age' \in [Dest -> 0 .. MaxAge]
    BY <1>2, ArpAssumption DEF StartResolution, UpdateSeen, TypeOK
  <2>5. entry' \in [Dest -> EntryState]
    BY <1>2 DEF StartResolution, EntryState, TypeOK
  <2>6. scheduled' \in [Dest -> Nat] /\ asked' \in [Dest -> Nat]
    BY <1>2 DEF StartResolution, TypeOK
  <2>7. QED
    BY <1>2, <2>1, <2>2, <2>3, <2>4, <2>5, <2>6 DEF StartResolution, TypeOK
<1>3. CASE UpdateWaitReply(p, d)
  <2>1. fate' \in [Packet -> Fate]
    BY <1>3, SettleType DEF UpdateWaitReply, Fate
  <2>2. Append(pending[d], p) \in Seq(Packet)
    BY DEF TypeOK
  <2>3. pending' \in [Dest -> Seq(Packet)]
    BY <1>3, <2>2 DEF UpdateWaitReply, TypeOK
  <2>4. QED
    BY <1>3, <2>1, <2>3 DEF UpdateWaitReply, TypeOK
<1>4. CASE DropOnDead(p, d)
  <2>1. fate' \in [Packet -> Fate]
    BY <1>4, SettleType DEF DropOnDead, Fate
  <2>2. QED
    BY <1>4, <2>1 DEF DropOnDead, TypeOK, cache
<1>5. CASE LookupAborts(p, d)
  BY <1>5 DEF LookupAborts, TypeOK, cache
<1>6. QED
  BY <1>1, <1>2, <1>3, <1>4, <1>5 DEF Lookup

LEMMA TypeInductive == ASSUME TypeOK, [Next]_vars PROVE TypeOK'
<1>1. CASE UNCHANGED vars
  BY <1>1 DEF vars, TypeOK
<1>2. ASSUME NEW p \in Packet, SendOnDownInterface(p) PROVE TypeOK'
  <2>1. fate' \in [Packet -> Fate]
    BY <1>2, SettleType DEF SendOnDownInterface, Fate
  <2>2. QED
    BY <1>2, <2>1 DEF SendOnDownInterface, TypeOK, cache
<1>3. ASSUME NEW p \in Packet, NEW d \in Dest, Lookup(p, d) PROVE TypeOK'
  BY <1>3, LookupType
<1>4. ASSUME NEW d \in Dest, SendArpRequest(d) PROVE TypeOK'
  <2>1. scheduled' \in [Dest -> Nat] /\ asked' \in [Dest -> Nat]
    BY <1>4 DEF SendArpRequest, TypeOK
  <2>2. QED
    BY <1>4, <2>1 DEF SendArpRequest, TypeOK, cache
<1>5. ASSUME NEW d \in Dest, ReceiveReply(d) PROVE TypeOK'
  <2>1. fate' \in [Packet -> Fate]
    BY <1>5, SettleType DEF ReceiveReply, Fate
  <2>2. entry' \in [Dest -> EntryState] /\ retries' \in [Dest -> 0 .. MaxRetries]
        /\ age' \in [Dest -> 0 .. MaxAge]
    BY <1>5, ArpAssumption DEF ReceiveReply, MarkAlive, UpdateSeen, EntryState, TypeOK
  <2>3. sent \o pending[d] \in Seq(Packet)
    BY DEF TypeOK
  <2>4. sent' \in Seq(Packet)
    BY <1>5, <2>3 DEF ReceiveReply, TypeOK
  <2>5. << >> \in Seq(Packet)
    OBVIOUS
  <2>6. pending' \in [Dest -> Seq(Packet)]
    BY <1>5, <2>5 DEF ReceiveReply, TypeOK
  <2>7. QED
    BY <1>5, <2>1, <2>2, <2>4, <2>6 DEF ReceiveReply, TypeOK
<1>6. ASSUME NEW d \in Dest, Remove(d) PROVE TypeOK'
  <2>1. fate' \in [Packet -> Fate]
    BY <1>6, SettleType DEF Remove, Fate
  <2>2. entry' \in [Dest -> EntryState] /\ retries' \in [Dest -> 0 .. MaxRetries]
        /\ age' \in [Dest -> 0 .. MaxAge]
    BY <1>6, ArpAssumption DEF Remove, EntryState, TypeOK
  <2>3. << >> \in Seq(Packet)
    OBVIOUS
  <2>4. pending' \in [Dest -> Seq(Packet)]
    BY <1>6, <2>3 DEF Remove, TypeOK
  <2>5. QED
    BY <1>6, <2>1, <2>2, <2>4 DEF Remove, TypeOK
<1>7. ASSUME NEW d \in Dest, MarkPermanent(d) PROVE TypeOK'
  BY <1>7, ArpAssumption DEF MarkPermanent, UpdateSeen, EntryState, TypeOK
<1>8. ASSUME HandleWaitReplyTimeout PROVE TypeOK'
  <2>1. fate' \in [Packet -> Fate]
    BY <1>8, SettleType DEF HandleWaitReplyTimeout, Fate
  <2>2. entry' \in [Dest -> EntryState] /\ age' \in [Dest -> 0 .. MaxAge]
        /\ asked' \in [Dest -> Nat]
    BY <1>8, ArpAssumption DEF HandleWaitReplyTimeout, EntryState, TypeOK
  <2>3. retries' \in [Dest -> 0 .. MaxRetries]
    BY <1>8, ArpAssumption DEF HandleWaitReplyTimeout, Retried, TypeOK
  <2>4. << >> \in Seq(Packet)
    OBVIOUS
  <2>5. pending' \in [Dest -> Seq(Packet)]
    BY <1>8, <2>4 DEF HandleWaitReplyTimeout, TypeOK
  <2>6. timer' \in {Off} \cup Nat
    BY <1>8, TimeoutIsPositive DEF HandleWaitReplyTimeout, Restart
  <2>7. QED
    BY <1>8, <2>1, <2>2, <2>3, <2>5, <2>6 DEF HandleWaitReplyTimeout, TypeOK
<1>9. ASSUME Flush PROVE TypeOK'
  <2>1. fate' \in [Packet -> Fate]
    BY <1>9, SettleType DEF Flush, Fate
  <2>2. entry' \in [Dest -> EntryState] /\ retries' \in [Dest -> 0 .. MaxRetries]
        /\ age' \in [Dest -> 0 .. MaxAge]
    BY <1>9, ArpAssumption DEF Flush, EntryState, TypeOK
  <2>3. << >> \in Seq(Packet)
    OBVIOUS
  <2>4. pending' \in [Dest -> Seq(Packet)]
    BY <1>9, <2>3 DEF Flush
  <2>5. QED
    BY <1>9, <2>1, <2>2, <2>4 DEF Flush, TypeOK
<1>10. ASSUME NEW t \in NewTimeouts, SetWaitReplyTimeout(t) PROVE TypeOK'
  BY <1>10 DEF SetWaitReplyTimeout, TypeOK, cache
<1>11. ASSUME NEW state \in BOOLEAN, SetInterface(state) PROVE TypeOK'
  BY <1>11 DEF SetInterface, TypeOK, cache
<1>12. ASSUME Tick PROVE TypeOK'
  <2>1. age' \in [Dest -> 0 .. MaxAge]
    BY <1>12, ArpAssumption DEF Tick, TypeOK
  <2>2. timer' \in {Off} \cup Nat
    BY <1>12 DEF Tick, TypeOK, Off
  <2>3. QED
    BY <1>12, <2>1, <2>2 DEF Tick, TypeOK
<1>13. QED
  BY <1>1, <1>2, <1>3, <1>4, <1>5, <1>6, <1>7, <1>8, <1>9, <1>10, <1>11, <1>12 DEF Next

LEMMA TypeInitial == Init => TypeOK
<1>1. << >> \in Seq(Packet)
  OBVIOUS
<1>2. SUFFICES ASSUME Init PROVE TypeOK
  OBVIOUS
<1>3. pending \in [Dest -> Seq(Packet)] /\ sent \in Seq(Packet)
  BY <1>1, <1>2 DEF Init
<1>4. entry \in [Dest -> EntryState] /\ fate \in [Packet -> Fate]
  BY <1>2 DEF Init, EntryState, Fate
<1>5. /\ age \in [Dest -> 0 .. MaxAge] /\ retries \in [Dest -> 0 .. MaxRetries]
      /\ scheduled \in [Dest -> Nat] /\ asked \in [Dest -> Nat]
  BY <1>2, ArpAssumption DEF Init
<1>6. QED
  BY <1>2, <1>3, <1>4, <1>5 DEF Init, TypeOK

(* The type invariant of the ARP cache holds for any addresses, timeouts   *)
(* and queue length: in particular no entry is retried more often than     *)
(* MaxRetries allows, and no retry counter runs away.                      *)
THEOREM TypeCorrect == Spec => []TypeOK
  BY TypeInitial, TypeInductive, PTL DEF Spec

-----------------------------------------------------------------------------
(* Waiting.  The shared timer never fires later than a waiting entry       *)
(* expires and, once the entry has been retried, exactly then.             *)

QueueOnlyWaits == \A d \in Dest : pending[d] # << >> => entry[d] \in {"WAIT_REPLY", "PERMANENT"}

RetriedOnlyWaiting == \A d \in Dest : entry[d] # "WAIT_REPLY" => retries[d] = 0

TimerCovers(d) ==
    entry[d] = "WAIT_REPLY" =>
        /\ timer # Off
        /\ age[d] + timer <= WaitReplyTimeout
        /\ retries[d] > 0 => age[d] + timer = WaitReplyTimeout

(* The requests for an address, those not yet sent included, are more than *)
(* its retries; after a tick none is left to be sent.                      *)
AskedEnough(d) ==
    entry[d] = "WAIT_REPLY" =>
        /\ asked[d] + scheduled[d] > retries[d]
        /\ age[d] > 0 => asked[d] > retries[d]

TimerInv ==
    /\ waitTimeout = WaitReplyTimeout
    /\ ~ aborted
    /\ timer <= WaitReplyTimeout
    /\ \A d \in Dest : TimerCovers(d)

WaitInv ==
    /\ TypeOK
    /\ QueueOnlyWaits
    /\ RetriedOnlyWaiting
    /\ \A d \in Dest : AskedEnough(d)
    /\ ~ retimed => TimerInv

LEMMA Counters ==
    ASSUME TypeOK, NEW d \in Dest
    PROVE  /\ age[d] \in Nat /\ age[d] <= MaxAge /\ retries[d] \in Nat /\ asked[d] \in Nat
           /\ scheduled[d] \in Nat /\ timer \in Int /\ (timer # Off => timer \in Nat)
           /\ WaitReplyTimeout \in Nat \ {0} /\ WaitReplyTimeout < MaxAge
  BY ArpAssumption DEF TypeOK, Off

LEMMA QueueInductive ==
    ASSUME TypeOK, QueueOnlyWaits, RetriedOnlyWaiting, [Next]_vars
    PROVE  QueueOnlyWaits' /\ RetriedOnlyWaiting'
<1> USE DEF QueueOnlyWaits, RetriedOnlyWaiting, TypeOK
<1>1. CASE UNCHANGED vars
  BY <1>1 DEF vars
<1>2. ASSUME NEW p \in Packet, SendOnDownInterface(p) PROVE QueueOnlyWaits' /\ RetriedOnlyWaiting'
  BY <1>2 DEF SendOnDownInterface, cache
<1>3. ASSUME NEW p \in Packet, NEW d \in Dest, Lookup(p, d)
      PROVE  QueueOnlyWaits' /\ RetriedOnlyWaiting'
  <2>1. CASE Resolved(p, d) \/ DropOnDead(p, d) \/ LookupAborts(p, d)
    BY <2>1 DEF Resolved, DropOnDead, LookupAborts, cache
  <2>2. CASE StartResolution(p, d)
    BY <2>2 DEF StartResolution
  <2>3. CASE UpdateWaitReply(p, d)
    BY <2>3 DEF UpdateWaitReply
  <2>4. QED
    BY <1>3, <2>1, <2>2, <2>3 DEF Lookup
<1>4. ASSUME NEW d \in Dest, SendArpRequest(d) \/ MarkPermanent(d)
      PROVE  QueueOnlyWaits' /\ RetriedOnlyWaiting'
  BY <1>4 DEF SendArpRequest, MarkPermanent, cache
<1>5. ASSUME NEW d \in Dest, ReceiveReply(d) PROVE QueueOnlyWaits' /\ RetriedOnlyWaiting'
  BY <1>5 DEF ReceiveReply, MarkAlive
<1>6. ASSUME NEW d \in Dest, Remove(d) PROVE QueueOnlyWaits' /\ RetriedOnlyWaiting'
  BY <1>6 DEF Remove
<1>7. ASSUME HandleWaitReplyTimeout PROVE QueueOnlyWaits' /\ RetriedOnlyWaiting'
  BY <1>7 DEF HandleWaitReplyTimeout, GivenUp, Retried, Waiting
<1>8. ASSUME Flush PROVE QueueOnlyWaits' /\ RetriedOnlyWaiting'
  BY <1>8 DEF Flush
<1>9. ASSUME (\E t \in NewTimeouts : SetWaitReplyTimeout(t)) \/ (\E s \in BOOLEAN : SetInterface(s))
             \/ Tick
      PROVE  QueueOnlyWaits' /\ RetriedOnlyWaiting'
  BY <1>9 DEF SetWaitReplyTimeout, SetInterface, Tick, cache
<1>10. QED
  BY <1>1, <1>2, <1>3, <1>4, <1>5, <1>6, <1>7, <1>8, <1>9 DEF Next

LEMMA AskedInductive ==
    ASSUME TypeOK, RetriedOnlyWaiting, [Next]_vars, NEW e \in Dest, AskedEnough(e)
    PROVE  AskedEnough(e)'
<1> USE DEF AskedEnough, TypeOK
<1>1. CASE UNCHANGED vars
  BY <1>1 DEF vars
<1>2. ASSUME NEW p \in Packet, SendOnDownInterface(p) PROVE AskedEnough(e)'
  BY <1>2 DEF SendOnDownInterface, cache
<1>3. ASSUME NEW p \in Packet, NEW d \in Dest, Lookup(p, d) PROVE AskedEnough(e)'
  <2>1. CASE Resolved(p, d) \/ DropOnDead(p, d) \/ LookupAborts(p, d) \/ UpdateWaitReply(p, d)
    BY <2>1 DEF Resolved, DropOnDead, LookupAborts, UpdateWaitReply, cache
  <2>2. CASE StartResolution(p, d)
    <3>1. CASE e = d
      <4>1. retries[d] = 0
        BY <2>2 DEF StartResolution, RetriedOnlyWaiting
      <4>2. asked'[d] = 0 /\ age'[d] = 0
        BY <2>2 DEF StartResolution, UpdateSeen
      <4>3. scheduled'[d] = scheduled[d] + 1 /\ scheduled[d] \in Nat
        BY <2>2 DEF StartResolution
      <4>4. retries'[d] = 0
        BY <2>2, <4>1 DEF StartResolution
      <4>5. QED
        BY <3>1, <4>2, <4>3, <4>4
    <3>2. CASE e # d
      BY <2>2, <3>2 DEF StartResolution, UpdateSeen
    <3>3. QED
      BY <3>1, <3>2
  <2>3. QED
    BY <1>3, <2>1, <2>2 DEF Lookup
<1>4. ASSUME NEW d \in Dest, SendArpRequest(d) PROVE AskedEnough(e)'
  BY <1>4 DEF SendArpRequest, cache
<1>5. ASSUME NEW d \in Dest, ReceiveReply(d) \/ MarkPermanent(d) PROVE AskedEnough(e)'
  BY <1>5 DEF ReceiveReply, MarkPermanent, MarkAlive, UpdateSeen
<1>6. ASSUME NEW d \in Dest, Remove(d) PROVE AskedEnough(e)'
  BY <1>6 DEF Remove
<1>7. ASSUME HandleWaitReplyTimeout PROVE AskedEnough(e)'
  BY <1>7 DEF HandleWaitReplyTimeout, GivenUp, Retried, Waiting
<1>8. ASSUME Flush PROVE AskedEnough(e)'
  BY <1>8 DEF Flush
<1>9. ASSUME (\E t \in NewTimeouts : SetWaitReplyTimeout(t)) \/ (\E s \in BOOLEAN : SetInterface(s))
      PROVE  AskedEnough(e)'
  BY <1>9 DEF SetWaitReplyTimeout, SetInterface, cache
<1>10. ASSUME Tick PROVE AskedEnough(e)'
  BY <1>10 DEF Tick
<1>11. QED
  BY <1>1, <1>2, <1>3, <1>4, <1>5, <1>6, <1>7, <1>8, <1>9, <1>10 DEF Next

LEMMA NoAbort ==
    ASSUME TypeOK, QueueOnlyWaits, TimerInv, NEW p \in Packet, NEW d \in Dest
    PROVE  ~ LookupAborts(p, d)
<1>1. SUFFICES ASSUME LookupAborts(p, d) PROVE FALSE
  OBVIOUS
<1>2. entry[d] = "WAIT_REPLY"
  BY <1>1 DEF LookupAborts, IsExpired, QueueOnlyWaits
<1>3. age[d] <= WaitReplyTimeout
  BY <1>2, Counters DEF TimerInv, TimerCovers
<1>4. QED
  BY <1>1, <1>2, <1>3, Counters DEF LookupAborts, IsExpired, TimerInv

LEMMA TimerInductive ==
    ASSUME TypeOK, QueueOnlyWaits, RetriedOnlyWaiting, TimerInv, [Next]_vars, ~ retimed'
    PROVE  TimerInv'
<1> USE DEF TimerInv, TypeOK
<1>1. CASE UNCHANGED vars
  BY <1>1 DEF vars, TimerCovers
<1>2. ASSUME NEW p \in Packet, SendOnDownInterface(p) PROVE TimerInv'
  BY <1>2 DEF SendOnDownInterface, cache, TimerCovers
<1>3. ASSUME NEW p \in Packet, NEW d \in Dest, Lookup(p, d) PROVE TimerInv'
  <2>1. CASE Resolved(p, d) \/ DropOnDead(p, d) \/ UpdateWaitReply(p, d)
    <3>1. UNCHANGED <<entry, age, retries, timer, waitTimeout, retimed, aborted>>
      BY <2>1 DEF Resolved, DropOnDead, UpdateWaitReply, cache
    <3>2. QED
      BY <3>1 DEF TimerCovers
  <2>2. CASE StartResolution(p, d)
    <3>1. waitTimeout' = WaitReplyTimeout /\ ~ aborted'
      BY <2>2 DEF StartResolution
    <3>2. timer' # Off /\ timer' \in Nat /\ timer' <= WaitReplyTimeout
      <4>1. timer \in {Off} \cup Nat /\ timer <= WaitReplyTimeout
        OBVIOUS
      <4>2. waitTimeout = WaitReplyTimeout /\ WaitReplyTimeout \in Nat
        BY ArpAssumption
      <4>3. timer' = IF timer = Off THEN waitTimeout ELSE timer
        BY <2>2 DEF StartResolution, StartWaitReplyTimer
      <4>4. QED
        BY <4>1, <4>2, <4>3 DEF Off
    <3>3. timer # Off => timer' = timer
      BY <2>2 DEF StartResolution, StartWaitReplyTimer
    <3>4. retries[d] = 0
      BY <2>2 DEF StartResolution, RetriedOnlyWaiting
    <3>5. ASSUME NEW e \in Dest PROVE TimerCovers(e)'
      <4>1. CASE e = d
        BY <2>2, <3>2, <3>4, <4>1 DEF StartResolution, UpdateSeen, TimerCovers
      <4>2. CASE e # d
        BY <2>2, <3>2, <3>3, <4>2 DEF StartResolution, UpdateSeen, TimerCovers
      <4>3. QED
        BY <4>1, <4>2
    <3>6. QED
      BY <3>1, <3>2, <3>5
  <2>3. QED
    BY <1>3, <2>1, <2>2, NoAbort DEF Lookup
<1>4. ASSUME NEW d \in Dest, SendArpRequest(d) PROVE TimerInv'
  BY <1>4 DEF SendArpRequest, cache, TimerCovers
<1>5. ASSUME NEW d \in Dest, ReceiveReply(d) \/ MarkPermanent(d) PROVE TimerInv'
  <2>1. waitTimeout' = WaitReplyTimeout /\ ~ aborted' /\ timer' <= WaitReplyTimeout
    BY <1>5 DEF ReceiveReply, MarkPermanent
  <2>2. ASSUME NEW e \in Dest, entry'[e] = "WAIT_REPLY" PROVE TimerCovers(e)'
    <3>1. e # d /\ entry[e] = "WAIT_REPLY"
      BY <1>5, <2>2 DEF ReceiveReply, MarkAlive, MarkPermanent
    <3>2. age'[e] = age[e] /\ retries'[e] = retries[e] /\ timer' = timer
      BY <1>5, <3>1 DEF ReceiveReply, MarkAlive, MarkPermanent, UpdateSeen
    <3>3. QED
      BY <3>1, <3>2 DEF TimerCovers
  <2>3. QED
    BY <2>1, <2>2 DEF TimerCovers
<1>6. ASSUME NEW d \in Dest, Remove(d) PROVE TimerInv'
  BY <1>6 DEF Remove, TimerCovers
<1>7. ASSUME HandleWaitReplyTimeout PROVE TimerInv'
  <2>1. timer' \in {Off, WaitReplyTimeout}
    BY <1>7 DEF HandleWaitReplyTimeout, Restart
  <2>2. timer' <= WaitReplyTimeout
    BY <2>1, TimeoutIsPositive DEF Off
  <2>3. ASSUME NEW e \in Dest, entry'[e] = "WAIT_REPLY" PROVE TimerCovers(e)'
    <3>1. e \in Retried
      BY <1>7, <2>3 DEF HandleWaitReplyTimeout, GivenUp, Waiting
    <3>2. timer' = WaitReplyTimeout
      BY <1>7, <3>1 DEF HandleWaitReplyTimeout, Restart
    <3>3. age'[e] = 0
      BY <1>7, <3>1 DEF HandleWaitReplyTimeout, Retried
    <3>4. QED
      BY <3>2, <3>3, TimeoutIsPositive DEF TimerCovers, Off
  <2>4. QED
    BY <1>7, <2>2, <2>3 DEF HandleWaitReplyTimeout, TimerCovers
<1>8. ASSUME Flush PROVE TimerInv'
  BY <1>8, TimeoutIsPositive DEF Flush, TimerCovers, Off
<1>9. ASSUME NEW t \in NewTimeouts, SetWaitReplyTimeout(t) PROVE TimerInv'
  BY <1>9 DEF SetWaitReplyTimeout
<1>10. ASSUME NEW state \in BOOLEAN, SetInterface(state) PROVE TimerInv'
  BY <1>10 DEF SetInterface, cache, TimerCovers
<1>11. ASSUME Tick PROVE TimerInv'
  <2>1. timer' <= WaitReplyTimeout
    BY <1>11, TimeoutIsPositive DEF Tick, Off
  <2>2. ASSUME NEW e \in Dest, entry[e] = "WAIT_REPLY" PROVE TimerCovers(e)'
    <3>1. timer \in Nat \ {0} /\ timer' = timer - 1
      BY <1>11, <2>2 DEF Tick, TimerCovers
    <3>2. age[e] + 1 <= WaitReplyTimeout
      BY <2>2, <3>1, TimeoutIsPositive DEF TimerCovers
    <3>3. age[e] < MaxAge
      BY <3>2, Counters, ArpAssumption
    <3>4. age'[e] = age[e] + 1
      BY <1>11, <2>2, <3>3 DEF Tick
    <3>5. QED
      BY <1>11, <2>2, <3>1, <3>4 DEF Tick, TimerCovers, Off
  <2>3. QED
    BY <1>11, <2>1, <2>2 DEF Tick, TimerCovers
<1>12. QED
  BY <1>1, <1>2, <1>3, <1>4, <1>5, <1>6, <1>7, <1>8, <1>9, <1>10, <1>11 DEF Next

LEMMA WaitInitial == Init => WaitInv
<1>1. SUFFICES ASSUME Init PROVE WaitInv
  OBVIOUS
<1>2. TypeOK
  BY <1>1, TypeInitial
<1>3. QED
  BY <1>1, <1>2, TimeoutIsPositive
     DEF Init, WaitInv, QueueOnlyWaits, RetriedOnlyWaiting, AskedEnough, TimerInv, TimerCovers, Off

LEMMA RetimedStays == ASSUME TypeOK, [Next]_vars, retimed PROVE retimed'
<1>1. CASE UNCHANGED vars
  BY <1>1 DEF vars
<1>2. ASSUME NEW p \in Packet, NEW d \in Dest, Lookup(p, d) PROVE retimed'
  BY <1>2 DEF Lookup, Resolved, StartResolution, UpdateWaitReply, DropOnDead, LookupAborts
<1>3. QED
  BY <1>1, <1>2
     DEF Next, SendOnDownInterface, SendArpRequest, ReceiveReply, Remove, MarkPermanent,
         HandleWaitReplyTimeout, Flush, SetWaitReplyTimeout, SetInterface, Tick

LEMMA WaitInductive == ASSUME WaitInv, [Next]_vars PROVE WaitInv'
<1>1. TypeOK'
  BY TypeInductive DEF WaitInv
<1>2. QueueOnlyWaits' /\ RetriedOnlyWaiting'
  BY QueueInductive DEF WaitInv
<1>3. ASSUME NEW d \in Dest PROVE AskedEnough(d)'
  BY AskedInductive DEF WaitInv
<1>4. ASSUME ~ retimed' PROVE TimerInv'
  <2>1. ~ retimed
    BY <1>4, RetimedStays DEF WaitInv
  <2>2. QED
    BY <1>4, <2>1, TimerInductive DEF WaitInv
<1>5. QED
  BY <1>1, <1>2, <1>3, <1>4 DEF WaitInv

LEMMA WaitCorrect == Spec => []WaitInv
  BY WaitInitial, WaitInductive, PTL DEF Spec

(* As long as the reply timeout is not changed, ArpL3Protocol::Lookup      *)
(* never reaches its "possibly unreachable code" and MarkWaitReply never   *)
(* finds packets in the queue, whatever the timeouts and however many      *)
(* addresses share the timer.                                              *)
THEOREM Unreachable == Spec => []AbortsOnlyAfterNewTimeout
<1>1. WaitInv => AbortsOnlyAfterNewTimeout
  BY DEF WaitInv, TimerInv, AbortsOnlyAfterNewTimeout
<1>2. QED
  BY <1>1, WaitCorrect, PTL

LEMMA GiveUpStep ==
    ASSUME WaitInv, HandleWaitReplyTimeout, ~ retimed, MaxRetries > 0, NEW d \in GivenUp
    PROVE  asked[d] > MaxRetries /\ age[d] = waitTimeout
<1>1. d \in Dest /\ entry[d] = "WAIT_REPLY"
  BY DEF GivenUp, Waiting
<1>2. retries[d] = MaxRetries
  BY <1>1, ArpAssumption DEF GivenUp, Retried, Waiting, WaitInv, TypeOK
<1>3. timer = 0
  BY DEF HandleWaitReplyTimeout
<1>4. age[d] = WaitReplyTimeout
  BY <1>1, <1>2, <1>3 DEF WaitInv, TimerInv, TimerCovers, TypeOK
<1>5. asked[d] > retries[d]
  BY <1>1, <1>4, ArpAssumption DEF WaitInv, AskedEnough
<1>6. QED
  BY <1>2, <1>4, <1>5 DEF WaitInv, TimerInv

(* For every number of addresses on the shared timer, and every number of  *)
(* retries: HandleWaitReplyTimeout gives an address up only after all its  *)
(* requests and a whole timeout after the last.                            *)
THEOREM GivenUpLate == Spec => GivenUpOnlyAfterRetries
<1>1. ASSUME WaitInv, [Next]_vars, ~ retimed, MaxRetries > 0,
             NEW d \in Dest, entry[d] = "WAIT_REPLY", entry'[d] = "DEAD"
      PROVE  asked[d] > MaxRetries /\ age[d] = waitTimeout
  <2>1. HandleWaitReplyTimeout
    <3>1. CASE UNCHANGED vars
      BY <1>1, <3>1 DEF vars
    <3>2. ASSUME NEW p \in Packet, NEW e \in Dest, Lookup(p, e) PROVE FALSE
      BY <1>1, <3>2
         DEF Lookup, Resolved, StartResolution, UpdateWaitReply, DropOnDead, LookupAborts, cache,
             WaitInv, TypeOK
    <3>3. ASSUME NEW e \in Dest, ReceiveReply(e) \/ Remove(e) \/ MarkPermanent(e) PROVE FALSE
      BY <1>1, <3>3 DEF ReceiveReply, MarkAlive, Remove, MarkPermanent, WaitInv, TypeOK
    <3>4. ~ Flush
      BY <1>1 DEF Flush
    <3>5. QED
      BY <1>1, <3>1, <3>2, <3>3, <3>4
         DEF Next, SendOnDownInterface, SendArpRequest, SetWaitReplyTimeout, SetInterface, Tick, cache
  <2>2. d \in GivenUp
    BY <1>1, <2>1 DEF HandleWaitReplyTimeout
  <2>3. QED
    BY <1>1, <2>1, <2>2, GiveUpStep
<1>2. WaitInv /\ [Next]_vars =>
        [\A d \in Dest :
            /\ entry[d] = "WAIT_REPLY" /\ entry'[d] = "DEAD"
            /\ MaxRetries > 0 /\ ~ retimed
            => asked[d] > MaxRetries /\ age[d] = waitTimeout]_vars
  BY <1>1
<1>3. QED
  BY <1>2, WaitCorrect, PTL DEF Spec, GivenUpOnlyAfterRetries

-----------------------------------------------------------------------------
(* Sequences without repetition.                                           *)

LEMMA EmptyRange == Range(<< >>) = {} /\ IsInjective(<< >>)
  BY DEF Range, IsInjective

LEMMA SingleRange == ASSUME NEW p PROVE Range(<<p>>) = {p} /\ IsInjective(<<p>>)
  BY DEF Range, IsInjective

LEMMA ConcatRange ==
    ASSUME NEW S, NEW q \in Seq(S), NEW r \in Seq(S)
    PROVE  /\ Range(q \o r) = Range(q) \cup Range(r)
           /\ IsInjective(q) /\ IsInjective(r) /\ Range(q) \cap Range(r) = {} => IsInjective(q \o r)
<1> DEFINE s == q \o r
<1>1. /\ Len(q) \in Nat /\ DOMAIN q = 1 .. Len(q)
      /\ Len(r) \in Nat /\ DOMAIN r = 1 .. Len(r)
  BY LenProperties
<1>2. /\ s \in Seq(S) /\ Len(s) = Len(q) + Len(r)
      /\ \A i \in 1 .. Len(q) + Len(r) : s[i] = IF i <= Len(q) THEN q[i] ELSE r[i - Len(q)]
  BY ConcatProperties
<1>3. DOMAIN s = 1 .. Len(q) + Len(r)
  BY <1>2, LenProperties
<1> HIDE DEF s
<1>4. ASSUME NEW i \in DOMAIN q PROVE i \in DOMAIN s /\ s[i] = q[i]
  BY <1>1, <1>2, <1>3
<1>5. ASSUME NEW i \in DOMAIN r PROVE i + Len(q) \in DOMAIN s /\ s[i + Len(q)] = r[i]
  BY <1>1, <1>2, <1>3
<1>6. ASSUME NEW i \in DOMAIN s
      PROVE  \/ i \in DOMAIN q /\ s[i] = q[i]
             \/ i - Len(q) \in DOMAIN r /\ s[i] = r[i - Len(q)]
  BY <1>1, <1>2, <1>3
<1>7. Range(s) = Range(q) \cup Range(r)
  BY <1>4, <1>5, <1>6 DEF Range
<1>8. ASSUME IsInjective(q), IsInjective(r), Range(q) \cap Range(r) = {}
      PROVE  IsInjective(s)
  <2>1. ASSUME NEW i \in DOMAIN s, NEW j \in DOMAIN s, s[i] = s[j] PROVE i = j
    <3>1. CASE i \in DOMAIN q /\ s[i] = q[i] /\ j \in DOMAIN q /\ s[j] = q[j]
      BY <1>8, <2>1, <3>1 DEF IsInjective
    <3>2. CASE i - Len(q) \in DOMAIN r /\ s[i] = r[i - Len(q)] /\ j - Len(q) \in DOMAIN r /\ s[j] = r[j - Len(q)]
      <4>1. i - Len(q) = j - Len(q)
        BY <1>8, <2>1, <3>2 DEF IsInjective
      <4>2. QED
        BY <4>1, <1>1, <1>3
    <3>3. CASE \/ i \in DOMAIN q /\ s[i] = q[i] /\ j - Len(q) \in DOMAIN r /\ s[j] = r[j - Len(q)]
               \/ j \in DOMAIN q /\ s[j] = q[j] /\ i - Len(q) \in DOMAIN r /\ s[i] = r[i - Len(q)]
      BY <1>8, <2>1, <3>3 DEF Range
    <3>4. QED
      BY <3>1, <3>2, <3>3, <1>6
  <2>2. QED
    BY <2>1 DEF IsInjective
<1>9. QED
  BY <1>7, <1>8 DEF s

LEMMA AppendRange ==
    ASSUME NEW S, NEW q \in Seq(S), NEW p \in S
    PROVE  /\ Range(Append(q, p)) = Range(q) \cup {p}
           /\ IsInjective(q) /\ p \notin Range(q) => IsInjective(Append(q, p))
<1> DEFINE r == <<p>>
<1>1. r \in Seq(S) /\ Append(q, p) = q \o r
  BY AppendIsConcat
<1>2. Range(r) = {p} /\ IsInjective(r)
  BY SingleRange
<1> HIDE DEF r
<1>3. /\ Range(q \o r) = Range(q) \cup {p}
      /\ IsInjective(q) /\ Range(q) \cap {p} = {} => IsInjective(q \o r)
  BY <1>1, <1>2, ConcatRange
<1>4. QED
  BY <1>1, <1>3

-----------------------------------------------------------------------------
(* Where packets are.                                                      *)

Queued(d) == {p \in Packet : To[p] = d /\ fate[p] = "queued"}

QueueOf(d) == Range(pending[d]) = Queued(d) /\ IsInjective(pending[d])

SentOnce == Range(sent) = {p \in Packet : fate[p] = "sent"} /\ IsInjective(sent)

Conserved == (\A d \in Dest : QueueOf(d)) /\ SentOnce

(* The queues of the addresses in D are emptied and their packets become f. *)
LEMMA Emptied ==
    ASSUME TypeOK, Conserved, NEW D \in SUBSET Dest, NEW f \in Fate \ {"queued"},
           \A d \in Dest : pending'[d] = IF d \in D THEN << >> ELSE pending[d],
           Settle(UNION {Range(pending[d]) : d \in D}, f)
    PROVE  /\ \A d \in Dest : QueueOf(d)'
           /\ \A p \in Packet : fate'[p] = IF To[p] \in D /\ fate[p] = "queued" THEN f ELSE fate[p]
<1>1. UNION {Range(pending[d]) : d \in D} = {p \in Packet : To[p] \in D /\ fate[p] = "queued"}
  <2>1. ASSUME NEW d \in D PROVE Range(pending[d]) = Queued(d)
    BY DEF Conserved, QueueOf
  <2>2. QED
    BY <2>1 DEF Queued
<1>2. ASSUME NEW p \in Packet
      PROVE  fate'[p] = IF To[p] \in D /\ fate[p] = "queued" THEN f ELSE fate[p]
  BY <1>1 DEF Settle
<1>3. ASSUME NEW d \in Dest PROVE QueueOf(d)'
  <2>1. CASE d \in D
    <3>1. Queued(d)' = {}
      BY <1>2, <2>1 DEF Queued
    <3>2. pending'[d] = << >>
      BY <2>1
    <3>3. QED
      BY <3>1, <3>2, EmptyRange DEF QueueOf
  <2>2. CASE d \notin D
    <3>1. Queued(d)' = Queued(d)
      BY <1>2, <2>2 DEF Queued
    <3>2. pending'[d] = pending[d]
      BY <2>2
    <3>3. QED
      BY <3>1, <3>2 DEF QueueOf, Conserved
  <2>3. QED
    BY <2>1, <2>2
<1>4. QED
  BY <1>2, <1>3

LEMMA LookupConserves ==
    ASSUME TypeOK, Conserved, NEW p \in Packet, NEW d \in Dest, Lookup(p, d)
    PROVE  Conserved'
<1>1. To \in [Packet -> Dest]
  BY ArpAssumption
<1>2. CASE Resolved(p, d)
  <2>1. fate[p] = "new" /\ (\A q \in Packet : fate'[q] = IF q = p THEN "sent" ELSE fate[q])
    BY <1>2 DEF Resolved, Looks, Sends, Settle
  <2>2. \A e \in Dest : Queued(e)' = Queued(e)
    BY <2>1 DEF Queued
  <2>3. sent' = Append(sent, p) /\ pending' = pending
    BY <1>2 DEF Resolved, cache
  <2>4. SentOnce'
    <3>1. p \notin Range(sent)
      BY <2>1 DEF Conserved, SentOnce
    <3>2. Range(sent') = Range(sent) \cup {p} /\ IsInjective(sent')
      BY <2>3, <3>1, AppendRange DEF TypeOK, Conserved, SentOnce
    <3>3. QED
      BY <2>1, <3>2 DEF Conserved, SentOnce
  <2>5. QED
    BY <2>2, <2>3, <2>4 DEF Conserved, QueueOf
<1>3. ASSUME Looks(p, d), Settle({p}, "dropped"), UNCHANGED <<pending, sent>> PROVE Conserved'
  <2>1. fate[p] = "new" /\ (\A q \in Packet : fate'[q] = IF q = p THEN "dropped" ELSE fate[q])
    BY <1>3 DEF Looks, Sends, Settle
  <2>2. \A e \in Dest : Queued(e)' = Queued(e)
    BY <2>1 DEF Queued
  <2>3. SentOnce'
    BY <1>3, <2>1 DEF Conserved, SentOnce
  <2>4. QED
    BY <1>3, <2>2, <2>3 DEF Conserved, QueueOf
<1>4. ASSUME Looks(p, d), Settle({p}, "queued"), sent' = sent,
             pending' = [pending EXCEPT ![d] = Append(@, p)]
      PROVE  Conserved'
  <2>1. /\ fate[p] = "new" /\ To[p] = d
        /\ \A q \in Packet : fate'[q] = IF q = p THEN "queued" ELSE fate[q]
    BY <1>4 DEF Looks, Sends, Settle
  <2>2. ASSUME NEW e \in Dest, e # d PROVE QueueOf(e)'
    <3>1. Queued(e)' = Queued(e)
      BY <2>1, <2>2 DEF Queued
    <3>2. pending'[e] = pending[e]
      BY <1>4, <2>2 DEF TypeOK
    <3>3. QED
      BY <3>1, <3>2 DEF QueueOf, Conserved
  <2>3. QueueOf(d)'
    <3>1. Queued(d)' = Queued(d) \cup {p} /\ p \notin Queued(d)
      BY <2>1 DEF Queued
    <3>2. pending'[d] = Append(pending[d], p) /\ pending[d] \in Seq(Packet)
      BY <1>4 DEF TypeOK
    <3>3. QED
      BY <3>1, <3>2, AppendRange DEF QueueOf, Conserved
  <2>4. SentOnce'
    BY <1>4, <2>1 DEF Conserved, SentOnce
  <2>5. QED
    BY <2>2, <2>3, <2>4 DEF Conserved
<1>5. CASE StartResolution(p, d)
  <2>1. pending[d] = << >> /\ Append(<< >>, p) = <<p>>
    BY <1>5 DEF StartResolution
  <2>2. pending' = [pending EXCEPT ![d] = Append(@, p)]
    BY <1>5, <2>1 DEF StartResolution, TypeOK
  <2>3. QED
    BY <1>4, <1>5, <2>2 DEF StartResolution
<1>6. CASE UpdateWaitReply(p, d)
  BY <1>3, <1>4, <1>6 DEF UpdateWaitReply
<1>7. CASE DropOnDead(p, d)
  BY <1>3, <1>7 DEF DropOnDead, cache
<1>8. CASE LookupAborts(p, d)
  BY <1>8 DEF LookupAborts, cache, Conserved, QueueOf, Queued, SentOnce
<1>9. QED
  BY <1>2, <1>5, <1>6, <1>7, <1>8 DEF Lookup

LEMMA ConservedInductive ==
    ASSUME TypeOK, Conserved, [Next]_vars
    PROVE  Conserved'
<1>1. CASE UNCHANGED <<pending, fate, sent>>
  BY <1>1 DEF Conserved, QueueOf, Queued, SentOnce
<1>2. ASSUME NEW p \in Packet, SendOnDownInterface(p) PROVE Conserved'
  <2>1. fate[p] = "new" /\ (\A q \in Packet : fate'[q] = IF q = p THEN "lost" ELSE fate[q])
    BY <1>2 DEF SendOnDownInterface, Sends, Settle
  <2>2. \A e \in Dest : Queued(e)' = Queued(e)
    BY <2>1 DEF Queued
  <2>3. UNCHANGED <<pending, sent>>
    BY <1>2 DEF SendOnDownInterface, cache
  <2>4. SentOnce'
    BY <2>1, <2>3 DEF Conserved, SentOnce
  <2>5. QED
    BY <2>2, <2>3, <2>4 DEF Conserved, QueueOf
<1>3. ASSUME NEW D \in SUBSET Dest, NEW f \in {"dropped", "lost"}, sent' = sent,
             \A d \in Dest : pending'[d] = IF d \in D THEN << >> ELSE pending[d],
             Settle(UNION {Range(pending[d]) : d \in D}, f)
      PROVE  Conserved'
  <2>1. /\ \A d \in Dest : QueueOf(d)'
        /\ \A p \in Packet : fate'[p] = IF To[p] \in D /\ fate[p] = "queued" THEN f ELSE fate[p]
    BY <1>3, Emptied DEF Fate
  <2>2. {p \in Packet : fate'[p] = "sent"} = {p \in Packet : fate[p] = "sent"}
    BY <2>1
  <2>3. QED
    BY <1>3, <2>1, <2>2 DEF Conserved, SentOnce
<1>4. ASSUME NEW d \in Dest PROVE UNION {Range(pending[e]) : e \in {d}} = Range(pending[d])
  OBVIOUS
<1>5. ASSUME NEW d \in Dest, ReceiveReply(d) PROVE Conserved'
  <2>1. \A e \in Dest : pending'[e] = IF e \in {d} THEN << >> ELSE pending[e]
    BY <1>5 DEF ReceiveReply, TypeOK
  <2>2. CASE up
    <3>1. Settle(Range(pending[d]), "sent") /\ sent' = sent \o pending[d]
      BY <1>5, <2>2 DEF ReceiveReply
    <3>2. /\ \A e \in Dest : QueueOf(e)'
          /\ \A p \in Packet : fate'[p] = IF To[p] \in {d} /\ fate[p] = "queued" THEN "sent" ELSE fate[p]
      BY <1>4, <2>1, <3>1, Emptied DEF Fate
    <3>3. Range(sent) \cap Range(pending[d]) = {}
      BY DEF Conserved, SentOnce, QueueOf, Queued
    <3>4. sent \in Seq(Packet) /\ pending[d] \in Seq(Packet)
      BY DEF TypeOK
    <3>5. Range(sent') = Range(sent) \cup Range(pending[d]) /\ IsInjective(sent')
      BY <3>1, <3>3, <3>4, ConcatRange DEF Conserved, SentOnce, QueueOf
    <3>6. SentOnce'
      BY <3>2, <3>5 DEF Conserved, SentOnce, QueueOf, Queued
    <3>7. QED
      BY <3>2, <3>6 DEF Conserved
  <2>3. CASE ~ up
    <3>1. Settle(Range(pending[d]), "lost") /\ sent' = sent
      BY <1>5, <2>3 DEF ReceiveReply
    <3>2. QED
      BY <1>3, <1>4, <2>1, <3>1
  <2>4. QED
    BY <2>2, <2>3
<1>6. ASSUME NEW d \in Dest, Remove(d) PROVE Conserved'
  <2>1. \A e \in Dest : pending'[e] = IF e \in {d} THEN << >> ELSE pending[e]
    BY <1>6 DEF Remove, TypeOK
  <2>2. Settle(Range(pending[d]), "lost") /\ sent' = sent
    BY <1>6 DEF Remove
  <2>3. QED
    BY <1>3, <1>4, <2>1, <2>2
<1>7. ASSUME HandleWaitReplyTimeout PROVE Conserved'
  <2>1. GivenUp \in SUBSET Dest
    BY DEF GivenUp, Waiting
  <2>2. \A e \in Dest : pending'[e] = IF e \in GivenUp THEN << >> ELSE pending[e]
    BY <1>7 DEF HandleWaitReplyTimeout
  <2>3. Settle(UNION {Range(pending[d]) : d \in GivenUp}, "dropped") /\ sent' = sent
    BY <1>7 DEF HandleWaitReplyTimeout
  <2>4. QED
    BY <1>3, <2>1, <2>2, <2>3
<1>8. ASSUME Flush PROVE Conserved'
  <2>1. \A e \in Dest : pending'[e] = IF e \in Dest THEN << >> ELSE pending[e]
    BY <1>8 DEF Flush
  <2>2. Settle(UNION {Range(pending[d]) : d \in Dest}, "lost") /\ sent' = sent
    BY <1>8 DEF Flush
  <2>3. QED
    BY <1>3, <2>1, <2>2
<1>9. QED
  BY <1>1, <1>2, <1>5, <1>6, <1>7, <1>8, LookupConserves
     DEF Next, vars, cache, SendArpRequest, MarkPermanent, SetWaitReplyTimeout, SetInterface, Tick

LEMMA ConservedInitial == Init => Conserved
<1>1. SUFFICES ASSUME Init PROVE Conserved
  OBVIOUS
<1>2. \A d \in Dest : pending[d] = << >> /\ Queued(d) = {}
  BY <1>1 DEF Init, Queued
<1>3. sent = << >> /\ {p \in Packet : fate[p] = "sent"} = {}
  BY <1>1 DEF Init
<1>4. QED
  BY <1>2, <1>3, EmptyRange DEF Conserved, QueueOf, SentOnce

(* No packet is lost from a queue unnoticed, queued twice or sent twice,   *)
(* for any number of addresses, packets and queue places.                  *)
THEOREM PacketsCorrect == Spec => []PacketsConserved
<1>1. Init => TypeOK /\ QueueOnlyWaits /\ RetriedOnlyWaiting /\ Conserved
  BY TypeInitial, WaitInitial, ConservedInitial DEF WaitInv
<1>2. TypeOK /\ QueueOnlyWaits /\ RetriedOnlyWaiting /\ Conserved /\ [Next]_vars =>
        (TypeOK /\ QueueOnlyWaits /\ RetriedOnlyWaiting /\ Conserved)'
  BY TypeInductive, QueueInductive, ConservedInductive
<1>3. TypeOK /\ QueueOnlyWaits /\ RetriedOnlyWaiting /\ Conserved => PacketsConserved
  BY DEF Conserved, QueueOf, Queued, SentOnce, QueueOnlyWaits, PacketsConserved
<1>4. QED
  BY <1>1, <1>2, <1>3, PTL DEF Spec

-----------------------------------------------------------------------------
(* The order of packets.                                                   *)

Ordered(s) == \A i, j \in DOMAIN s : i < j /\ To[s[i]] = To[s[j]] => s[i] < s[j]

(* Packets are sent to an address in the order of their numbers: those     *)
(* after a new one are new.                                                *)
NewLast ==
    \A p, q \in Packet : p < q /\ To[p] = To[q] /\ fate[p] = "new" => fate[q] = "new"

(* What waits came after all that was sent, while the entry waits.  (A     *)
(* permanent entry may have an old queue, and never sends it.)             *)
SentFirst ==
    \A p, q \in Packet :
        /\ To[p] = To[q] /\ fate[p] = "sent" /\ fate[q] = "queued"
        /\ entry[To[q]] = "WAIT_REPLY"
        => p < q

OrderInv ==
    /\ NewLast
    /\ SentFirst
    /\ \A d \in Dest : Ordered(pending[d])
    /\ Ordered(sent)

LEMMA OrderedConcat ==
    ASSUME NEW q \in Seq(Packet), NEW r \in Seq(Packet), Ordered(q), Ordered(r),
           \A x \in Range(q), y \in Range(r) : To[x] = To[y] => x < y
    PROVE  Ordered(q \o r)
<1> DEFINE s == q \o r
<1>1. /\ Len(q) \in Nat /\ DOMAIN q = 1 .. Len(q)
      /\ Len(r) \in Nat /\ DOMAIN r = 1 .. Len(r)
  BY LenProperties
<1>2. /\ s \in Seq(Packet) /\ Len(s) = Len(q) + Len(r)
      /\ \A i \in 1 .. Len(q) + Len(r) : s[i] = IF i <= Len(q) THEN q[i] ELSE r[i - Len(q)]
  BY ConcatProperties
<1>3. DOMAIN s = 1 .. Len(q) + Len(r)
  BY <1>2, LenProperties
<1> HIDE DEF s
<1>4. ASSUME NEW i \in DOMAIN s, NEW j \in DOMAIN s, i < j, To[s[i]] = To[s[j]]
      PROVE  s[i] < s[j]
  <2>1. CASE j <= Len(q)
    <3>1. i \in DOMAIN q /\ j \in DOMAIN q /\ s[i] = q[i] /\ s[j] = q[j]
      BY <1>1, <1>2, <1>3, <1>4, <2>1
    <3>2. QED
      BY <1>4, <3>1 DEF Ordered
  <2>2. CASE i > Len(q)
    <3>1. /\ i - Len(q) \in DOMAIN r /\ j - Len(q) \in DOMAIN r /\ i - Len(q) < j - Len(q)
          /\ s[i] = r[i - Len(q)] /\ s[j] = r[j - Len(q)]
      BY <1>1, <1>2, <1>3, <1>4, <2>2
    <3>2. QED
      BY <1>4, <3>1 DEF Ordered
  <2>3. CASE i <= Len(q) /\ j > Len(q)
    <3>1. /\ i \in DOMAIN q /\ j - Len(q) \in DOMAIN r
          /\ s[i] = q[i] /\ s[j] = r[j - Len(q)]
      BY <1>1, <1>2, <1>3, <2>3
    <3>2. s[i] \in Range(q) /\ s[j] \in Range(r)
      BY <3>1 DEF Range
    <3>3. QED
      BY <1>4, <3>2
  <2>4. QED
    BY <1>1, <1>3, <2>1, <2>2, <2>3
<1>5. QED
  BY <1>4 DEF Ordered, s

LEMMA OrderedSmall == Ordered(<< >>) /\ \A p : Ordered(<<p>>)
  BY DEF Ordered

LEMMA OrderedAppend ==
    ASSUME NEW q \in Seq(Packet), NEW p \in Packet, Ordered(q),
           \A x \in Range(q) : To[x] = To[p] => x < p
    PROVE  Ordered(Append(q, p))
<1> DEFINE r == <<p>>
<1>1. r \in Seq(Packet) /\ Append(q, p) = q \o r
  BY AppendIsConcat
<1>2. Range(r) = {p} /\ Ordered(r)
  BY SingleRange, OrderedSmall
<1> HIDE DEF r
<1>3. QED
  BY <1>1, <1>2, OrderedConcat

(* What is no longer new came before what Sends sends.                     *)
LEMMA NewIsLast ==
    ASSUME NewLast, NEW p \in Packet, fate[p] = "new",
           NEW q \in Packet, To[q] = To[p], fate[q] # "new"
    PROVE  q < p
  BY ArpAssumption DEF NewLast

LEMMA NewInductive ==
    ASSUME TypeOK, Conserved, NewLast, [Next]_vars
    PROVE  NewLast'
<1>1. CASE UNCHANGED fate
  BY <1>1 DEF NewLast
<1>2. ASSUME NEW p \in Packet, NEW f \in {"lost", "sent", "queued", "dropped"},
             Sends(p), Settle({p}, f)
      PROVE  NewLast'
  <2>1. \A q \in Packet : fate'[q] = IF q = p THEN f ELSE fate[q]
    BY <1>2 DEF Settle
  <2>2. ASSUME NEW x \in Packet, NEW y \in Packet, x < y, To[x] = To[y], fate'[x] = "new"
        PROVE  fate'[y] = "new"
    <3>1. x # p /\ fate[x] = "new"
      BY <2>1, <2>2
    <3>2. y # p
      BY <1>2, <2>2, <3>1 DEF Sends
    <3>3. QED
      BY <2>1, <2>2, <3>1, <3>2 DEF NewLast
  <2>3. QED
    BY <2>2 DEF NewLast
<1>3. ASSUME NEW D \in SUBSET Dest, NEW f \in {"lost", "sent", "dropped"},
             Settle(UNION {Range(pending[d]) : d \in D}, f)
      PROVE  NewLast'
  <2>1. \A p \in UNION {Range(pending[d]) : d \in D} : fate[p] = "queued"
    BY DEF Conserved, QueueOf, Queued
  <2>2. \A p \in Packet : fate'[p] = "new" <=> fate[p] = "new"
    BY <1>3, <2>1 DEF Settle
  <2>3. QED
    BY <2>2 DEF NewLast
<1>4. ASSUME NEW d \in Dest PROVE UNION {Range(pending[e]) : e \in {d}} = Range(pending[d])
  OBVIOUS
<1>5. ASSUME NEW p \in Packet, NEW d \in Dest, Lookup(p, d) PROVE NewLast'
  BY <1>1, <1>2, <1>5
     DEF Lookup, Resolved, StartResolution, UpdateWaitReply, DropOnDead, LookupAborts, Looks
<1>6. ASSUME NEW d \in Dest, ReceiveReply(d) \/ Remove(d) PROVE NewLast'
  <2>1. \E f \in {"sent", "lost"} : Settle(Range(pending[d]), f)
    BY <1>6 DEF ReceiveReply, Remove
  <2>2. \E f \in {"sent", "lost"} : Settle(UNION {Range(pending[e]) : e \in {d}}, f)
    BY <1>4, <2>1
  <2>3. {d} \in SUBSET Dest
    OBVIOUS
  <2>4. QED
    BY <1>3, <2>2, <2>3
<1>7. ASSUME HandleWaitReplyTimeout PROVE NewLast'
  <2>1. GivenUp \in SUBSET Dest
    BY DEF GivenUp, Waiting
  <2>2. QED
    BY <1>3, <1>7, <2>1 DEF HandleWaitReplyTimeout
<1>8. ASSUME Flush PROVE NewLast'
  BY <1>3, <1>8 DEF Flush
<1>9. ASSUME NEW p \in Packet, SendOnDownInterface(p) PROVE NewLast'
  BY <1>2, <1>9 DEF SendOnDownInterface
<1>10. ASSUME NEW d \in Dest, SendArpRequest(d) \/ MarkPermanent(d) PROVE NewLast'
  BY <1>1, <1>10 DEF SendArpRequest, MarkPermanent
<1>11. CASE Tick \/ (\E t \in NewTimeouts : SetWaitReplyTimeout(t))
            \/ (\E state \in BOOLEAN : SetInterface(state)) \/ UNCHANGED vars
  BY <1>1, <1>11 DEF Tick, SetWaitReplyTimeout, SetInterface, vars
<1>12. QED
  BY <1>5, <1>6, <1>7, <1>8, <1>9, <1>10, <1>11 DEF Next

LEMMA LookupOrdered ==
    ASSUME TypeOK, Conserved, OrderInv, NEW p \in Packet, NEW d \in Dest, Lookup(p, d)
    PROVE  SentFirst' /\ (\A e \in Dest : Ordered(pending[e])') /\ Ordered(sent)'
<1>1. CASE Resolved(p, d)
  <2>1. /\ fate[p] = "new" /\ To[p] = d /\ entry[d] # "WAIT_REPLY"
        /\ \A q \in Packet : fate'[q] = IF q = p THEN "sent" ELSE fate[q]
    BY <1>1 DEF Resolved, Looks, Sends, Settle
  <2>2. sent' = Append(sent, p) /\ pending' = pending /\ entry' = entry
    BY <1>1 DEF Resolved, cache
  <2>3. SentFirst'
    BY <2>1, <2>2 DEF OrderInv, SentFirst
  <2>4. \A x \in Range(sent) : To[x] = To[p] => x < p
    BY <2>1, NewIsLast DEF OrderInv, Conserved, SentOnce
  <2>5. Ordered(sent')
    BY <2>2, <2>4, OrderedAppend DEF OrderInv, TypeOK
  <2>6. QED
    BY <2>2, <2>3, <2>5 DEF OrderInv, Ordered
<1>2. ASSUME Looks(p, d), NEW f \in {"dropped", "queued"}, Settle({p}, f), sent' = sent,
             \A e \in Dest \ {d} : entry'[e] = entry[e] /\ pending'[e] = pending[e],
             f = "dropped" => UNCHANGED <<entry, pending>>,
             f = "queued" => pending'[d] = Append(pending[d], p),
             entry[d] = "WAIT_REPLY" \/ pending[d] = << >> \/ f = "dropped"
      PROVE  SentFirst' /\ (\A e \in Dest : Ordered(pending[e])') /\ Ordered(sent)'
  <2>1. /\ fate[p] = "new" /\ To[p] = d
        /\ \A q \in Packet : fate'[q] = IF q = p THEN f ELSE fate[q]
    BY <1>2 DEF Looks, Sends, Settle
  <2>2. ASSUME NEW x \in Packet, NEW y \in Packet, To[x] = To[y],
               fate'[x] = "sent", fate'[y] = "queued", entry'[To[y]] = "WAIT_REPLY"
        PROVE  x < y
    <3>1. x # p /\ fate[x] = "sent"
      BY <2>1, <2>2
    <3>2. CASE y = p
      BY <2>1, <2>2, <3>1, <3>2, NewIsLast DEF OrderInv
    <3>3. CASE y # p
      <4>1. fate[y] = "queued" /\ To[y] \in Dest
        BY <2>1, <2>2, <3>3, ArpAssumption
      <4>2. entry[To[y]] = "WAIT_REPLY"
        <5>1. CASE To[y] # d
          BY <1>2, <2>2, <4>1, <5>1
        <5>2. CASE To[y] = d
          <6>1. pending[d] # << >>
            BY <4>1, <5>2, EmptyRange DEF Conserved, QueueOf, Queued
          <6>2. QED
            BY <1>2, <2>2, <5>2, <6>1
        <5>3. QED
          BY <5>1, <5>2
      <4>3. QED
        BY <2>2, <3>1, <4>1, <4>2 DEF OrderInv, SentFirst
    <3>4. QED
      BY <3>2, <3>3
  <2>3. Ordered(pending'[d])
    <3>1. CASE f = "dropped"
      BY <1>2, <3>1 DEF OrderInv
    <3>2. CASE f = "queued"
      <4>1. \A x \in Range(pending[d]) : To[x] = To[p] => x < p
        BY <2>1, NewIsLast DEF OrderInv, Conserved, QueueOf, Queued
      <4>2. QED
        BY <1>2, <3>2, <4>1, OrderedAppend DEF OrderInv, TypeOK
    <3>3. QED
      BY <3>1, <3>2
  <2>4. ASSUME NEW e \in Dest, e # d PROVE Ordered(pending'[e])
    BY <1>2, <2>4 DEF OrderInv
  <2>5. SentFirst'
    BY <2>2 DEF SentFirst
  <2>6. \A e \in Dest : Ordered(pending'[e])
    BY <2>3, <2>4
  <2>7. QED
    BY <1>2, <2>5, <2>6 DEF OrderInv, Ordered
<1>3. CASE StartResolution(p, d)
  <2>1. pending[d] = << >> /\ Append(<< >>, p) = <<p>>
    BY <1>3 DEF StartResolution
  <2>2. pending'[d] = Append(pending[d], p)
        /\ \A e \in Dest \ {d} : entry'[e] = entry[e] /\ pending'[e] = pending[e]
    BY <1>3, <2>1 DEF StartResolution, TypeOK
  <2>3. Looks(p, d) /\ Settle({p}, "queued") /\ sent' = sent
    BY <1>3 DEF StartResolution
  <2>4. QED
    BY <1>2, <2>1, <2>2, <2>3
<1>4. CASE UpdateWaitReply(p, d)
  <2>1. Looks(p, d) /\ sent' = sent /\ entry' = entry /\ entry[d] = "WAIT_REPLY"
    BY <1>4 DEF UpdateWaitReply
  <2>2. CASE Settle({p}, "dropped") /\ UNCHANGED pending
    BY <1>2, <2>1, <2>2
  <2>3. CASE Settle({p}, "queued") /\ pending' = [pending EXCEPT ![d] = Append(@, p)]
    <3>1. pending'[d] = Append(pending[d], p) /\ \A e \in Dest \ {d} : pending'[e] = pending[e]
      BY <2>3 DEF TypeOK
    <3>2. QED
      BY <1>2, <2>1, <2>3, <3>1
  <2>4. QED
    BY <1>4, <2>2, <2>3 DEF UpdateWaitReply
<1>5. CASE DropOnDead(p, d)
  BY <1>2, <1>5 DEF DropOnDead, cache
<1>6. CASE LookupAborts(p, d)
  BY <1>6 DEF LookupAborts, cache, OrderInv, SentFirst, Ordered
<1>7. QED
  BY <1>1, <1>3, <1>4, <1>5, <1>6 DEF Lookup

LEMMA OrderInductive ==
    ASSUME TypeOK, Conserved, OrderInv, [Next]_vars
    PROVE  OrderInv'
<1> DEFINE Goal == SentFirst' /\ (\A e \in Dest : Ordered(pending[e])') /\ Ordered(sent)'
<1>1. ASSUME UNCHANGED <<entry, pending, fate, sent>> PROVE Goal
  BY <1>1 DEF OrderInv, SentFirst, Ordered
<1>2. ASSUME NEW p \in Packet, SendOnDownInterface(p) PROVE Goal
  <2>1. \A q \in Packet : fate'[q] = IF q = p THEN "lost" ELSE fate[q]
    BY <1>2 DEF SendOnDownInterface, Settle
  <2>2. UNCHANGED <<entry, pending, sent>>
    BY <1>2 DEF SendOnDownInterface, cache
  <2>3. SentFirst'
    BY <2>1, <2>2 DEF OrderInv, SentFirst
  <2>4. QED
    BY <2>2, <2>3 DEF OrderInv, Ordered
<1>3. ASSUME NEW p \in Packet, NEW d \in Dest, Lookup(p, d) PROVE Goal
  BY <1>3, LookupOrdered
<1>4. ASSUME NEW D \in SUBSET Dest, NEW f \in {"dropped", "lost"}, sent' = sent,
             \A d \in Dest : pending'[d] = IF d \in D THEN << >> ELSE pending[d],
             \A d \in Dest : entry'[d] = "WAIT_REPLY" => entry[d] = "WAIT_REPLY",
             Settle(UNION {Range(pending[d]) : d \in D}, f)
      PROVE  Goal
  <2>1. \A p \in Packet : fate'[p] = IF To[p] \in D /\ fate[p] = "queued" THEN f ELSE fate[p]
    BY <1>4, Emptied DEF Fate
  <2>2. SentFirst'
    BY <1>4, <2>1, ArpAssumption DEF OrderInv, SentFirst
  <2>3. ASSUME NEW d \in Dest PROVE Ordered(pending'[d])
    BY <1>4, OrderedSmall DEF OrderInv
  <2>4. QED
    BY <1>4, <2>2, <2>3 DEF OrderInv, Ordered
<1>5. ASSUME NEW d \in Dest PROVE UNION {Range(pending[e]) : e \in {d}} = Range(pending[d])
  OBVIOUS
<1>6. ASSUME NEW d \in Dest, ReceiveReply(d) PROVE Goal
  <2>1. /\ \A e \in Dest : pending'[e] = IF e \in {d} THEN << >> ELSE pending[e]
        /\ \A e \in Dest : entry'[e] = IF e = d THEN "ALIVE" ELSE entry[e]
    BY <1>6 DEF ReceiveReply, MarkAlive, TypeOK
  <2>2. CASE up
    <3>1. Settle(Range(pending[d]), "sent") /\ sent' = sent \o pending[d] /\ entry[d] = "WAIT_REPLY"
      BY <1>6, <2>2 DEF ReceiveReply
    <3>2. \A p \in Packet : fate'[p] = IF To[p] \in {d} /\ fate[p] = "queued" THEN "sent" ELSE fate[p]
      BY <1>5, <2>1, <3>1, Emptied DEF Fate
    <3>3. SentFirst'
      BY <2>1, <3>2, ArpAssumption DEF OrderInv, SentFirst
    <3>4. ASSUME NEW e \in Dest PROVE Ordered(pending'[e])
      BY <2>1, OrderedSmall DEF OrderInv
    <3>5. \A x \in Range(sent), y \in Range(pending[d]) : To[x] = To[y] => x < y
      BY <3>1 DEF OrderInv, SentFirst, Conserved, SentOnce, QueueOf, Queued
    <3>6. sent \in Seq(Packet) /\ pending[d] \in Seq(Packet)
      BY DEF TypeOK
    <3>7. Ordered(sent')
      BY <3>1, <3>5, <3>6, OrderedConcat DEF OrderInv
    <3>8. QED
      BY <3>3, <3>4, <3>7 DEF Ordered
  <2>3. CASE ~ up
    <3>1. Settle(Range(pending[d]), "lost") /\ sent' = sent
      BY <1>6, <2>3 DEF ReceiveReply
    <3>2. QED
      BY <1>4, <1>5, <2>1, <3>1
  <2>4. QED
    BY <2>2, <2>3
<1>7. ASSUME NEW d \in Dest, Remove(d) PROVE Goal
  <2>1. /\ \A e \in Dest : pending'[e] = IF e \in {d} THEN << >> ELSE pending[e]
        /\ \A e \in Dest : entry'[e] = IF e = d THEN "none" ELSE entry[e]
    BY <1>7 DEF Remove, TypeOK
  <2>2. Settle(Range(pending[d]), "lost") /\ sent' = sent
    BY <1>7 DEF Remove
  <2>3. QED
    BY <1>4, <1>5, <2>1, <2>2
<1>8. ASSUME NEW d \in Dest, MarkPermanent(d) PROVE Goal
  <2>1. \A e \in Dest : entry'[e] = IF e = d THEN "PERMANENT" ELSE entry[e]
    BY <1>8 DEF MarkPermanent, TypeOK
  <2>2. UNCHANGED <<pending, fate, sent>>
    BY <1>8 DEF MarkPermanent
  <2>3. SentFirst'
    BY <2>1, <2>2, ArpAssumption DEF OrderInv, SentFirst
  <2>4. QED
    BY <2>2, <2>3 DEF OrderInv, Ordered
<1>9. ASSUME HandleWaitReplyTimeout PROVE Goal
  <2>1. GivenUp \in SUBSET Dest
    BY DEF GivenUp, Waiting
  <2>2. /\ \A e \in Dest : pending'[e] = IF e \in GivenUp THEN << >> ELSE pending[e]
        /\ \A e \in Dest : entry'[e] = "WAIT_REPLY" => entry[e] = "WAIT_REPLY"
    BY <1>9 DEF HandleWaitReplyTimeout
  <2>3. Settle(UNION {Range(pending[d]) : d \in GivenUp}, "dropped") /\ sent' = sent
    BY <1>9 DEF HandleWaitReplyTimeout
  <2>4. QED
    BY <1>4, <2>1, <2>2, <2>3
<1>10. ASSUME Flush PROVE Goal
  <2>1. /\ \A e \in Dest : pending'[e] = IF e \in Dest THEN << >> ELSE pending[e]
        /\ \A e \in Dest : entry'[e] = "WAIT_REPLY" => entry[e] = "WAIT_REPLY"
    BY <1>10 DEF Flush
  <2>2. Settle(UNION {Range(pending[d]) : d \in Dest}, "lost") /\ sent' = sent
    BY <1>10 DEF Flush
  <2>3. QED
    BY <1>4, <2>1, <2>2
<1>11. ASSUME NEW d \in Dest, SendArpRequest(d) PROVE Goal
  <2>1. UNCHANGED <<entry, pending, fate, sent>>
    BY <1>11 DEF SendArpRequest, cache
  <2>2. QED
    BY <1>1, <2>1
<1>12. ASSUME Tick \/ (\E t \in NewTimeouts : SetWaitReplyTimeout(t))
            \/ (\E state \in BOOLEAN : SetInterface(state)) \/ UNCHANGED vars
      PROVE Goal
  <2>1. UNCHANGED <<entry, pending, fate, sent>>
    BY <1>12 DEF Tick, SetWaitReplyTimeout, SetInterface, vars, cache
  <2>2. QED
    BY <1>1, <2>1
<1> HIDE DEF Goal
<1>13. Goal
  BY <1>2, <1>3, <1>6, <1>7, <1>8, <1>9, <1>10, <1>11, <1>12 DEF Next
<1>14. QED
  BY <1>13, NewInductive DEF OrderInv, Goal

(* Packets for one address leave in the order in which they were sent, for *)
(* any number of them and whatever happens to the entry meanwhile.         *)
THEOREM OrderCorrect == Spec => []SentInOrder
<1>1. Init => TypeOK /\ Conserved /\ OrderInv
  <2>1. SUFFICES ASSUME Init PROVE TypeOK /\ Conserved /\ OrderInv
    OBVIOUS
  <2>2. NewLast /\ SentFirst
    BY <2>1 DEF Init, NewLast, SentFirst
  <2>3. (\A d \in Dest : Ordered(pending[d])) /\ Ordered(sent)
    BY <2>1, OrderedSmall DEF Init
  <2>4. QED
    BY <2>1, <2>2, <2>3, TypeInitial, ConservedInitial DEF OrderInv
<1>2. TypeOK /\ Conserved /\ OrderInv /\ [Next]_vars => (TypeOK /\ Conserved /\ OrderInv)'
  BY TypeInductive, ConservedInductive, OrderInductive
<1>3. OrderInv => SentInOrder
  BY DEF OrderInv, Ordered, SentInOrder
<1>4. QED
  BY <1>1, <1>2, <1>3, PTL DEF Spec

=============================================================================
