------------------------------ MODULE ArpCache ------------------------------
(***************************************************************************)
(* Address resolution on one interface: the cache of                       *)
(* src/model/arp-cache.cc, the lookups and replies of                      *)
(* src/model/arp-l3-protocol.cc and the Ipv4Interface::Send that brings    *)
(* the packets.  Packets that wait for an answer are queued in the entry   *)
(* of their address; one timer for the whole cache drives all retries.     *)
(*                                                                         *)
(* Any host may answer at any time, whether it was asked or not: that      *)
(* covers lost, late and repeated requests and replies.                    *)
(*                                                                         *)
(* Time passes in ticks.  The jitter before the first request (10 ms by    *)
(* default) is shorter than a tick, the timeouts (1, 100, 120 s) are whole *)
(* numbers of ticks.                                                       *)
(***************************************************************************)
EXTENDS Integers, Sequences, Functions

CONSTANTS
    Dest,                \* addresses of neighbours
    Packet,              \* packets, numbered in the order they are sent to Dest
    To,                  \* To[p]: the address packet p is sent to
    WaitReplyTimeout, AliveTimeout, DeadTimeout, MaxRetries, PendingQueueSize,
    NewTimeouts,         \* what SetWaitReplyTimeout may be called with
    Static,              \* addresses that may be given a permanent entry
    MaxAge               \* ages are counted up to here: older than any timeout

ASSUME ArpAssumption ==
    /\ Packet \subseteq Nat
    /\ To \in [Packet -> Dest]
    /\ {WaitReplyTimeout} \cup NewTimeouts \subseteq Nat \ {0}
    /\ AliveTimeout \in Nat /\ DeadTimeout \in Nat /\ MaxAge \in Nat
    /\ MaxRetries \in Nat /\ PendingQueueSize \in Nat
    /\ Static \subseteq Dest
    /\ \A t \in {WaitReplyTimeout, AliveTimeout, DeadTimeout} \cup NewTimeouts : t < MaxAge

VARIABLES
    entry,          \* entry[d]: the state of d's entry, "none" if it has none
    age,            \* age[d]: time since m_lastSeen of the entry
    retries,        \* retries[d]: its m_retries
    pending,        \* pending[d]: its m_pending
    timer,          \* time until m_waitReplyTimer expires, Off if it is not running
    waitTimeout,    \* m_waitReplyTimeout
    scheduled,      \* scheduled[d]: jittered requests not yet sent
    up,             \* whether the Ipv4Interface is up
    fate,           \* fate[p]: what has become of packet p
    sent,           \* the packets handed to the device, in that order
    asked,          \* history: requests for d since its entry began to wait, if it waits
    retimed,        \* history: SetWaitReplyTimeout has been called
    aborted         \* an assertion failed or a fatal error was raised

cache  == <<entry, age, retries, pending, timer>>
vars   == <<entry, age, retries, pending, timer, waitTimeout, scheduled, up, fate, sent,
            asked, retimed, aborted>>

Off == -1

EntryState == {"none", "ALIVE", "WAIT_REPLY", "DEAD", "PERMANENT"}

(* "lost": gone without a drop trace.                                      *)
Fate == {"new", "queued", "sent", "dropped", "lost"}

TypeOK ==
    /\ entry \in [Dest -> EntryState]
    /\ age \in [Dest -> 0 .. MaxAge]
    /\ retries \in [Dest -> 0 .. MaxRetries]
    /\ pending \in [Dest -> Seq(Packet)]
    /\ timer \in {Off} \cup Nat
    /\ waitTimeout \in {WaitReplyTimeout} \cup NewTimeouts
    /\ scheduled \in [Dest -> Nat]
    /\ up \in BOOLEAN
    /\ fate \in [Packet -> Fate]
    /\ sent \in Seq(Packet)
    /\ asked \in [Dest -> Nat]
    /\ retimed \in BOOLEAN
    /\ aborted \in BOOLEAN

Init ==
    /\ entry = [d \in Dest |-> "none"]
    /\ age = [d \in Dest |-> 0]
    /\ retries = [d \in Dest |-> 0]
    /\ pending = [d \in Dest |-> << >>]
    /\ timer = Off
    /\ waitTimeout = WaitReplyTimeout
    /\ scheduled = [d \in Dest |-> 0]
    /\ up = TRUE
    /\ fate = [p \in Packet |-> "new"]
    /\ sent = << >>
    /\ asked = [d \in Dest |-> 0]
    /\ retimed = FALSE
    /\ aborted = FALSE

-----------------------------------------------------------------------------
(* IsExpired: strictly later than the timeout of the entry's state.        *)
IsExpired(d) ==
    \/ entry[d] = "WAIT_REPLY" /\ age[d] > waitTimeout
    \/ entry[d] = "DEAD" /\ age[d] > DeadTimeout
    \/ entry[d] = "ALIVE" /\ age[d] > AliveTimeout

UpdateSeen(d) == age' = [age EXCEPT ![d] = 0]

(* Mutation of StartWaitReplyTimer: a timer that runs is started anew.     *)
RestartWaitReplyTimer == timer' = waitTimeout

StartWaitReplyTimer == timer' = IF timer = Off THEN waitTimeout ELSE timer

(* The packets that leave the queues become f.                             *)
Settle(packets, f) == fate' = [p \in Packet |-> IF p \in packets THEN f ELSE fate[p]]

-----------------------------------------------------------------------------
(* Ipv4Interface::Send and ArpL3Protocol::Lookup for packet p.             *)

Sends(p) ==
    /\ ~ aborted
    /\ fate[p] = "new"
    /\ \A q \in Packet : q < p /\ To[q] = To[p] => fate[q] # "new"

SendOnDownInterface(p) ==
    /\ Sends(p) /\ ~ up
    /\ Settle({p}, "lost")
    /\ UNCHANGED <<cache, waitTimeout, retimed, scheduled, up, sent, asked, aborted>>

Looks(p, d) == Sends(p) /\ up /\ d = To[p]

Resolved(p, d) ==
    /\ Looks(p, d)
    /\ entry[d] \in {"ALIVE", "PERMANENT"} /\ ~ IsExpired(d)
    /\ Settle({p}, "sent")
    /\ sent' = Append(sent, p)
    /\ UNCHANGED <<cache, waitTimeout, retimed, scheduled, up, asked, aborted>>

(* The first packet, or the first after the entry has expired:             *)
(* MarkWaitReply, and a request is scheduled.                              *)
StartResolution(p, d) ==
    /\ Looks(p, d)
    /\ entry[d] = "none" \/ (entry[d] \in {"ALIVE", "DEAD"} /\ IsExpired(d))
    /\ pending[d] = << >>
    /\ entry' = [entry EXCEPT ![d] = "WAIT_REPLY"]
    /\ pending' = [pending EXCEPT ![d] = <<p>>]
    /\ UpdateSeen(d)
    /\ StartWaitReplyTimer
    /\ scheduled' = [scheduled EXCEPT ![d] = @ + 1]
    /\ asked' = [asked EXCEPT ![d] = 0]
    /\ Settle({p}, "queued")
    /\ UNCHANGED <<retries, waitTimeout, retimed, up, sent, aborted>>

(* Mutations of UpdateWaitReply: the packet joins the queue at its front;  *)
(* it replaces the one that waits, as the comment in the code has it.      *)
UpdateWaitReplyFront(p, d) ==
    /\ Looks(p, d)
    /\ entry[d] = "WAIT_REPLY" /\ ~ IsExpired(d)
    /\ pending' = [pending EXCEPT ![d] = <<p>> \o @]
    /\ Settle({p}, "queued")
    /\ UNCHANGED
         <<entry, age, retries, timer, waitTimeout, retimed, scheduled, up, sent, asked, aborted>>
UpdateWaitReplyReplaces(p, d) ==
    /\ Looks(p, d)
    /\ entry[d] = "WAIT_REPLY" /\ ~ IsExpired(d)
    /\ pending' = [pending EXCEPT ![d] = <<p>>]
    /\ Settle({p}, "queued")
    /\ UNCHANGED
         <<entry, age, retries, timer, waitTimeout, retimed, scheduled, up, sent, asked, aborted>>

(* UpdateWaitReply: the packet joins the queue, or is dropped if the queue *)
(* is full.                                                                *)
UpdateWaitReply(p, d) ==
    /\ Looks(p, d)
    /\ entry[d] = "WAIT_REPLY" /\ ~ IsExpired(d)
    /\ IF Len(pending[d]) >= PendingQueueSize
       THEN Settle({p}, "dropped") /\ UNCHANGED pending
       ELSE Settle({p}, "queued") /\ pending' = [pending EXCEPT ![d] = Append(@, p)]
    /\ UNCHANGED
         <<entry, age, retries, timer, waitTimeout, retimed, scheduled, up, sent, asked, aborted>>

DropOnDead(p, d) ==
    /\ Looks(p, d)
    /\ entry[d] = "DEAD" /\ ~ IsExpired(d)
    /\ Settle({p}, "dropped")
    /\ UNCHANGED <<cache, waitTimeout, retimed, scheduled, up, sent, asked, aborted>>

(* NS_FATAL_ERROR for an expired entry that waits, and MarkWaitReply's     *)
(* assertion that nothing is queued.                                       *)
LookupAborts(p, d) ==
    /\ Looks(p, d)
    /\ IsExpired(d)
    /\ entry[d] = "WAIT_REPLY" \/ pending[d] # << >>
    /\ aborted' = TRUE
    /\ UNCHANGED <<cache, waitTimeout, retimed, scheduled, up, fate, sent, asked>>

Lookup(p, d) ==
    \/ Resolved(p, d)
    \/ StartResolution(p, d)
    \/ UpdateWaitReply(p, d)
    \/ DropOnDead(p, d)
    \/ LookupAborts(p, d)

-----------------------------------------------------------------------------
(* A jittered request is sent, whatever has become of the entry.           *)
SendArpRequest(d) ==
    /\ ~ aborted /\ scheduled[d] > 0
    /\ scheduled' = [scheduled EXCEPT ![d] = @ - 1]
    /\ asked' = [asked EXCEPT ![d] = IF entry[d] = "WAIT_REPLY" THEN @ + 1 ELSE @]
    /\ UNCHANGED <<cache, waitTimeout, retimed, up, fate, sent, aborted>>

Waiting == {d \in Dest : entry[d] = "WAIT_REPLY"}

(* HandleWaitReplyTimeout: every entry that waits is asked for again, or   *)
(* given up if it has been retried often enough.                           *)
RetriedOnceMore == {d \in Waiting : retries[d] <= MaxRetries}    \* mutation of Retried

Retried == {d \in Waiting : retries[d] < MaxRetries}

GivenUp == Waiting \ Retried

RestartNever == Off    \* mutation of Restart

(* The timer after it has expired.                                         *)
Restart == IF Retried # {} THEN waitTimeout ELSE Off

HandleWaitReplyTimeout ==
    /\ ~ aborted /\ timer = 0
    /\ entry' = [d \in Dest |-> IF d \in GivenUp THEN "DEAD" ELSE entry[d]]
    /\ age' = [d \in Dest |-> IF d \in Waiting THEN 0 ELSE age[d]]
    /\ retries' = [d \in Dest |-> IF d \in Retried THEN retries[d] + 1
                                  ELSE IF d \in GivenUp THEN 0 ELSE retries[d]]
    /\ asked' = [d \in Dest |-> IF d \in Retried THEN asked[d] + 1 ELSE 0]
    /\ pending' = [d \in Dest |-> IF d \in GivenUp THEN << >> ELSE pending[d]]
    /\ Settle(UNION {Range(pending[d]) : d \in GivenUp}, "dropped")
    /\ timer' = Restart
    /\ UNCHANGED <<waitTimeout, retimed, scheduled, up, sent, aborted>>

(* Mutation of MarkAlive: the retries are kept.                            *)
MarkAliveKeepsRetries(d) ==
    /\ entry' = [entry EXCEPT ![d] = "ALIVE"]
    /\ UNCHANGED retries
    /\ UpdateSeen(d)

MarkAlive(d) ==
    /\ entry' = [entry EXCEPT ![d] = "ALIVE"]
    /\ retries' = [retries EXCEPT ![d] = 0]
    /\ UpdateSeen(d)

(* ArpL3Protocol::Receive of a reply from d for this interface.  An entry  *)
(* that waits comes alive and its queue is sent, to an interface that may  *)
(* have gone down meanwhile; every other reply is dropped.                 *)
ReceiveReply(d) ==
    /\ ~ aborted
    /\ entry[d] = "WAIT_REPLY"
    /\ MarkAlive(d)
    /\ pending' = [pending EXCEPT ![d] = << >>]
    /\ IF up THEN Settle(Range(pending[d]), "sent") /\ sent' = sent \o pending[d]
             ELSE Settle(Range(pending[d]), "lost") /\ UNCHANGED sent
    /\ asked' = [asked EXCEPT ![d] = 0]
    /\ UNCHANGED <<timer, waitTimeout, retimed, scheduled, up, aborted>>

(* Flush, on a change of the link: scheduled requests are not cancelled.   *)
Flush ==
    /\ ~ aborted
    /\ entry' = [d \in Dest |-> "none"]
    /\ age' = [d \in Dest |-> 0]
    /\ retries' = [d \in Dest |-> 0]
    /\ pending' = [d \in Dest |-> << >>]
    /\ timer' = Off
    /\ Settle(UNION {Range(pending[d]) : d \in Dest}, "lost")
    /\ asked' = [d \in Dest |-> 0]
    /\ UNCHANGED <<waitTimeout, retimed, scheduled, up, sent, aborted>>

(* Remove deletes one entry with its queue and leaves the timer running.   *)
Remove(d) ==
    /\ ~ aborted /\ entry[d] # "none"
    /\ entry' = [entry EXCEPT ![d] = "none"]
    /\ age' = [age EXCEPT ![d] = 0]
    /\ retries' = [retries EXCEPT ![d] = 0]
    /\ pending' = [pending EXCEPT ![d] = << >>]
    /\ Settle(Range(pending[d]), "lost")
    /\ asked' = [asked EXCEPT ![d] = 0]
    /\ UNCHANGED <<timer, waitTimeout, retimed, scheduled, up, sent, aborted>>

(* A program looks the entry up or adds it, sets its hardware address and  *)
(* makes it permanent: the queue of an entry that waits stays where it is. *)
MarkPermanent(d) ==
    /\ ~ aborted /\ d \in Static
    /\ entry' = [entry EXCEPT ![d] = "PERMANENT"]
    /\ retries' = [retries EXCEPT ![d] = 0]
    /\ UpdateSeen(d)
    /\ asked' = [asked EXCEPT ![d] = 0]
    /\ UNCHANGED <<pending, timer, waitTimeout, retimed, scheduled, up, fate, sent, aborted>>

SetWaitReplyTimeout(t) ==
    /\ ~ aborted
    /\ waitTimeout' = t
    /\ retimed' = TRUE
    /\ UNCHANGED <<cache, scheduled, up, fate, sent, asked, aborted>>

SetInterface(state) ==
    /\ ~ aborted
    /\ up' = state
    /\ UNCHANGED <<cache, waitTimeout, retimed, scheduled, fate, sent, asked, aborted>>

(* Nothing that is due is left behind.                                     *)
Tick ==
    /\ ~ aborted
    /\ timer # 0 /\ \A d \in Dest : scheduled[d] = 0
    /\ age' = [d \in Dest |-> IF entry[d] # "none" /\ age[d] < MaxAge THEN age[d] + 1
                              ELSE age[d]]
    /\ timer' = IF timer = Off THEN Off ELSE timer - 1
    /\ UNCHANGED
         <<entry, retries, pending, waitTimeout, retimed, scheduled, up, fate, sent, asked, aborted>>

Next ==
    \/ \E p \in Packet : SendOnDownInterface(p) \/ \E d \in Dest : Lookup(p, d)
    \/ \E d \in Dest : SendArpRequest(d) \/ ReceiveReply(d) \/ Remove(d) \/ MarkPermanent(d)
    \/ HandleWaitReplyTimeout
    \/ Flush
    \/ \E t \in NewTimeouts : SetWaitReplyTimeout(t)
    \/ \E state \in BOOLEAN : SetInterface(state)
    \/ Tick

(* The simulator goes on from event to event; nobody has to answer.        *)
Simulate == HandleWaitReplyTimeout \/ Tick \/ \E d \in Dest : SendArpRequest(d)

Fairness == WF_vars(Simulate)

Spec == Init /\ [][Next]_vars

FairSpec == Spec /\ Fairness

-----------------------------------------------------------------------------
(* Properties.                                                             *)

(* No sequence of lookups, answers, flushes and timeouts makes Lookup meet *)
(* an entry whose wait has expired, its "possibly unreachable code", or    *)
(* MarkWaitReply an entry with packets left in its queue, as long as the   *)
(* timeout stays what it is.                                               *)
AbortsOnlyAfterNewTimeout == aborted => retimed

(* The queue of an entry is where its packets are: every packet said to    *)
(* wait is in the queue of its address, once; only entries that wait have  *)
(* a queue, and those made permanent while they did; what was sent was     *)
(* sent once and waits no more.                                            *)
PacketsConserved ==
    /\ \A d \in Dest :
         /\ Range(pending[d]) = {p \in Packet : To[p] = d /\ fate[p] = "queued"}
         /\ IsInjective(pending[d])
         /\ pending[d] # << >> => entry[d] \in {"WAIT_REPLY", "PERMANENT"}
    /\ Range(sent) = {p \in Packet : fate[p] = "sent"}
    /\ IsInjective(sent)

(* Packets for one address leave in the order in which they came, whether  *)
(* they waited in the queue or not.                                        *)
SentInOrder ==
    \A i, j \in DOMAIN sent : i < j /\ To[sent[i]] = To[sent[j]] => sent[i] < sent[j]

(* An address is given up only after MaxRetries + 1 requests and a whole   *)
(* timeout after the last: neither a timer that was started for another    *)
(* address nor retries left over from an earlier resolution hurry it.      *)
(* (With MaxRetries = 0 the shared timer may.)                             *)
GivenUpOnlyAfterRetries ==
    [][\A d \in Dest :
        /\ entry[d] = "WAIT_REPLY" /\ entry'[d] = "DEAD"
        /\ MaxRetries > 0 /\ ~ retimed
        => asked[d] > MaxRetries /\ age[d] = waitTimeout]_vars

(* The queues are emptied again and again, though nobody has to answer: no *)
(* packet waits for ever, unless its entry is made permanent under it.     *)
QueueDrains ==
    []<>(aborted \/ \A p \in Packet : fate[p] = "queued" => entry[To[p]] = "PERMANENT")

-----------------------------------------------------------------------------
(* The "possibly unreachable code" of ArpL3Protocol::Lookup is unreachable: *)
(* no lookup meets an entry whose wait has expired.                        *)
NeverAborted == ~ aborted

=============================================================================
