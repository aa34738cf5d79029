----------------------------- MODULE NdiscCache -----------------------------
(***************************************************************************)
(* Neighbour unreachability detection: the caches of src/model/ndisc-      *)
(* cache.cc, one per host of a link, as src/model/icmpv6-l4-protocol.cc    *)
(* uses them.  Addresses are link-local and hosts keep their link-layer    *)
(* address, so an entry lacks the address of its neighbour as long as it   *)
(* is INCOMPLETE.  Nothing in the code makes an entry PERMANENT.           *)
(*                                                                         *)
(* The network may delay, reorder and lose messages.  A timer that runs    *)
(* may expire at any time, whatever its delay.                             *)
(***************************************************************************)
EXTENDS Integers, FiniteSets, SequencesExt

CONSTANTS
    Host,                   \* the hosts of the link
    Packet,                 \* the packets they send, numbers
    From, To,               \* From[p], To[p]: source and destination of packet p
    MAX_MULTICAST_SOLICIT, MAX_UNICAST_SOLICIT,
    UnresQlen,              \* m_unresQlen
    MaxInFlight,            \* bound on the messages of a kind between two hosts
    MaxEvents               \* bound on flushes and on messages nobody asked for

ASSUME NdiscAssumption ==
    /\ Packet \subseteq Nat \ {0}
    /\ From \in [Packet -> Host] /\ To \in [Packet -> Host]
    /\ \A p \in Packet : From[p] # To[p]
    /\ MAX_MULTICAST_SOLICIT \in Nat \ {0} /\ MAX_UNICAST_SOLICIT \in Nat \ {0}
    /\ UnresQlen \in Nat \ {0} /\ MaxInFlight \in Nat /\ MaxEvents \in Nat

VARIABLES
    entry,      \* entry[h, n]: the entry of host h for its neighbour n
    net,        \* net[m]: how many copies of message m are on their way
    fate,       \* fate[p]: what has become of packet p
    events      \* flushes and unasked messages so far

vars == <<entry, net, fate, events>>

Pair == {x \in Host \X Host : x[1] # x[2]}

Advertisement == 0      \* an answer that waits like a packet

(* state     m_state, or "none" if there is no entry                       *)
(* timer     what m_nudTimer will do, "off" if it is not running           *)
(* count     m_nsRetransmit                                                *)
(* waiting   m_waiting                                                     *)
(* asked     history: solicitations since resolution or probing began, 0   *)
(*           when the neighbour has been confirmed                         *)
(* heard     history: news of the neighbour that was no answer, since the  *)
(*           packets that waited were last sent                            *)
Entry ==
    [state : {"none", "INCOMPLETE", "REACHABLE", "STALE", "DELAY", "PROBE"},
     timer : {"off", "retransmit", "reachable", "delay", "probe"},
     count : Nat, waiting : Seq(Packet \cup {Advertisement}),
     asked : Nat, heard : SUBSET {"NS", "NA", "RA"}]

NoEntry ==
    [state |-> "none", timer |-> "off", count |-> 0, waiting |-> << >>, asked |-> 0, heard |-> {}]

(* Solicitations, and advertisements with and without the S flag, from one *)
(* host to another.                                                        *)
Message == {"NS", "NA", "unsolicited NA"} \X Pair

TypeOK ==
    /\ entry \in [Pair -> Entry]
    /\ \A x \in Pair : /\ entry[x].count <= MAX_MULTICAST_SOLICIT
                          \/ entry[x].count <= MAX_UNICAST_SOLICIT
                       /\ entry[x].state = "none" => entry[x] = NoEntry
    /\ net \in [Message -> 0 .. MaxInFlight]
    /\ fate \in [Packet -> {"new", "waiting", "sent", "dropped"}]
    /\ events \in 0 .. MaxEvents

Init ==
    /\ entry = [x \in Pair |-> NoEntry]
    /\ net = [m \in Message |-> 0]
    /\ fate = [p \in Packet |-> "new"]
    /\ events = 0

-----------------------------------------------------------------------------
(* Operations on an entry.                                                 *)

Mark(e, state) == [e EXCEPT !.state = state]

StartTimer(e, timer) == [e EXCEPT !.timer = timer]

StopNudTimer(e) == [e EXCEPT !.timer = "off", !.count = 0]

(* Mutation of ClearWaitingPacket: the packets stay where they are.        *)
KeepWaitingPacket(e) == [e EXCEPT !.heard = {}]

ClearWaitingPacket(e) == [e EXCEPT !.waiting = << >>, !.heard = {}]

(* The oldest packet makes room for the new one.                           *)
AddWaitingPacket(e, w) ==
    LET room == IF Len(e.waiting) >= UnresQlen THEN Tail(e.waiting) ELSE e.waiting
    IN  [e EXCEPT !.waiting = Append(room, w)]

Hears(e, news) == [e EXCEPT !.heard = @ \cup {news}]

(* One more solicitation.                                                  *)
Asks(e) == [e EXCEPT !.count = @ + 1, !.asked = @ + 1]

(* Lookup finds a link-layer address.                                      *)
Resolves(e) == e.state \in {"REACHABLE", "DELAY", "STALE"}

(* The entry after Lookup for w, of which it has a state.                  *)
Looked(e, w) ==
    CASE e.state = "STALE" -> Mark(StartTimer(e, "delay"), "DELAY")
      [] e.state \in {"INCOMPLETE", "PROBE"} -> AddWaitingPacket(e, w)
      [] OTHER -> e

-----------------------------------------------------------------------------
(* The network and the packets.                                            *)

(* The network when k more copies of m are sent: what does not fit is lost.*)
Adding(network, m, k) == [network EXCEPT ![m] = Min({@ + k, MaxInFlight})]

Taking(m) == [net EXCEPT ![m] = @ - 1]

(* Packets that are in the list.                                           *)
Packets(list) == Range(list) \cap Packet

(* How many advertisements are in the list.                                *)
Advertisements(list) == Cardinality({i \in DOMAIN list : list[i] = Advertisement})

Settle(packets, f) == fate' = [p \in Packet |-> IF p \in packets THEN f ELSE fate[p]]

(* The packets that waited are handed to the device.                       *)
SendWaiting(x, network) ==
    /\ Settle(Packets(entry[x].waiting), "sent")
    /\ net' = Adding(network, <<"NA", x>>, Advertisements(entry[x].waiting))

-----------------------------------------------------------------------------
(* Sending packets: Ipv6Interface::Send and Lookup.                        *)

Sends(p, x) == fate[p] = "new" /\ x = <<From[p], To[p]>>

StartResolution(p, x) ==
    /\ Sends(p, x)
    /\ entry[x].state = "none"
    /\ entry' = [entry EXCEPT
         ![x] = [NoEntry EXCEPT !.state = "INCOMPLETE", !.waiting = <<p>>,
                                !.timer = "retransmit", !.asked = 1]]
    /\ net' = Adding(net, <<"NS", x>>, 1)
    /\ Settle({p}, "waiting")
    /\ UNCHANGED events

SendResolved(p, x) ==
    /\ Sends(p, x)
    /\ Resolves(entry[x])
    /\ entry' = [entry EXCEPT ![x] = Looked(@, p)]
    /\ Settle({p}, "sent")
    /\ UNCHANGED <<net, events>>

SendLater(p, x) ==
    /\ Sends(p, x)
    /\ entry[x].state \in {"INCOMPLETE", "PROBE"}
    /\ entry' = [entry EXCEPT ![x] = Looked(@, p)]
    /\ LET pushed == Packets(entry[x].waiting) \ Packets(entry'[x].waiting)
       IN  fate' = [q \in Packet |-> IF q = p THEN "waiting"
                                     ELSE IF q \in pushed THEN "dropped" ELSE fate[q]]
    /\ UNCHANGED <<net, events>>

(* The Lookup without a packet of a router that sends a redirect.          *)
LookupForRedirect(x) ==
    /\ entry[x].state = "STALE"
    /\ entry' = [entry EXCEPT ![x] = Looked(@, Advertisement)]
    /\ UNCHANGED <<net, fate, events>>

-----------------------------------------------------------------------------
(* Timers.                                                                 *)

(* The entry is deleted, with the packets that wait in it.                 *)
RemoveEntry(x) ==
    /\ entry' = [entry EXCEPT ![x] = NoEntry]
    /\ Settle(Packets(entry[x].waiting), "dropped")

(* Mutations of Exhausted: one solicitation too few, one too many.         *)
ExhaustedSooner(e, max) == e.count + 1 >= max

ExhaustedLater(e, max) == e.count > max

Exhausted(e, max) == e.count >= max

RetransmitTimeout(x) ==
    /\ entry[x].timer = "retransmit"
    /\ \/ /\ ~ Exhausted(entry[x], MAX_MULTICAST_SOLICIT)
          /\ entry' = [entry EXCEPT ![x] = Asks(@)]
          /\ net' = Adding(net, <<"NS", x>>, 1)
          /\ UNCHANGED fate
       \/ /\ Exhausted(entry[x], MAX_MULTICAST_SOLICIT)
          /\ RemoveEntry(x)
          /\ UNCHANGED net
    /\ UNCHANGED events

ReachableTimeout(x) ==
    /\ entry[x].timer = "reachable"
    /\ entry' = [entry EXCEPT ![x] = Mark(StartTimer(@, "off"), "STALE")]
    /\ UNCHANGED <<net, fate, events>>

(* Mutation of Probing: no timer is started.                               *)
ProbingUntimed(e) == [Mark(StartTimer(e, "off"), "PROBE") EXCEPT !.count = 1, !.asked = 1]

Probing(e) == [Mark(StartTimer(e, "probe"), "PROBE") EXCEPT !.count = 1, !.asked = 1]

DelayTimeout(x) ==
    /\ entry[x].timer = "delay"
    /\ entry' = [entry EXCEPT ![x] = Probing(@)]
    /\ net' = Adding(net, <<"NS", x>>, 1)
    /\ UNCHANGED <<fate, events>>

ProbeTimeout(x) ==
    /\ entry[x].timer = "probe"
    /\ \/ /\ ~ Exhausted(entry[x], MAX_UNICAST_SOLICIT)
          /\ entry' = [entry EXCEPT ![x] = Asks(@)]
          /\ net' = Adding(net, <<"NS", x>>, 1)
          /\ UNCHANGED fate
       \/ /\ Exhausted(entry[x], MAX_UNICAST_SOLICIT)
          /\ RemoveEntry(x)
          /\ UNCHANGED net
    /\ UNCHANGED events

Timeout(x) ==
    RetransmitTimeout(x) \/ ReachableTimeout(x) \/ DelayTimeout(x) \/ ProbeTimeout(x)

-----------------------------------------------------------------------------
(* Receiving.  x = <<h, n>>: host h receives something from or about n.    *)

(* A message tells the address of a neighbour (HandleNS, HandleRS and      *)
(* HandleRedirection): MarkStale, unless the address is known already.     *)
Told(e) ==
    CASE e.state = "none" -> Mark(e, "STALE")
      [] e.state = "INCOMPLETE" -> Hears(Mark(e, "STALE"), "NS")
      [] OTHER -> e

(* The answer to a solicitation is sent like any packet, through Lookup.   *)
HandleNS(x) ==
    LET m == <<"NS", <<x[2], x[1]>>>>
        told == Told(entry[x])
        pushed == Packets(entry[x].waiting) \ Packets(Looked(told, Advertisement).waiting)
    IN
    /\ net[m] > 0
    /\ entry' = [entry EXCEPT ![x] = Looked(told, Advertisement)]
    /\ net' = IF Resolves(told) THEN Adding(Taking(m), <<"NA", x>>, 1) ELSE Taking(m)
    /\ Settle(pushed, "dropped")
    /\ UNCHANGED events

(* A router solicitation, or a redirection to n.                           *)
HandleRSOrRedirection(x) ==
    /\ events < MaxEvents
    /\ events' = events + 1
    /\ entry' = [entry EXCEPT ![x] = Told(@)]
    /\ UNCHANGED <<net, fate>>

(* Mutation of Confirmed: the timer of the resolution goes on.             *)
ConfirmedOnly(e) == [Mark(e, "REACHABLE") EXCEPT !.asked = 0]

(* StopNudTimer, MarkReachable, StartReachableTimer.                       *)
Confirmed(e) == [StartTimer(Mark(StopNudTimer(e), "REACHABLE"), "reachable") EXCEPT !.asked = 0]

(* ReceiveLLA: a router advertisement of n.  In PROBE the packets that     *)
(* wait stay, as the code asks for that state after it has left it.        *)
HandleRA(x) ==
    /\ events < MaxEvents
    /\ events' = events + 1
    /\ \/ /\ entry[x].state = "INCOMPLETE"
          /\ entry' = [entry EXCEPT ![x] = ClearWaitingPacket(Confirmed(@))]
          /\ SendWaiting(x, net)
       \/ /\ entry[x].state = "none"
          /\ entry' = [entry EXCEPT ![x] = Confirmed(@)]
          /\ UNCHANGED <<net, fate>>
       \/ /\ entry[x].state \notin {"none", "INCOMPLETE"}
          /\ entry' = [entry EXCEPT ![x] = Hears(Confirmed(@), "RA")]
          /\ UNCHANGED <<net, fate>>

(* Mutation of Answers: packets wait for an answer only in INCOMPLETE.     *)
AnswersIncomplete(e) == e.state = "INCOMPLETE"

(* The answer for which packets wait.                                      *)
Answers(e) == e.state \in {"INCOMPLETE", "PROBE"}

(* HandleNA with the flags S and O.                                        *)
HandleNA(x) ==
    LET m == <<"NA", <<x[2], x[1]>>>> IN
    /\ net[m] > 0
    /\ \/ /\ Answers(entry[x])
          /\ entry' = [entry EXCEPT ![x] = ClearWaitingPacket(Confirmed(@))]
          /\ SendWaiting(x, Taking(m))
       \/ /\ ~ Answers(entry[x])
          /\ entry' = IF entry[x].state = "none" THEN entry
                      ELSE [entry EXCEPT ![x] = Confirmed(@)]
          /\ net' = Taking(m)
          /\ UNCHANGED fate
    /\ UNCHANGED events

(* HandleNA with the flag O only.                                          *)
HandleUnsolicitedNA(x) ==
    LET m == <<"unsolicited NA", <<x[2], x[1]>>>>
        stopped == Hears(StopNudTimer(entry[x]), "NA")
    IN
    /\ net[m] > 0
    /\ net' = Taking(m)
    /\ entry' = CASE entry[x].state = "none" -> entry
                  [] entry[x].state = "INCOMPLETE" ->
                       [entry EXCEPT ![x] = Mark(stopped, "STALE")]
                  [] OTHER -> [entry EXCEPT ![x] = stopped]
    /\ UNCHANGED <<fate, events>>

(* HandleNS for a solicitation without a source: somebody tries to take    *)
(* the address of n, which tells all the others that it is taken.          *)
HandleDadProbe(n) ==
    /\ events < MaxEvents
    /\ events' = events + 1
    /\ net' = [m \in Message |-> IF m[1] = "unsolicited NA" /\ m[2][1] = n
                                 THEN Min({net[m] + 1, MaxInFlight}) ELSE net[m]]
    /\ UNCHANGED <<entry, fate>>

Lose(m) ==
    /\ net[m] > 0
    /\ net' = Taking(m)
    /\ UNCHANGED <<entry, fate, events>>

(* The link of host h has changed.                                         *)
Flush(h) ==
    /\ events < MaxEvents
    /\ events' = events + 1
    /\ entry' = [x \in Pair |-> IF x[1] = h THEN NoEntry ELSE entry[x]]
    /\ Settle(UNION {Packets(entry[x].waiting) : x \in {y \in Pair : y[1] = h}}, "dropped")
    /\ UNCHANGED net

Next ==
    \/ \E p \in Packet, x \in Pair :
         StartResolution(p, x) \/ SendResolved(p, x) \/ SendLater(p, x)
    \/ \E x \in Pair :
         \/ LookupForRedirect(x)
         \/ Timeout(x)
         \/ HandleNS(x) \/ HandleRSOrRedirection(x) \/ HandleRA(x)
         \/ HandleNA(x) \/ HandleUnsolicitedNA(x)
    \/ \E n \in Host : HandleDadProbe(n) \/ Flush(n)
    \/ \E m \in Message : Lose(m)

Spec == Init /\ [][Next]_vars

(* A timer that runs expires, unless it is stopped.                        *)
FairSpec == Spec /\ \A x \in Pair : WF_vars(Timeout(x))

-----------------------------------------------------------------------------
(* Properties.                                                             *)

(* FunctionRetransmitTimeout looks at the first of the packets that wait:  *)
(* there is one, whatever came between the timeouts.  It does not run for  *)
(* a neighbour that has answered.                                          *)
RetransmitHasPacket ==
    \A x \in Pair : entry[x].timer = "retransmit" =>
        entry[x].state \in {"INCOMPLETE", "STALE"} /\ entry[x].waiting # << >>

(* A packet waits in the entry of its destination, once; all others have   *)
(* been sent or dropped.                                                   *)
PacketsConserved ==
    \A p \in Packet, x \in Pair :
        LET places == {i \in DOMAIN entry[x].waiting : entry[x].waiting[i] = p}
        IN  IF fate[p] = "waiting" /\ x = <<From[p], To[p]>>
            THEN \E i \in places : places = {i}
            ELSE places = {}

(* Packets wait only for as long as an answer is asked for, except where   *)
(* news of the neighbour came that was no answer: a solicitation of its    *)
(* own, an advertisement that nobody solicited or a router advertisement.  *)
(* (Those strand the packets, until the neighbour is probed.)              *)
OnlyNewsStrandsPackets ==
    \A x \in Pair : entry[x].waiting # << >> /\ entry[x].heard = {} =>
        <<entry[x].state, entry[x].timer>> \in
            {<<"INCOMPLETE", "retransmit">>, <<"PROBE", "probe">>}

(* A timer deletes an entry only after the full number of solicitations    *)
(* since resolution or probing began.                                      *)
GivenUpOnlyAfterSolicits ==
    [][\A x \in Pair : Timeout(x) /\ entry'[x].state = "none" =>
         entry[x].asked >= IF entry[x].state = "PROBE" THEN MAX_UNICAST_SOLICIT
                           ELSE MAX_MULTICAST_SOLICIT + 1]_vars

(* No entry stays in a state of doubt: the neighbour is confirmed or given *)
(* up, unless an unsolicited advertisement has stopped the timer.          *)
DoubtEnds ==
    \A x \in Pair :
        entry[x].state \in {"INCOMPLETE", "DELAY", "PROBE"}
        ~> (entry[x].state \in {"none", "REACHABLE", "STALE"} \/ "NA" \in entry[x].heard)

=============================================================================
