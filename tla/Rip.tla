-------------------------------- MODULE Rip --------------------------------
(***************************************************************************)
(* The RIP routers of src/model/rip.cc and the routes they keep to one     *)
(* destination network, Dst.  Routes to different networks are computed    *)
(* independently of each other; all that they share is the event of the    *)
(* next triggered update, whose delay is random anyway.                    *)
(*                                                                         *)
(* A response carries the metrics of its entries for Dst: a router may     *)
(* have several.  FIFO channels keep the order of messages; some are lost. *)
(* Time passes in periods of unsolicited updates (30 s): within a period,  *)
(* every router sends one, every message arrives and every triggered       *)
(* update (1 to 5 s) is sent.                                              *)
(***************************************************************************)
EXTENDS Integers, SequencesExt

CONSTANTS
    Router,             \* the routers
    Net,                \* the networks, each an interface of its routers
    Attached,           \* Attached[n]: the routers on network n
    Dst,                \* the network that the routes lead to
    InterfaceMetric,    \* InterfaceMetric[r][n]: Rip::GetInterfaceMetric
    LinkDown,           \* m_linkDown, 16 unless configured otherwise
    TimeoutDelay,       \* m_timeoutDelay, in periods
    GarbageCollectionDelay,  \* m_garbageCollectionDelay, in periods
    Strategy,           \* m_splitHorizonStrategy: "none", "split" or "poison"
    Flapping,           \* pairs <<r, n>>: interfaces that may go down and up
    MaxEvents,          \* bound on how often they do
    MaxLosses,          \* bound on the updates lost
    ChannelSize         \* bound on the messages on their way to one router

Direct == "direct"      \* the gateway of a network route without one

ASSUME RipAssumption ==
    /\ Direct \notin Router
    /\ Dst \in Net
    /\ Attached \in [Net -> SUBSET Router]
    /\ \A m, n \in Net, r, s \in Router :       \* a sender's address is its name
         m # n /\ r # s /\ {r, s} \subseteq Attached[m] => ~ {r, s} \subseteq Attached[n]
    /\ InterfaceMetric \in [Router -> [Net -> Nat]]
    /\ LinkDown \in Nat \ {0, 1}
    /\ TimeoutDelay \in Nat \ {0} /\ GarbageCollectionDelay \in Nat \ {0}
    /\ Strategy \in {"none", "split", "poison"}
    /\ Flapping \subseteq {a \in Router \X Net : a[1] \in Attached[a[2]]}
    /\ MaxEvents \in Nat /\ MaxLosses \in Nat /\ ChannelSize \in Nat

VARIABLES
    up,         \* up[r]: the interfaces of r that are up and have a socket
    routes,     \* routes[r]: the entries for Dst in m_routes, in that order
    next,       \* next[r]: what m_nextTriggeredUpdate will do, "none" if not running
    updated,    \* routers whose unsolicited update of this period has been sent
    channel,    \* channel[<<s, n, r>>]: messages from s to r on network n
    events,     \* interface events so far
    losses      \* updates lost so far

vars == <<up, routes, next, updated, channel, events, losses>>

(* An entry with its event: InvalidateRoute or DeleteRoute after `left`.   *)
Route ==
    [gateway : Router \cup {Direct}, interface : Net, metric : 1 .. LinkDown, valid : BOOLEAN,
     changed : BOOLEAN, event : {"none", "invalidate", "delete"}, left : Nat]

Request == [type |-> "request"]

Response(metrics) == [type |-> "response", metrics |-> metrics]

(* A response to a request; nobody looks at what it says.                  *)
Reply == [type |-> "reply"]

IsMessage(m) ==
    \/ m \in {Request, Reply}
    \/ m = Response(m.metrics) /\ m.metrics \in Seq(1 .. LinkDown)

Channel == {c \in Router \X Net \X Router : c[1] # c[3] /\ {c[1], c[3]} \subseteq Attached[c[2]]}

TypeOK ==
    /\ up \in [Router -> SUBSET Net]
    /\ routes \in [Router -> Seq(Route)]
    /\ next \in [Router -> {"none", "request", "update"}]
    /\ updated \subseteq Router
    /\ DOMAIN channel = Channel
    /\ \A c \in Channel : \A i \in 1 .. Len(channel[c]) : IsMessage(channel[c][i])
    /\ events \in Nat /\ losses \in Nat

(* AddNetworkRouteTo: a route to an attached network has no event.         *)
NetworkRoute ==
    [gateway |-> Direct, interface |-> Dst, metric |-> 1, valid |-> TRUE, changed |-> TRUE,
     event |-> "none", left |-> 0]

(* The interfaces are up when DoInitialize schedules the first request,    *)
(* and the first unsolicited update one period or more later.              *)
Init ==
    /\ up = [r \in Router |-> {n \in Net : r \in Attached[n]}]
    /\ routes = [r \in Router |-> IF r \in Attached[Dst] THEN <<NetworkRoute>> ELSE << >>]
    /\ next = [r \in Router |-> "request"]
    /\ updated = Router
    /\ channel = [c \in Channel |-> << >>]
    /\ events = 0 /\ losses = 0

-----------------------------------------------------------------------------
(* Operations on one route.                                                *)

(* The event of the route is scheduled anew, what it was is cancelled.     *)
Schedule(route, what, delay) == [route EXCEPT !.event = what, !.left = delay]

(* Mutation of InvalidateRoute: no event is scheduled.                     *)
InvalidateForGood(route) == [route EXCEPT !.valid = FALSE, !.metric = LinkDown, !.changed = TRUE]

InvalidateRoute(route) ==
    Schedule([route EXCEPT !.valid = FALSE, !.metric = LinkDown, !.changed = TRUE],
             "delete", GarbageCollectionDelay)

(* The route is learned or learned again.                                  *)
ValidRoute(s, n, metric) ==
    [gateway |-> s, interface |-> n, metric |-> metric, valid |-> TRUE, changed |-> TRUE,
     event |-> "invalidate", left |-> TimeoutDelay]

Valid(r) == {i \in DOMAIN routes[r] : routes[r][i].valid}

(* Lookup: the last of the valid routes, all of which have the same mask;  *)
(* 0 if there is none.                                                     *)
Lookup(r) == IF Valid(r) = {} THEN 0 ELSE Max(Valid(r))

-----------------------------------------------------------------------------
(* Sending.                                                                *)

(* The metric with which a route is announced on interface n.              *)
Advertised(route, n) ==
    IF Strategy = "poison" /\ route.interface = n THEN LinkDown ELSE route.metric

Announces(route, n) == ~ (Strategy = "split" /\ route.interface = n)

(* The header that DoSendRouteUpdate makes for interface n, after one more *)
(* route.  Nobody is told of the network he is on.                         *)
AddRte(metrics, route, n, periodic) ==
    IF n # Dst /\ (periodic \/ route.changed) /\ Announces(route, n)
    THEN Append(metrics, Advertised(route, n)) ELSE metrics

Rtes(list, n, periodic) ==
    FoldLeft(LAMBDA metrics, route : AddRte(metrics, route, n, periodic), << >>, list)

(* What it sends on that interface.                                        *)
Update(r, n, periodic) ==
    LET metrics == Rtes(routes[r], n, periodic)
    IN  IF metrics = << >> THEN << >> ELSE <<Response(metrics)>>

(* What the queue of a device takes in of some more messages.              *)
Enqueue(queue, more) == queue \o SubSeq(more, 1, Min({Len(more), ChannelSize - Len(queue)}))

Sends(outgoing) == channel' = [c \in Channel |-> Enqueue(channel[c], outgoing[c])]

(* The sockets send on every interface that is up, to all others on it.    *)
Multicast(r, what) ==
    Sends([c \in Channel |-> IF c[1] = r /\ c[2] \in up[r] THEN what[c[2]] ELSE << >>])

DoSendRouteUpdate(r, periodic) ==
    /\ Multicast(r, [n \in Net |-> Update(r, n, periodic)])
    /\ routes' = [routes EXCEPT
         ![r] = [i \in DOMAIN routes[r] |-> [routes[r][i] EXCEPT !.changed = FALSE]]]

(* SendTriggeredRouteUpdate, as a value of next[r].                        *)
Triggered(r) == IF next[r] = "none" THEN "update" ELSE next[r]

SendRouteRequest(r) ==
    /\ next[r] = "request"
    /\ Multicast(r, [n \in Net |-> <<Request>>])
    /\ next' = [next EXCEPT ![r] = "none"]
    /\ UNCHANGED <<up, routes, updated, events, losses>>

SendTriggeredUpdate(r) ==
    /\ next[r] = "update"
    /\ DoSendRouteUpdate(r, FALSE)
    /\ next' = [next EXCEPT ![r] = "none"]
    /\ UNCHANGED <<up, updated, events, losses>>

(* A triggered update that is pending is cancelled: this one says it all.  *)
SendUnsolicitedRouteUpdate(r) ==
    /\ r \notin updated
    /\ DoSendRouteUpdate(r, TRUE)
    /\ next' = [next EXCEPT ![r] = "none"]
    /\ updated' = updated \cup {r}
    /\ UNCHANGED <<up, events, losses>>

-----------------------------------------------------------------------------
(* Receiving.                                                              *)

(* The message at the head of channel c, for a router whose interface is   *)
(* up; Ipv4L3Protocol drops it on one that is down.                        *)
Arrives(c, type) ==
    /\ channel[c] # << >>
    /\ Head(channel[c]).type = type
    /\ c[2] \in up[c[3]]

Consume(c) == channel' = [channel EXCEPT ![c] = Tail(@)]

(* A request for the whole table is answered with the valid routes.        *)
HandleRequest(c) ==
    LET s == c[1]  n == c[2]  r == c[3]
        back  == <<r, n, s>>
        reply == IF \E i \in Valid(r) : Announces(routes[r][i], n) THEN <<Reply>> ELSE << >>
    IN
    /\ Arrives(c, "request")
    /\ channel' = [channel EXCEPT ![c] = Tail(@), ![back] = Enqueue(channel[back], reply)]
    /\ UNCHANGED <<up, routes, next, updated, events, losses>>

(* The reply is sent to the unicast address of the router that asked.      *)
(* There, only m_recvSocket has a receive callback, and it is bound to the *)
(* multicast address; the socket that gets the reply keeps it for ever.    *)
IgnoreReply(c) ==
    /\ Arrives(c, "reply")
    /\ Consume(c)
    /\ UNCHANGED <<up, routes, next, updated, events, losses>>

(* What an entry with a metric, from s on interface n, does to a route,    *)
(* and whether that counts as a change.                                    *)
Better(route, metric, s) == metric < route.metric

(* Another router with the same metric takes over when the route is near   *)
(* the end of its time (GetDelayLeft; 0 if it has no event).               *)
TakesOver(route, metric, s) ==
    metric = route.metric /\ s # route.gateway /\ 2 * route.left < TimeoutDelay

(* Mutation of Refreshes: the gateway's word keeps a route alive, whatever *)
(* it says.                                                                *)
RefreshesAnyMetric(route, metric, s) == metric >= route.metric /\ s = route.gateway

Refreshes(route, metric, s) == metric = route.metric /\ s = route.gateway

(* The gateway itself has become worse.                                    *)
Worse(route, metric, s) == metric > route.metric /\ s = route.gateway

Learns(route, metric, s, n) ==
    CASE Better(route, metric, s) \/ TakesOver(route, metric, s) -> ValidRoute(s, n, metric)
      [] Refreshes(route, metric, s) -> Schedule(route, "invalidate", TimeoutDelay)
      [] Worse(route, metric, s) /\ metric < LinkDown -> ValidRoute(s, n, metric)
      [] Worse(route, metric, s) /\ metric >= LinkDown -> InvalidateRoute(route)
      [] OTHER -> route

Changes(route, metric, s) ==
    Better(route, metric, s) \/ TakesOver(route, metric, s) \/ Worse(route, metric, s)

(* Mutation of CappedMetric: metrics grow beyond infinity.                 *)
PlainMetric(metric) == metric

CappedMetric(metric) == IF metric > LinkDown THEN LinkDown ELSE metric

(* Mutation of Received: the last step of the way costs nothing.           *)
ReceivedAsSent(metric, r, n) == CappedMetric(metric)

(* The metric of a route that r is told of on interface n.                 *)
Received(metric, r, n) == CappedMetric(metric + InterfaceMetric[r][n])

(* One entry of a response.  Every route to the network is looked at, not  *)
(* only the first; a new one is made when there is none.                   *)
HandleRte(table, metric, s, n) ==
    LET isNew == table.list = << >> /\ metric # LinkDown
    IN  [list |-> IF isNew THEN <<ValidRoute(s, n, metric)>>
                  ELSE [i \in DOMAIN table.list |-> Learns(table.list[i], metric, s, n)],
         changed |-> \/ table.changed \/ isNew
                     \/ \E i \in DOMAIN table.list : Changes(table.list[i], metric, s)]

(* All its entries.                                                        *)
HandleRtes(list, metrics, r, s, n) ==
    FoldLeft(LAMBDA table, metric : HandleRte(table, Received(metric, r, n), s, n),
             [list |-> list, changed |-> FALSE], metrics)

(* The checks for malformed messages are left out, as routers send none.   *)
HandleResponse(c) ==
    LET s == c[1]  n == c[2]  r == c[3]
    IN
    /\ Arrives(c, "response")
    /\ Consume(c)
    /\ LET result == HandleRtes(routes[r], Head(channel[c]).metrics, r, s, n)
       IN  /\ routes' = [routes EXCEPT ![r] = result.list]
           /\ next' = IF result.changed THEN [next EXCEPT ![r] = Triggered(r)] ELSE next
    /\ UNCHANGED <<up, updated, events, losses>>

(* A message that reaches an interface that is down.                       *)
DropAtDownInterface(c) ==
    /\ channel[c] # << >>
    /\ c[2] \notin up[c[3]]
    /\ Consume(c)
    /\ UNCHANGED <<up, routes, next, updated, events, losses>>

Lose(c) ==
    /\ channel[c] # << >>
    /\ losses < MaxLosses
    /\ Consume(c)
    /\ losses' = losses + 1
    /\ UNCHANGED <<up, routes, next, updated, events>>

-----------------------------------------------------------------------------
(* Timers and interfaces.                                                  *)

Due(route, what) == route.event = what /\ route.left = 0

InvalidateTimeout(r, i) ==
    /\ Due(routes[r][i], "invalidate")
    /\ routes' = [routes EXCEPT ![r][i] = InvalidateRoute(routes[r][i])]
    /\ UNCHANGED <<up, next, updated, channel, events, losses>>

DeleteRoute(r, i) ==
    /\ Due(routes[r][i], "delete")
    /\ routes' = [routes EXCEPT ![r] = RemoveAt(routes[r], i)]
    /\ UNCHANGED <<up, next, updated, channel, events, losses>>

(* The routes through the interface are invalidated, those that were       *)
(* invalid once more.                                                      *)
NotifyInterfaceDown(r, n) ==
    /\ <<r, n>> \in Flapping /\ events < MaxEvents
    /\ n \in up[r]
    /\ up' = [up EXCEPT ![r] = @ \ {n}]
    /\ routes' = [routes EXCEPT
         ![r] = [i \in DOMAIN routes[r] |->
           IF routes[r][i].interface = n THEN InvalidateRoute(routes[r][i]) ELSE routes[r][i]]]
    /\ next' = [next EXCEPT ![r] = Triggered(r)]
    /\ events' = events + 1
    /\ UNCHANGED <<updated, channel, losses>>

(* Mutation of Installed: a route to the network itself goes to the front, *)
(* like those that are learned.                                            *)
InstalledFirst(list) == <<NetworkRoute>> \o list

Installed(list) == Append(list, NetworkRoute)

NotifyInterfaceUp(r, n) ==
    /\ <<r, n>> \in Flapping /\ events < MaxEvents
    /\ n \notin up[r]
    /\ up' = [up EXCEPT ![r] = @ \cup {n}]
    /\ routes' = IF n = Dst THEN [routes EXCEPT ![r] = Installed(routes[r])] ELSE routes
    /\ next' = [next EXCEPT ![r] = Triggered(r)]
    /\ events' = events + 1
    /\ UNCHANGED <<updated, channel, losses>>

(* A period has passed: everything that falls into it has happened.        *)
Tick ==
    /\ updated = Router
    /\ \A r \in Router : next[r] = "none"
    /\ \A c \in Channel : channel[c] = << >>
    /\ \A r \in Router : \A i \in DOMAIN routes[r] :
         routes[r][i].event # "none" => routes[r][i].left > 0
    /\ routes' = [r \in Router |-> [i \in DOMAIN routes[r] |->
         IF routes[r][i].event = "none" THEN routes[r][i]
         ELSE [routes[r][i] EXCEPT !.left = @ - 1]]]
    /\ updated' = {}
    /\ UNCHANGED <<up, next, channel, events, losses>>

Timers ==
    \E r \in Router :
        \/ SendRouteRequest(r)
        \/ SendTriggeredUpdate(r)
        \/ SendUnsolicitedRouteUpdate(r)
        \/ \E i \in DOMAIN routes[r] : InvalidateTimeout(r, i) \/ DeleteRoute(r, i)

Receive ==
    \E c \in Channel :
        HandleRequest(c) \/ IgnoreReply(c) \/ HandleResponse(c) \/ DropAtDownInterface(c)

Next ==
    \/ Timers
    \/ Receive
    \/ \E c \in Channel : Lose(c)
    \/ \E a \in Flapping : NotifyInterfaceDown(a[1], a[2]) \/ NotifyInterfaceUp(a[1], a[2])
    \/ Tick

Spec == Init /\ [][Next]_vars

(* The simulator goes on from event to event.  Interfaces need not change, *)
(* and no update has to be lost.                                           *)
FairSpec == Spec /\ WF_vars(Timers \/ Receive \/ Tick)

-----------------------------------------------------------------------------
(* Properties.                                                             *)

(* The metric of the route that Lookup finds.                              *)
Metric(r) == IF Lookup(r) = 0 THEN LinkDown ELSE routes[r][Lookup(r)].metric

(* Distances in the network as it is: after k exchanges of perfect         *)
(* information along the links that are up at both ends.                   *)
Distances[k \in Nat] ==
    IF k = 0
    THEN [r \in Router |-> IF r \in Attached[Dst] /\ Dst \in up[r] THEN 1 ELSE LinkDown]
    ELSE LET nearer == Distances[k - 1] IN
         [r \in Router |->
            Min({nearer[r]} \cup
                {Min({nearer[c[1]] + InterfaceMetric[r][c[2]], LinkDown}) :
                   c \in {x \in Channel : x[3] = r /\ x[2] \in up[r] \cap up[x[1]]}})]

Converged ==
    LET distance == Distances[Cardinality(Router)]
    IN  \A r \in Router : Metric(r) = distance[r]

(* When interfaces no longer change, all routers come to use shortest      *)
(* routes, and none where there is no way: no loop counts to infinity      *)
(* without end, no lost update and no timer leaves a router behind.        *)
Converges == <>[]Converged

(* Every route that was learned or is unreachable has the event that will  *)
(* end it, if nobody refreshes it; the route to an attached network never  *)
(* ends by itself.                                                         *)
RoutesExpire ==
    \A r \in Router : \A i \in DOMAIN routes[r] :
        LET route == routes[r][i] IN
        /\ route.valid /\ route.gateway # Direct => route.event = "invalidate"
        /\ ~ route.valid => route.event # "none"
        /\ route.valid /\ route.gateway = Direct => route.event = "none"

(* A router whose interface to Dst is up sends there directly, although    *)
(* the entry of the time before the interface went down may have been      *)
(* taken over by a neighbour and be just as valid.  (SetInterfaceMetric    *)
(* accepts 0, with which a neighbour's route can be as good.)              *)
DirectFirst ==
    (\A r \in Router, n \in Net : InterfaceMetric[r][n] > 0) =>
    \A r \in Attached[Dst] :
        Dst \in up[r] => Lookup(r) # 0 /\ routes[r][Lookup(r)].gateway = Direct

(* Lower bounds of the distances in the whole network; the largest of them *)
(* is the distance.                                                        *)
Bound ==
    {h \in [Router -> 0 .. LinkDown] :
        /\ \A r \in Attached[Dst] : h[r] <= 1
        /\ \A c \in Channel : h[c[3]] <= h[c[1]] + InterfaceMetric[c[3]][c[2]]}

(* No router believes in, and no message tells of, a way that is shorter   *)
(* than any that the network can have: old news may be too good for the    *)
(* links that are left, but never better than that.                        *)
NeverTooGood ==
    \A h \in Bound :
        /\ \A r \in Router : \A i \in DOMAIN routes[r] : routes[r][i].metric >= h[r]
        /\ \A c \in Channel : \A i \in DOMAIN channel[c] :
             channel[c][i].type = "response" =>
                 \A k \in DOMAIN channel[c][i].metrics : channel[c][i].metrics[k] >= h[c[1]]

-----------------------------------------------------------------------------
(* doc/routing-overview.rst: "RIP considers any route with a metric equal  *)
(* or greater than 16 as unreachable".                                     *)
ValidIsReachable ==
    \A r \in Router : Lookup(r) # 0 => routes[r][Lookup(r)].metric < LinkDown

=============================================================================
