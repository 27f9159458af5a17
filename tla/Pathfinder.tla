----------------------------- MODULE Pathfinder -----------------------------
(***************************************************************************)
(* The search for a route (graph/pathfinder.go, graph/route.go and         *)
(* getRoute of rebalance/route.go): a Dijkstra from the destination        *)
(* to the source, because fees add up in that direction, with a limit on   *)
(* the number of hops, and the route built from its result.                *)
(*                                                                         *)
(* A step is the treatment of one item of the priority queue.  Go visits   *)
(* neighbours in random order and heaps break ties as they like: which of  *)
(* the cheapest channels is taken and which of the first items is popped   *)
(* is free.  The search holds the locks of the graph, which does not       *)
(* change under it.                                                        *)
(*                                                                         *)
(* As in ParallelRebalance, an operator that stands before the one it      *)
(* resembles and is used by no action is a faulty variant of it.           *)
(***************************************************************************)
EXTENDS Integers, Sequences, FiniteSets

CONSTANTS
    Node,        \* nodes of the graph
    Self,        \* our node
    Graphs,      \* finite sets of channels
    OutChannels, \* channels of ours that may send
    InChannels,  \* channels of ours that may receive
    Amount,      \* msat to move
    MaxPPM,      \* what the route may cost
    MaxHopsArgs, \* the limits a search may be given; Run starts with 3
    MaxDistance  \* more than any fee; 2^31 in the code

ASSUME NodesAssumption ==
    /\ IsFiniteSet(Node) /\ Self \in Node
    /\ \A c \in OutChannels : c.source = Self /\ c.destination \in Node \ {Self}
    /\ \A c \in InChannels : c.destination = Self /\ c.source \in Node \ {Self}

ASSUME ChannelsAssumption ==
    /\ \A G \in Graphs : IsFiniteSet(G)
    /\ \A c \in OutChannels \cup InChannels \cup UNION Graphs :
        /\ {c.source, c.destination} \subseteq Node
        /\ {c.base, c.ppm, c.delay, c.liquidity, c.min, c.max} \subseteq Nat

ASSUME AmountsAssumption ==
    /\ Amount \in Nat \ {0} /\ MaxPPM \in Nat /\ MaxDistance \in Nat \ {0}
    /\ MaxHopsArgs \subseteq Nat \ 0..2

VARIABLES
    OutChannel, InChannel, \* of the rebalance
    graph,     \* the channels
    maxHops,   \* of the whole route
    distance,  \* msat of fees from a node to Dst
    hop,       \* how a node goes on towards Dst
    pq,        \* the priority queue
    route,     \* the hops found, then the whole route
    outcome    \* "search" while the search runs

input == <<OutChannel, InChannel, graph, maxHops>>
searchVars == <<OutChannel, InChannel, graph, maxHops, distance, hop, pq, route, outcome>>

---------------------------------------------------------------------------
(* Channels *)

\* The search goes from the peer of one channel to the peer of the other.
Src == OutChannel.destination
Dst == InChannel.source

INITIAL_DELAY == 144

CeilDiv(n, d) == IF n > 0 THEN (n - 1) \div d + 1 ELSE 0

\* The fee of a channel for an amount in msat: base plus parts per million.
ComputeFee(c, amount) == c.base + CeilDiv((amount \div 1000) * c.ppm, 1000)

CanForward(c, amount) ==
    /\ c.active
    /\ c.liquidity >= amount
    /\ c.max >= amount
    /\ c.min <= amount

\* Nodes with an entry in Inbound: both channels of the node are in the graph.
Known == {c.destination : c \in graph \cup {OutChannel, InChannel}}

exclude == {Self}

\* The hops of the search: the two channels of the node are hops too.
Limit == maxHops - 2

NoHop == [channel |-> OutChannel, amount |-> 0, delay |-> 0]

---------------------------------------------------------------------------
(* dijkstra *)

\* A node without an entry in Inbound has no entry in distance either, which
\* reads as 0: it is never improved.

SearchInit ==
    /\ OutChannel \in OutChannels /\ InChannel \in InChannels
    /\ graph \in Graphs
    /\ maxHops \in MaxHopsArgs
    /\ distance = [u \in Node |-> IF u \in Known \ {Dst} THEN MaxDistance ELSE 0]
    /\ hop = [u \in Node |-> NoHop]
    /\ pq = {[node |-> Dst, amount |-> Amount, delay |-> 0, hops |-> 0, priority |-> 0]}
    /\ route = <<>>
    /\ outcome = IF {Src, Dst} \subseteq Known THEN "search" ELSE "nosuchnode"

IsFirst(item) == item \in pq /\ \A other \in pq : item.priority <= other.priority

Outdated(item) == item.priority > distance[item.node]

\* An item of a node that was reached at less cost since, or by too many hops.
SkipItem(item) ==
    /\ outcome = "search"
    /\ IsFirst(item)
    /\ \/ Outdated(item)
       \/ item.node # Src /\ item.hops >= Limit
    /\ pq' = pq \ {item}
    /\ UNCHANGED <<input, distance, hop, route, outcome>>

EntersExpanded(item) ==
    /\ IsFirst(item)
    /\ item.node # Src
    /\ item.hops < Limit

Enters(item) ==
    /\ IsFirst(item)
    /\ ~Outdated(item)
    /\ item.node # Src
    /\ item.hops < Limit

UsableAny(v, item) ==
    {c \in graph : c.source = v /\ c.destination = item.node
                   /\ CanForward(c, item.amount)}
Usable(v, item) ==
    {c \in graph : c.source = v /\ v \notin exclude /\ c.destination = item.node
                   /\ CanForward(c, item.amount)}

ImprovesOrEquals(v, item, c) ==
    distance[item.node] + ComputeFee(c, item.amount) <= distance[v]
ImprovesUnreached(v, item, c) == distance[v] = MaxDistance
Improves(v, item, c) ==
    distance[item.node] + ComputeFee(c, item.amount) < distance[v]

\* The channels v may end up with when the item is expanded.
Cheapest(v, item) ==
    {c \in Usable(v, item) :
        /\ Improves(v, item, c)
        /\ \A d \in Usable(v, item) :
            ComputeFee(c, item.amount) <= ComputeFee(d, item.amount)}

\* The neighbours of the node of the item are relaxed.  A neighbour with
\* several channels may be pushed once per improvement; all its items but the
\* last are skipped when they are popped and are left out here.
Expand(item) ==
    /\ outcome = "search"
    /\ Enters(item)
    /\ LET improved == {v \in Node : Cheapest(v, item) # {}}
       IN  \E pick \in [improved -> UNION {Cheapest(v, item) : v \in improved}] :
            /\ \A v \in improved : pick[v] \in Cheapest(v, item)
            /\ LET fee(v) == ComputeFee(pick[v], item.amount)
                   Hop(v) == [channel |-> pick[v], amount |-> item.amount + fee(v),
                              delay |-> item.delay + pick[v].delay]
                   Item(v) == [node |-> v, amount |-> Hop(v).amount,
                               delay |-> Hop(v).delay, hops |-> item.hops + 1,
                               priority |-> distance[item.node] + fee(v)]
               IN  /\ distance' = [v \in Node |-> IF v \in improved
                                                  THEN Item(v).priority ELSE distance[v]]
                   /\ hop' = [v \in Node |-> IF v \in improved THEN Hop(v) ELSE hop[v]]
                   /\ pq' = (pq \ {item}) \cup {Item(v) : v \in improved}
    /\ UNCHANGED <<input, route, outcome>>

\* The search ends at the source or when the queue is empty.
Ended == pq = {} \/ \E item \in pq : IsFirst(item) /\ ~Outdated(item) /\ item.node = Src

NoRoute ==
    /\ outcome = "search"
    /\ Ended
    /\ distance[Src] = MaxDistance
    /\ outcome' = "noroute"
    /\ UNCHANGED <<input, distance, hop, pq, route>>

\* The nodes from u on, as the hops lead.
WalkFromNext(u) ==
    LET at[k \in 0..Cardinality(Node)] ==
            IF k = 0 THEN hop[u].channel.destination
            ELSE IF at[k - 1] = Dst THEN Dst ELSE hop[at[k - 1]].channel.destination
    IN  at
Walk(u) ==
    LET at[k \in 0..Cardinality(Node)] ==
            IF k = 0 THEN u
            ELSE IF at[k - 1] = Dst THEN Dst ELSE hop[at[k - 1]].channel.destination
    IN  at

BuildHops ==
    /\ outcome = "search"
    /\ Ended
    /\ distance[Src] # MaxDistance
    /\ \E n \in 0..Cardinality(Node) :
        /\ Walk(Src)[n] = Dst /\ \A k \in 0..n - 1 : Walk(Src)[k] # Dst
        /\ route' = [k \in 1..n |-> hop[Walk(Src)[k - 1]]]
    /\ outcome' = "hops"
    /\ UNCHANGED <<input, distance, hop, pq>>

---------------------------------------------------------------------------
(* getRoute *)

\* Prepend reads the first hop of a route; there is none when the channels of
\* the node lead to the same peer.
PrependPanics ==
    /\ outcome = "hops"
    /\ route = <<>>
    /\ outcome' = "panic"
    /\ UNCHANGED <<input, distance, hop, pq, route>>

\* The amounts as the search found them, with the last fee added to all.
KeepFound(channels) ==
    LET n == Len(channels)
        lastFee == ComputeFee(InChannel, Amount)
    IN  [k \in 1..n |->
            [channel |-> channels[k],
             amount |-> IF k = n THEN Amount
                        ELSE (IF k = 1 THEN route[1].amount ELSE route[k - 1].amount) + lastFee,
             delay |-> INITIAL_DELAY]]

\* Amounts and delays from the end of the route: a hop delivers what the next
\* one needs and its fee.
Recompute(channels) ==
    LET n == Len(channels)
        from[k \in 1..n] ==
            IF k = n
            THEN [channel |-> channels[n], amount |-> Amount, delay |-> INITIAL_DELAY]
            ELSE [channel |-> channels[k],
                  amount |-> from[k + 1].amount
                                + ComputeFee(channels[k + 1], from[k + 1].amount),
                  delay |-> from[k + 1].delay + channels[k + 1].delay]
    IN  from

FeePPM(r) == ((r[1].amount - Amount) * 1000000) \div Amount

Whole ==
    <<OutChannel>> \o [k \in 1..Len(route) |-> route[k].channel] \o <<InChannel>>

\* Prepend, Append and the check of the price.
BuildRoute ==
    /\ outcome = "hops"
    /\ route # <<>>
    /\ route' = Recompute(Whole)
    /\ outcome' = IF FeePPM(route') > MaxPPM THEN "expensive" ELSE "found"
    /\ UNCHANGED <<input, distance, hop, pq>>

---------------------------------------------------------------------------

SearchNext ==
    \/ \E item \in pq : SkipItem(item) \/ Expand(item)
    \/ NoRoute
    \/ BuildHops
    \/ PrependPanics
    \/ BuildRoute

SearchSpec == SearchInit /\ [][SearchNext]_searchVars

\* The search runs in the goroutine of its caller and waits for nobody.
FairSearchSpec == SearchSpec /\ WF_searchVars(SearchNext)

---------------------------------------------------------------------------
(* Reference *)

Infinite == MaxDistance + Amount

Least(S) == CHOOSE x \in S : \A y \in S : x <= y

\* The least amount each node must send for Amount to arrive at Dst over at
\* most k channels, from the definition of a path: a channel into a node
\* carries what the node needs, and costs its fee on top.
BestUpTo ==
    LET best[k \in 0..Cardinality(Node)] ==
            IF k = 0
            THEN [u \in Node |-> IF u = Dst THEN Amount ELSE Infinite]
            ELSE [u \in Node |->
                    Least({best[k - 1][u]} \cup
                          {best[k - 1][c.destination]
                                + ComputeFee(c, best[k - 1][c.destination]) :
                              c \in {d \in graph :
                                        /\ d.source = u /\ u \notin exclude
                                        /\ best[k - 1][d.destination] # Infinite
                                        /\ CanForward(d, best[k - 1][d.destination])}})]
    IN  best

---------------------------------------------------------------------------
(* Properties *)

\* The hops of a node are one path though they are stored node by node and
\* overwritten when a cheaper way is found: from any node reached they lead
\* to Dst without a cycle, over at most the limit of channels, and cost the
\* distance of the node (pathfinder.go:109-125).
HopsFormPaths ==
    \A u \in Known \cup {Dst} : distance[u] < MaxDistance =>
        \E n \in 0..(Cardinality(Node) - 1) :
            /\ Walk(u)[n] = Dst
            /\ \A k \in 0..n - 1 : Walk(u)[k] # Dst
            /\ n <= Limit
            /\ \A k \in 0..n - 1 :
                hop[Walk(u)[k]].amount = Amount + distance[Walk(u)[k]]

\* The route that getRoute returns goes from our node to our node over
\* adjacent channels, at most maxhops of them, visits no node twice, and
\* passes us only at its ends.
RouteIsCircle ==
    outcome \in {"expensive", "found"} =>
        LET n == Len(route)
        IN  /\ n <= maxHops
            /\ route[1].channel = OutChannel /\ route[n].channel = InChannel
            /\ \A k \in 1..n - 1 : route[k].channel.destination = route[k + 1].channel.source
            /\ \A j, k \in 1..n : route[j].channel.destination = route[k].channel.destination
                                    => j = k

\* Every node of the route receives what it forwards and the fee of the
\* channel it forwards over, also of the one that was appended after the
\* search; the price check is about the fees that are really paid, to less
\* than one part per million (route.go:53-62, rebalance/route.go:28).
FeesAreCovered ==
    outcome \in {"expensive", "found"} =>
        LET n == Len(route)
            paid == route[1].amount - Amount
        IN  /\ route[n].amount = Amount
            /\ \A k \in 1..n - 1 :
                route[k].amount - route[k + 1].amount
                    = ComputeFee(route[k + 1].channel, route[k + 1].amount)
            /\ outcome = "found" <=> paid * 1000000 < (MaxPPM + 1) * Amount

\* The amount is not too small for any channel.
MinimumsMet == \A c \in graph : c.min <= Amount

\* With a limit that no simple path exceeds the search is exact: it finds
\* the cheapest route, and none only when there is none.  Only where no channel
\* asks for more than the amount: one that does may be open to a node that
\* pays more for the way on, and closed to it when a cheaper way was found.
CheapestWithoutLimit ==
    Limit >= Cardinality(Node \ exclude) - 1 /\ MinimumsMet =>
        LET best == BestUpTo[Cardinality(Node)][Src]
        IN  /\ outcome \in {"noroute", "nosuchnode"} => best = Infinite
            /\ outcome = "hops" /\ route # <<>> => route[1].amount = best

\* The search ends, also when channels are free and cycles cost nothing.
SearchEnds == <>(outcome \notin {"search", "hops"})

\* Prepend reads the first hop of any route it is given (route.go:44): the
\* plugin ends by it if the two channels lead to the same peer, which byscid.go
\* lets pass while bynode.go:82 says "validate that the nodes are not the same",
\* and on no other input, however the search went.
OnlySamePeerPanics ==
    /\ outcome = "panic" => Src = Dst
    /\ outcome \in {"expensive", "found"} => Src # Dst
=============================================================================
