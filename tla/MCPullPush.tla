----------------------------- MODULE MCPullPush -----------------------------
(* Instances of PullPush for TLC.                                            *)
EXTENDS PullPush

CONSTANTS c1, c2, p1, p2, p3

ChannelOfPeer == [p \in Peer |-> IF p = p1 THEN <<c1>> ELSE <<c2>>]

\* No list, peers named twice, and one that is no peer.
SomeLists == {NoList, <<p1, p1>>, <<p3, p2, Excluded>>, <<p2, p2>>}

\* c1 is a cheap channel whose owner charges nothing, c2 a dear one.
FeesOut == [c \in Channel |-> IF c = c1 THEN 10 ELSE 60]
FeesIn == [c \in Channel |-> 5]

SomeSplits == {-1, 1, 2}

ListsOfChannels == {<<>>, <<c1>>, <<c2>>, <<c1, c1>>, <<c2, c2>>, <<c1, c2>>, <<c2, c1>>}
=============================================================================
