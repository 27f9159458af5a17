---------------------------- MODULE MCPathfinder ----------------------------
(* Small graphs for Pathfinder: every graph over two intermediate nodes. *)
EXTENDS Pathfinder

CONSTANTS s, a, b, d, self

MCAmount == 1000000
MCMaxDistance == 1000
Plenty == 2 * MCAmount

Chan(from, to, base, ppm, liquidity) ==
    [source |-> from, destination |-> to, base |-> base, ppm |-> ppm, delay |-> 6,
     liquidity |-> liquidity, min |-> 1, max |-> Plenty, active |-> TRUE]

Links == {<<s, a>>, <<s, b>>, <<s, d>>, <<a, b>>, <<b, a>>, <<a, d>>, <<b, d>>}

\* Free channels through our own node, which no route may use.
ThroughSelf == {Chan(s, self, 0, 0, Plenty), Chan(self, d, 0, 0, Plenty)}

Free(l) == Chan(l[1], l[2], 0, 0, Plenty)
Dear(l) == Chan(l[1], l[2], 3, 0, Plenty)
Thin(l) == Chan(l[1], l[2], 0, 1, MCAmount)   \* carries the amount but no fee on top

\* What a link may consist of; links to the destination may be thin or double.
Kinds(l) == {"none", "free", "dear"} \cup (IF l[2] = d THEN {"thin", "double"} ELSE {})

OfKind(l, kind) ==
    CASE kind = "none" -> {}
      [] kind = "free" -> {Free(l)}
      [] kind = "dear" -> {Dear(l)}
      [] kind = "thin" -> {Thin(l)}
      [] kind = "double" -> {Thin(l), Dear(l)}

\* No channel but our own leads to d: it is only known by its channel to us.
Unreachable == {{Free(<<s, a>>), Free(<<a, b>>)}}

MCGraphs ==
    Unreachable \cup
    {ThroughSelf \cup UNION {OfKind(l, f[l]) : l \in Links} :
        f \in {g \in [Links -> Kinds(<<s, d>>)] : \A l \in Links : g[l] \in Kinds(l)}}

MCOutChannels == {Chan(self, s, 0, 0, Plenty)}

\* From the other end, and from the peer that the route starts with.
MCInChannels == {Chan(d, self, 0, 1, Plenty), Chan(s, self, 0, 1, Plenty)}
=============================================================================
