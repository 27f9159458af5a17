---------------------------- MODULE MCGraphStore ----------------------------
(* Instances of GraphStore for TLC: two channels between the same nodes, so  *)
(* that a removal moves one of them.                                         *)
EXTENDS GraphStore

CONSTANTS a, b, e

\* Nothing, or both channels, one with a belief of its own.
OldFiles ==
    {EmptyGraph, [c \in Id |-> [LastUpdate |-> 1, learned |-> IF c = a THEN 1 ELSE Half]]}

OneEdge == [c \in Id |-> e]
=============================================================================
