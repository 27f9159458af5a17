----------------------------- MODULE MCPeerTable -----------------------------
(* Instances of PeerTable for TLC: channels of few parts, far below Word, so *)
(* that a balance which falls below zero stands out.                         *)
EXTENDS PeerTable
=============================================================================
