----------------------------- MODULE MCPayment -----------------------------
(* Instances of Payment for TLC: a payment of circular and one of somebody   *)
(* else.  Payments share only the channel of liquidity updates, which starts *)
(* with any number of updates of earlier ones.                               *)
EXTENDS Payment
=============================================================================
