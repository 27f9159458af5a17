---------------------------- MODULE MCWebSockets ----------------------------
(* Instances of WebSockets for TLC. *)
EXTENDS WebSockets
=============================================================================
