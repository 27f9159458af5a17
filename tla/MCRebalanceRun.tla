--------------------------- MODULE MCRebalanceRun ---------------------------
(* Small instances of RebalanceRun. *)
EXTENDS RebalanceRun

\* An omitted parameter, a negative one, and values on both sides of the
\* shortest route.
MCAttemptsArgs == {-1, 0, 2}
MCMaxHopsArgs == {2, 3, 5}
=============================================================================
