---------------------------- MODULE DurableGraph ----------------------------
(***************************************************************************)
(* What saving the graph promises: the plugin holds a graph that grows     *)
(* with what it learns, one graph is stored, a save replaces the stored    *)
(* graph by a newer one at once, and after a crash the plugin starts again *)
(* from the stored one.  Graphs are numbered by their age.                 *)
(***************************************************************************)
EXTENDS Naturals

VARIABLES
    running,  \* the plugin runs
    memory,   \* the graph it holds
    stored    \* the graph it would start from

vars == <<running, memory, stored>>

Init ==
    /\ running = FALSE
    /\ memory = 0
    /\ stored = 0

Learn ==
    /\ running
    /\ memory' = memory + 1
    /\ UNCHANGED <<running, stored>>

Save ==
    /\ running
    /\ stored' \in stored..memory
    /\ UNCHANGED <<running, memory>>

Crash ==
    /\ running
    /\ running' = FALSE
    /\ UNCHANGED <<memory, stored>>

Restart ==
    /\ ~running
    /\ running' = TRUE
    /\ memory' = stored
    /\ UNCHANGED stored

Next == Learn \/ Save \/ Crash \/ Restart

Spec == Init /\ [][Next]_vars
=============================================================================
