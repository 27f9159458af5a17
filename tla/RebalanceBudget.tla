-------------------------- MODULE RebalanceBudget --------------------------
(***************************************************************************)
(* The promise of one circular-pull or circular-push about its amount: it  *)
(* is spent in equal parts, each part is reserved before it is paid, and a *)
(* reserved part is either settled, which moves it, or released.           *)
(***************************************************************************)
EXTENDS Naturals

VARIABLES phase, total, unit, moved, reserved
vars == <<phase, total, unit, moved, reserved>>

Init ==
    /\ phase = "new"
    /\ total = 0 /\ unit = 0 /\ moved = 0 /\ reserved = 0

\* The call is accepted: the total is a whole number of parts.
Start ==
    /\ phase = "new" /\ phase' = "open"
    /\ unit' \in Nat \ {0}
    /\ total' \in Nat
    /\ total' >= unit' /\ total' % unit' = 0
    /\ UNCHANGED <<moved, reserved>>

Refuse ==
    /\ phase = "new" /\ phase' = "refused"
    /\ UNCHANGED <<total, unit, moved, reserved>>

\* A part is taken out of what is neither moved nor reserved.
Reserve ==
    /\ phase = "open"
    /\ moved + reserved + unit <= total
    /\ reserved' = reserved + unit
    /\ UNCHANGED <<phase, total, unit, moved>>

Settle ==
    /\ phase = "open"
    /\ reserved >= unit
    /\ reserved' = reserved - unit
    /\ moved' = moved + unit
    /\ UNCHANGED <<phase, total, unit>>

Release ==
    /\ phase = "open"
    /\ reserved >= unit
    /\ reserved' = reserved - unit
    /\ UNCHANGED <<phase, total, unit, moved>>

Close ==
    /\ phase = "open" /\ phase' = "closed"
    /\ reserved = 0
    /\ UNCHANGED <<total, unit, moved, reserved>>

Next == Start \/ Refuse \/ Reserve \/ Settle \/ Release \/ Close

Spec == Init /\ [][Next]_vars
=============================================================================
