------------------------------ MODULE MCLocks ------------------------------
(* Instances of Locks for TLC. *)
EXTENDS Locks

\* All but FindCandidates.
OrderedSections == DOMAIN Script \ {"FindCandidates"}

CandidateSections == {"FindCandidates", "RefreshPeers", "RefreshLiquidity"}
=============================================================================
