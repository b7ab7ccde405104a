--------------------------- MODULE MCMaintenance ---------------------------
(***************************************************************************)
(* The constants of the run of Maintenance.                                *)
(***************************************************************************)
EXTENDS MaintenanceProperties

SoleAccount   == CHOOSE x \in Accounts : TRUE
SoleChallenge == CHOOSE x \in Challenges : TRUE
MCAccountOf   == [a \in Attempts |-> SoleAccount]
MCChallengeOf == [a \in Attempts |-> SoleChallenge]
MCBundles     == SetToSeq(Challenges)

Symmetry == Permutations(Scripts) \cup Permutations(Files)

=============================================================================
