--------------------------- MODULE MCAttemptStore ---------------------------
(***************************************************************************)
(* The constants of the run of AttemptStore on its own.                    *)
(***************************************************************************)
EXTENDS AttemptStoreProperties

\* Two attempts collide on one challenge and one account.
SoleAccount   == CHOOSE x \in Accounts : TRUE
SoleChallenge == CHOOSE x \in Challenges : TRUE
MCAccountOf   == [a \in Attempts |-> SoleAccount]
MCChallengeOf == [a \in Attempts |-> SoleChallenge]

=============================================================================
