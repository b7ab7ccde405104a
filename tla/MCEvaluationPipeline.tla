------------------------ MODULE MCEvaluationPipeline ------------------------
(***************************************************************************)
(* The constants of the runs of EvaluationPipeline.                        *)
(***************************************************************************)
EXTENDS EvaluationPipelineProperties

\* All attempts are by one account at one challenge, so credits can collide.
SoleAccount   == CHOOSE x \in Accounts : TRUE
SoleChallenge == CHOOSE x \in Challenges : TRUE
MCAccountOf   == [a \in Attempts |-> SoleAccount]
MCChallengeOf == [a \in Attempts |-> SoleChallenge]

Symmetry == Permutations(Workers) \cup Permutations(Attempts)

=============================================================================
