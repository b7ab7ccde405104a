----------------------------- MODULE MCConsole -----------------------------
(***************************************************************************)
(* The constants of the run of AttemptConsole.                             *)
(***************************************************************************)
EXTENDS ConsoleProperties

SoleAccount   == CHOOSE x \in Accounts : TRUE
MCAccountOf   == [a \in Attempts |-> SoleAccount]
MCChallengeOf == [a \in Attempts |-> CHOOSE c \in Challenges : TRUE]

Sound ==
  [source |-> "text", challenge |-> "known", runtime |-> "enabled",
   actorKey |-> "absent", handle |-> "absent", key |-> NoKey]

\* A request with a key, by an account it names in two ways, and a refused one.
MCInputs ==
  {[Sound EXCEPT !.key = "k", !.actorKey = SoleAccount],
   [Sound EXCEPT !.key = "k", !.actorKey = "unknown", !.handle = SoleAccount],
   [Sound EXCEPT !.key = "too long"]}

\* The API may take back one result of one of the attempts.
OneWithdrawal ==
  [a \in Attempts |-> IF a = CHOOSE x \in Attempts : TRUE THEN 1 ELSE 0]

=============================================================================
