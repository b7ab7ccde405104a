\* Two workers over one attempt, with crashes and failed calls; an entry goes
\* stale only when its worker has died.
SPECIFICATION Spec
CONSTANTS
  Attempts = {a1}
  Accounts = {alice}
  Challenges = {sum}
  AccountOf <- MCAccountOf
  ChallengeOf <- MCChallengeOf
  Verdicts = {"ACCEPTED", "WRONG_ANSWER"}
  MaxAttempts = 3
  Workers = {w1, w2}
  BatchSize = 1
  MaxFaults = 2
  PrematureReclaim = FALSE
SYMMETRY Symmetry
INVARIANTS
  TypeOK
  NoLostWork
  SafetyInvariant
