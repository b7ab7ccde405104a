\* Two attempts by one account at one challenge: dispatch in batches, credits that collide.
SPECIFICATION Spec
CONSTANTS
  Attempts = {a1, a2}
  Accounts = {alice}
  Challenges = {sum}
  AccountOf <- MCAccountOf
  ChallengeOf <- MCChallengeOf
  Verdicts = {"ACCEPTED"}
  MaxAttempts = 2
  Workers = {w1, w2}
  BatchSize = 2
  MaxFaults = 1
  PrematureReclaim = FALSE
SYMMETRY Symmetry
INVARIANTS
  NoLostWork
PROPERTIES
  ImplementsService
