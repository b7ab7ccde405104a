\* Liveness: no symmetry.
SPECIFICATION FairSpec
CONSTANTS
  Attempts = {a1}
  Accounts = {alice}
  Challenges = {sum}
  AccountOf <- MCAccountOf
  ChallengeOf <- MCChallengeOf
  Verdicts = {"ACCEPTED"}
  MaxAttempts = 2
  Workers = {w1, w2}
  BatchSize = 1
  MaxFaults = 2
  PrematureReclaim = FALSE
PROPERTIES
  EveryAttemptIsDecided
  EverythingSettles
  ImplementsFairService
