\* A crash between the retry and the acknowledgement leaves two deliveries that both finish.
SPECIFICATION Spec
CONSTANTS
  Attempts = {a1}
  Accounts = {alice}
  Challenges = {sum}
  AccountOf <- MCAccountOf
  ChallengeOf <- MCChallengeOf
  Verdicts = {"ACCEPTED", "WRONG_ANSWER"}
  MaxAttempts = 2
  Workers = {w1, w2}
  BatchSize = 1
  MaxFaults = 1
  PrematureReclaim = FALSE
INVARIANTS
  OneResult
