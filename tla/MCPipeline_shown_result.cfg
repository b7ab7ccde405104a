\* One worker whose acknowledgement fails after the result was stored.
SPECIFICATION Spec
CONSTANTS
  Attempts = {a1}
  Accounts = {alice}
  Challenges = {sum}
  AccountOf <- MCAccountOf
  ChallengeOf <- MCChallengeOf
  Verdicts = {"ACCEPTED", "WRONG_ANSWER"}
  MaxAttempts = 2
  Workers = {w1}
  BatchSize = 1
  MaxFaults = 1
  PrematureReclaim = FALSE
PROPERTIES
  ShownResultsAreFinal
