\* Any transaction of any existing command, in any order and repetition.
SPECIFICATION StoreSpec
CONSTANTS
  Attempts = {a1, a2}
  Accounts = {alice}
  Challenges = {sum}
  AccountOf <- MCAccountOf
  ChallengeOf <- MCChallengeOf
  Verdicts = {"ACCEPTED", "WRONG_ANSWER"}
  MaxAttempts = 2
INVARIANTS
  StoreTypeOK
  ProjectionIsReplay
  ProjectionIsCurrent
  FirstResultStands
  ProcessedMeansDecided
  CreditsMatchResults
PROPERTIES
  ResultsAreFinal
  ImplementsService
  ImplementsShownService
