\* Requests with and without a key, an API that restarts once and takes one
\* result back, and a browser whose requests are slow and fail; no symmetry.
SPECIFICATION FairConsoleSpec
CONSTANTS
  Attempts = {r1, r2}
  Accounts = {dev}
  Challenges = {sum}
  AccountOf <- MCAccountOf
  ChallengeOf <- MCChallengeOf
  Verdicts = {}
  Inputs <- MCInputs
  DevAccount = dev
  ComposerInput <- Sound
  MaxCrashes = 1
  PageSize = 1
  MaxLoads = 2
  MaxWithdrawals <- OneWithdrawal
CHECK_DEADLOCK FALSE
INVARIANTS
  ConsoleTypeOK
  HiddenOnlyByStaleListing
  KeyedRequestsAgree
  ConflictMeansSiblingOpened
PROPERTIES
  ListingsKeepResults
  ShownSettles
