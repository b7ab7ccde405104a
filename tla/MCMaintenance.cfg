\* Two seedings and a rebuild beside one attempt and an author.
SPECIFICATION MaintenanceSpec
CONSTANTS
  Attempts = {a1}
  Accounts = {alice}
  Challenges = {sum}
  AccountOf <- MCAccountOf
  ChallengeOf <- MCChallengeOf
  Verdicts = {"ACCEPTED"}
  MaxAttempts = 1
  Bundles <- MCBundles
  Files = {statement, suite}
  Versions = {0, 1}
  Scripts = {s1, s2}
  Rebuilders = {r1}
  MaxEdits = 2
  MaxScriptRuns = 3
INVARIANTS
  MaintenanceTypeOK
  RevisionIsFaithful
  ProjectionLagsOnlyAfterOverlap
  CreditsSurviveUnlessReseeded
PROPERTIES
  QueuedMeaningIsFixed
SYMMETRY Symmetry
CHECK_DEADLOCK FALSE
